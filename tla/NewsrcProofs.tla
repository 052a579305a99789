---------------------------- MODULE NewsrcProofs ----------------------------
(***************************************************************************)
(* Proofs about newsgroups and the newsrc, for any number of sessions,     *)
(* articles and events: what closing a group writes is what was read in    *)
(* it, nothing is read before it was shown, the numbers of unread articles *)
(* are right, and a session knows the newsrc that it takes for unchanged.  *)
(***************************************************************************)
EXTENDS Newsrc, TLAPS, FiniteSetTheorems, WellFoundedInduction

(* No two ranges of a line have a number in common. *)
Disjoint(entries) ==
  \A d, e \in entries : d # e => d.last < e.first \/ e.last < d.first

(* A line's ranges are disjoint, and as long as the server does not begin to *)
(* number anew, they are not ahead of it and cover no article that was not   *)
(* shown.                                                                    *)
Fine(entries, srv, past, anew) ==
  /\ Disjoint(entries)
  /\ ~anew => /\ \A e \in entries : e.last <= srv.last
              /\ srv.articles \cap Covered(entries) \subseteq past

(* Articles that were shown, or cut off *)
Passed == seen \cup skipped

LinesInv ==
  /\ Fine(file.line.entries, server, Passed, renumbered)
  /\ \A p \in Sessions : Fine(group[p].line.entries, server, Passed, renumbered)

(* The server's numbers *)
ServerInv ==
  /\ server.articles \subseteq server.first..server.last
  /\ server.first <= server.last + 1

(* The headers of an open group are those of articles that have been loaded. *)
HeadersInv ==
  \A p \in Sessions : /\ DOMAIN hdrs[p] \subseteq 1..group[p].loaded
                      /\ p \notin open => DOMAIN hdrs[p] = {}

(* Nor is anything else ahead of the server; in an open group all numbers    *)
(* that have been loaded were shown.                                         *)
AheadInv ==
  ~renumbered =>
    /\ \A p \in Sessions : /\ group[p].first <= server.first
                           /\ group[p].last <= server.last
                           /\ group[p].loaded <= server.last
    /\ \A p \in open : 1..group[p].loaded \subseteq Passed

(* What is between closing a group and writing the newsrc *)
ClosingInv ==
  \A p \in closing :
    /\ pc[p] # "ready"
    /\ pc[p] = "rename" => group[p].line.entries = GenEntries(hdrs[p], group[p])

(* What a session that is not between rename() and stat() knows *)
NoticedInv ==
  \A p \in Sessions :
    pc[p] # "stat" /\ p \notin raced \cup forgotten /\ ~Modified(p) => known[p] = file.line

NInv ==
  /\ NewsrcTypeOK /\ LinesInv /\ ServerInv /\ HeadersInv /\ AheadInv /\ ClosingInv
  /\ NoticedInv

-----------------------------------------------------------------------------
(* Induction *)

(* A set of numbers has a least one. *)
LEMMA LeastNat ==
  ASSUME NEW T \in SUBSET Nat, T # {}
  PROVE  \E x \in T : \A y \in T : x <= y
<1> DEFINE R == {p \in Nat \X Nat : p[1] < p[2]}
<1>1. IsWellFoundedOn(R, Nat) BY NatLessThanWellFounded, Zenon DEF OpToRel
<1>2. PICK x \in T : \A y \in T : ~(<<y, x>> \in R) BY <1>1, WFMin, Zenon
<1>3. \A y \in T : ~(y < x) BY <1>2
<1>. QED BY <1>3

(* A set of finite sets has one of the least size. *)
LEMMA LeastSet ==
  ASSUME NEW C, C # {}, \A s \in C : IsFiniteSet(s)
  PROVE  \E s \in C : \A t \in C : Cardinality(s) <= Cardinality(t)
<1> DEFINE T == {Cardinality(s) : s \in C}
<1>1. T \in SUBSET Nat /\ T # {} BY FS_CardinalityType
<1> HIDE DEF T
<1>2. PICK x \in T : \A y \in T : x <= y BY <1>1, LeastNat
<1>. QED BY <1>2 DEF T

-----------------------------------------------------------------------------
(* The sum of a function, which Folds defines by recursion over sets *)
First(s) == CHOOSE x \in s : TRUE
SumOf(t, w, s) == IF s = {} THEN 0 ELSE w[First(s)] + t[s \ {First(s)}]

(* The rest of a set is smaller. *)
LEMMA RestSmaller ==
  ASSUME NEW s, IsFiniteSet(s), s # {}
  PROVE  /\ First(s) \in s /\ IsFiniteSet(s \ {First(s)})
         /\ Cardinality(s) \in Nat /\ Cardinality(s \ {First(s)}) = Cardinality(s) - 1
<1>1. First(s) \in s BY DEF First
<1>. QED BY <1>1, FS_RemoveElement, FS_CardinalityType

(* Functions that add up parts of limited size exist. *)
LEMMA SumsExist ==
  ASSUME NEW w, IsFiniteSet(DOMAIN w)
  PROVE  \E t : t = [s \in SUBSET DOMAIN w |-> SumOf(t, w, s)]
<1> DEFINE Small(k) == {s \in SUBSET DOMAIN w : Cardinality(s) <= k}
           Sums(k) == \E t : t = [s \in Small(k) |-> SumOf(t, w, s)]
           Bad == {k \in Nat : ~Sums(k)}
<1>0. \A s \in SUBSET DOMAIN w : IsFiniteSet(s) /\ Cardinality(s) \in Nat
  BY FS_Subset, FS_CardinalityType
<1>1. Sums(0)
  <2>1. ASSUME NEW s \in Small(0) PROVE s = {}
    <3>1. s \in SUBSET DOMAIN w /\ Cardinality(s) <= 0 OBVIOUS
    <3>2. IsFiniteSet(s) /\ Cardinality(s) = 0 BY <1>0, <3>1
    <3>. QED BY <3>2, FS_EmptySet
  <2> DEFINE t == [s \in Small(0) |-> 0]
  <2>2. t = [s \in Small(0) |-> SumOf(t, w, s)] BY <2>1 DEF SumOf
  <2>. QED BY <2>2
<1>2. ASSUME NEW k \in Nat, Sums(k) PROVE Sums(k + 1)
  <2>1. PICK t : t = [s \in Small(k) |-> SumOf(t, w, s)] BY <1>2
  <2> DEFINE u == [s \in Small(k + 1) |-> SumOf(t, w, s)]
  <2>2. ASSUME NEW s \in Small(k + 1) PROVE u[s] = SumOf(u, w, s)
    <3>1. CASE s = {} BY <3>1 DEF SumOf
    <3>2. CASE s # {}
      <4> DEFINE r == s \ {First(s)}
      <4>1. r \in Small(k) /\ r \in Small(k + 1)
        <5>1. s \in SUBSET DOMAIN w /\ Cardinality(s) <= k + 1 OBVIOUS
        <5>2. Cardinality(s) \in Nat /\ Cardinality(r) = Cardinality(s) - 1
          BY <1>0, <3>2, <5>1, RestSmaller
        <5>. QED BY <5>1, <5>2
      <4>2. t[r] = SumOf(t, w, r) BY <2>1, <4>1
      <4>3. u[r] = SumOf(t, w, r) BY <4>1
      <4>. QED BY <3>2, <4>2, <4>3 DEF SumOf
    <3>. QED BY <3>1, <3>2
  <2>3. u = [s \in Small(k + 1) |-> u[s]] OBVIOUS
  <2> HIDE DEF u
  <2>4. u = [s \in Small(k + 1) |-> SumOf(u, w, s)] BY <2>2, <2>3
  <2>. QED BY <2>4
<1>3. Bad = {}
  <2>1. SUFFICES ASSUME Bad # {} PROVE FALSE OBVIOUS
  <2>2. PICK k \in Bad : \A j \in Bad : k <= j BY <2>1, LeastNat
  <2>3. k # 0 BY <1>1, <2>2
  <2>4. k \in Nat /\ ~Sums(k) /\ (\A j \in Nat : ~Sums(j) => k <= j) BY <2>2
  <2> HIDE DEF Sums
  <2>5. PICK j \in Nat : k = j + 1 BY <2>3, <2>4
  <2>6. Sums(j) BY <2>4, <2>5
  <2>7. Sums(j + 1) BY <1>2, <2>6
  <2>. QED BY <2>4, <2>5, <2>7
<1>4. Sums(Cardinality(DOMAIN w)) BY <1>0, <1>3
<1>5. Small(Cardinality(DOMAIN w)) = SUBSET DOMAIN w BY FS_Subset, FS_CardinalityType
<1>. QED BY <1>4, <1>5

(* So SumFunction adds up, element by element. *)
LEMMA SumAddsUp ==
  ASSUME NEW w, IsFiniteSet(DOMAIN w)
  PROVE  \E t : t = [s \in SUBSET DOMAIN w |-> SumOf(t, w, s)] /\ SumFunction(w) = t[DOMAIN w]
<1> DEFINE u == CHOOSE t : t = [s \in SUBSET DOMAIN w |-> SumOf(t, w, s)]
<1>1. u = [s \in SUBSET DOMAIN w |-> SumOf(u, w, s)] BY SumsExist
<1>2. SumFunction(w) = u[DOMAIN w]
  BY DEF SumFunction, SumFunctionOnSet, FoldFunctionOnSet, MapThenFoldSet, SumOf, First
<1>. QED BY <1>1, <1>2

(* A sum of natural numbers is one. *)
LEMMA SumNat ==
  ASSUME NEW S, IsFiniteSet(S), NEW w \in [S -> Nat]
  PROVE  SumFunction(w) \in Nat
<1>1. PICK t : t = [s \in SUBSET S |-> SumOf(t, w, s)] /\ SumFunction(w) = t[S] BY SumAddsUp
<1> DEFINE Bad == {s \in SUBSET S : t[s] \notin Nat}
<1>2. \A s \in SUBSET S : IsFiniteSet(s) /\ Cardinality(s) \in Nat BY FS_Subset, FS_CardinalityType
<1>3. Bad = {}
  <2>1. SUFFICES ASSUME Bad # {} PROVE FALSE OBVIOUS
  <2>2. PICK s \in Bad : \A r \in Bad : Cardinality(s) <= Cardinality(r) BY <1>2, <2>1, LeastSet
  <2>3. s # {} BY <1>1, <2>2 DEF SumOf
  <2> DEFINE r == s \ {First(s)}
  <2>4. /\ First(s) \in s /\ r \in SUBSET S
        /\ Cardinality(s) \in Nat /\ Cardinality(r) = Cardinality(s) - 1
    BY <1>2, <2>2, <2>3, RestSmaller
  <2>5. t[r] \in Nat BY <2>2, <2>4
  <2>6. t[s] = w[First(s)] + t[r] BY <1>1, <2>2, <2>3 DEF SumOf
  <2>. QED BY <2>2, <2>4, <2>5, <2>6
<1>. QED BY <1>1, <1>3

(* The sizes of disjoint sets add up to that of their union. *)
LEMMA SumCounts ==
  ASSUME NEW S, IsFiniteSet(S), NEW w \in [S -> Nat], NEW c,
         \A x \in S : IsFiniteSet(c[x]) /\ w[x] = Cardinality(c[x]),
         \A x, y \in S : x # y => c[x] \cap c[y] = {}
  PROVE  LET U == UNION {c[x] : x \in S}
         IN  IsFiniteSet(U) /\ SumFunction(w) = Cardinality(U)
<1>1. PICK t : t = [s \in SUBSET S |-> SumOf(t, w, s)] /\ SumFunction(w) = t[S] BY SumAddsUp
<1> DEFINE U(s) == UNION {c[x] : x \in s}
           Bad == {s \in SUBSET S : ~(IsFiniteSet(U(s)) /\ t[s] = Cardinality(U(s)))}
<1>2. \A s \in SUBSET S : IsFiniteSet(s) /\ Cardinality(s) \in Nat BY FS_Subset, FS_CardinalityType
<1>3. Bad = {}
  <2>1. SUFFICES ASSUME Bad # {} PROVE FALSE OBVIOUS
  <2>2. PICK s \in Bad : \A r \in Bad : Cardinality(s) <= Cardinality(r) BY <1>2, <2>1, LeastSet
  <2>3. s # {}
    <3>1. SUFFICES ASSUME s = {} PROVE FALSE OBVIOUS
    <3>2. U(s) = {} BY <3>1
    <3>3. t[s] = 0 BY <1>1, <3>1 DEF SumOf
    <3>. QED BY <2>2, <3>2, <3>3, FS_EmptySet
  <2> DEFINE x == First(s)
             r == s \ {x}
  <2>4. /\ x \in s /\ r \in SUBSET S
        /\ Cardinality(s) \in Nat /\ Cardinality(r) = Cardinality(s) - 1
    BY <1>2, <2>2, <2>3, RestSmaller
  <2>5. r \notin Bad BY <2>2, <2>4
  <2>6. IsFiniteSet(U(r)) /\ t[r] = Cardinality(U(r)) BY <2>4, <2>5
  <2>7. t[s] = w[x] + t[r] BY <1>1, <2>2, <2>3 DEF SumOf
  <2>8. U(s) = c[x] \cup U(r) BY <2>4
  <2>9. c[x] \cap U(r) = {} BY <2>2, <2>4
  <2>10. x \in S /\ IsFiniteSet(c[x]) /\ w[x] = Cardinality(c[x]) BY <2>2, <2>4
  <2> HIDE DEF U, x, r
  <2>11. IsFiniteSet(U(s)) /\ Cardinality(U(s)) = Cardinality(c[x]) + Cardinality(U(r))
    <3>1. Cardinality(c[x] \cap U(r)) = 0 BY <2>9, FS_EmptySet
    <3>2. Cardinality(c[x]) \in Nat /\ Cardinality(U(r)) \in Nat BY <2>6, <2>10, FS_CardinalityType
    <3> DEFINE A == c[x]
               B == U(r)
    <3>3. IsFiniteSet(A) /\ IsFiniteSet(B) BY <2>6, <2>10
    <3> HIDE DEF A, B
    <3>4. /\ IsFiniteSet(A \cup B)
          /\ Cardinality(A \cup B) = Cardinality(A) + Cardinality(B) - Cardinality(A \cap B)
      BY <3>3, FS_Union
    <3>. QED BY <2>8, <3>1, <3>2, <3>4 DEF A, B
  <2>. QED BY <2>2, <2>6, <2>7, <2>10, <2>11
<1>. QED BY <1>1, <1>3

-----------------------------------------------------------------------------
(* newsrc_gen_entries() *)
Turn(t, hs, fm, n) ==
  IF n = 0 THEN [series |-> TRUE, first |-> 1, last |-> 0, entries |-> {}]
  ELSE IF n \in DOMAIN hs THEN GenEntry(t[n - 1], n, hs[n], fm)
  ELSE t[n - 1]

(* The turns of the loop exist, however many. *)
LEMMA TurnsExist ==
  ASSUME NEW hs, NEW fm
  PROVE  \E t : t = [n \in 0..MaxArticle |-> Turn(t, hs, fm, n)]
<1> DEFINE Some(k) == \E t : t = [n \in 0..k |-> Turn(t, hs, fm, n)]
           Bad == {k \in Nat : ~Some(k)}
<1>1. Some(0)
  <2> DEFINE t == [n \in 0..0 |-> Turn(<<>>, hs, fm, n)]
  <2>1. t = [n \in 0..0 |-> Turn(t, hs, fm, n)] BY DEF Turn
  <2>. QED BY <2>1
<1>2. ASSUME NEW k \in Nat, Some(k) PROVE Some(k + 1)
  <2>1. PICK t : t = [n \in 0..k |-> Turn(t, hs, fm, n)] BY <1>2
  <2> DEFINE u == [n \in 0..(k + 1) |-> Turn(t, hs, fm, n)]
  <2>2. ASSUME NEW n \in 0..(k + 1) PROVE u[n] = Turn(u, hs, fm, n)
    <3>1. CASE n = 0 BY <3>1 DEF Turn
    <3>2. CASE n # 0
      <4>1. n - 1 \in 0..k /\ n - 1 \in 0..(k + 1) BY <3>2
      <4>2. t[n - 1] = Turn(t, hs, fm, n - 1) BY <2>1, <4>1
      <4>3. u[n - 1] = Turn(t, hs, fm, n - 1) BY <4>1
      <4>. QED BY <3>2, <4>2, <4>3 DEF Turn
    <3>. QED BY <3>1, <3>2
  <2>3. u = [n \in 0..(k + 1) |-> u[n]] OBVIOUS
  <2> HIDE DEF u
  <2>4. u = [n \in 0..(k + 1) |-> Turn(u, hs, fm, n)] BY <2>2, <2>3
  <2>. QED BY <2>4
<1>3. Bad = {}
  <2>1. SUFFICES ASSUME Bad # {} PROVE FALSE OBVIOUS
  <2>2. PICK k \in Bad : \A j \in Bad : k <= j BY <2>1, LeastNat
  <2>3. k # 0 BY <1>1, <2>2
  <2>4. k \in Nat /\ ~Some(k) /\ (\A j \in Nat : ~Some(j) => k <= j) BY <2>2
  <2> HIDE DEF Some
  <2>5. PICK j \in Nat : k = j + 1 BY <2>3, <2>4
  <2>6. Some(j) BY <2>4, <2>5
  <2>7. Some(j + 1) BY <1>2, <2>6
  <2>. QED BY <2>4, <2>5, <2>7
<1>4. MaxArticle \in Nat BY NewsrcAssumption
<1>. QED BY <1>3, <1>4

(* So each turn follows from the one before. *)
LEMMA TurnFollows ==
  ASSUME NEW hs, NEW fm
  PROVE  Turns(hs, fm) = [n \in 0..MaxArticle |-> Turn(Turns(hs, fm), hs, fm, n)]
<1> DEFINE u == CHOOSE t : t = [n \in 0..MaxArticle |-> Turn(t, hs, fm, n)]
<1>0. PICK t : t = [n \in 0..MaxArticle |-> Turn(t, hs, fm, n)] BY TurnsExist
<1>1. u = [n \in 0..MaxArticle |-> Turn(u, hs, fm, n)] BY <1>0
<1>2. Turns(hs, fm) = u BY DEF Turns, Turn
<1>. QED BY <1>1, <1>2

(* What holds before and after each turn: the headers seen so far are in a   *)
(* range, or in the one that has begun, if and only if they are read or      *)
(* deleted.                                                                  *)
LoopInv(a, hs, fm, k) ==
  /\ a \in [series : BOOLEAN, first : 1..MaxArticle + 1, last : 0..MaxArticle, entries : SUBSET Entry]
  /\ a.last <= k /\ (a.last = 0 \/ a.last \in DOMAIN hs)
  /\ \A n \in DOMAIN hs : n <= k => n <= a.last
  /\ a.series => a.first <= a.last + 1
  /\ \A e \in a.entries : IF a.series THEN e.last < a.first ELSE e.last < a.last
  /\ Disjoint(a.entries)
  /\ \A n \in DOMAIN hs :
       n <= k /\ fm <= n =>
         (n \in Covered(a.entries) \/ (a.series /\ a.first <= n) <=> hs[n].read \/ hs[n].deleted)

(* A new range is added to those there are. *)
LEMMA MoreCovered ==
  ASSUME NEW E \in SUBSET Entry, NEW f \in 1..MaxArticle + 1, NEW l \in 0..MaxArticle
  PROVE  /\ [first |-> f, last |-> l] \in Entry
         /\ \A n \in Int : n \in Covered(E \cup {[first |-> f, last |-> l]})
                             <=> n \in Covered(E) \/ (f <= n /\ n <= l)
         /\ Disjoint(E) /\ (\A e \in E : e.last < f) => Disjoint(E \cup {[first |-> f, last |-> l]})
<1> DEFINE r == [first |-> f, last |-> l]
<1>1. r \in Entry /\ r.first = f /\ r.last = l BY DEF Entry
<1>2. \A e \in Entry : e.first \in Int /\ e.last \in Int BY NewsrcAssumption DEF Entry
<1>3. f \in Int /\ l \in Int BY NewsrcAssumption
<1> HIDE DEF r
<1>4. ASSUME NEW n \in Int
      PROVE n \in Covered(E \cup {r}) <=> n \in Covered(E) \/ (f <= n /\ n <= l)
  BY <1>1, <1>3 DEF Covered
<1>5. Disjoint(E) /\ (\A e \in E : e.last < f) => Disjoint(E \cup {r})
  BY <1>1, <1>2, <1>3 DEF Disjoint
<1>. QED BY <1>1, <1>4, <1>5 DEF r

(* What a line covers is above its ranges' beginnings and up to their ends. *)
LEMMA CoveredUpTo ==
  ASSUME NEW E \in SUBSET Entry, NEW n \in Covered(E)
  PROVE  n \in Int /\ \E e \in E : e.first <= n /\ n <= e.last /\ e.first >= 1 /\ e.last \in Int
BY NewsrcAssumption DEF Covered, Entry

(* A turn for a header keeps the loop's invariant. *)
LEMMA TurnKeeps ==
  ASSUME NEW hs \in Headers, NEW fm \in Int, NEW k \in 1..MaxArticle, k \in DOMAIN hs,
         NEW a, LoopInv(a, hs, fm, k - 1)
  PROVE  LoopInv(GenEntry(a, k, hs[k], fm), hs, fm, k)
<1> DEFINE b == GenEntry(a, k, hs[k], fm)
           r == [first |-> a.first, last |-> k - 1]
<1>0. MaxArticle \in Nat /\ DOMAIN hs \subseteq Articles /\ DOMAIN hs \subseteq Int
      /\ \A n \in DOMAIN hs : hs[n] \in Header
  <2>1. PICK A \in SUBSET Articles : hs \in [A -> Header] BY DEF Headers
  <2>. QED BY <2>1, NewsrcAssumption DEF Articles
<1>1. /\ a \in [series : BOOLEAN, first : 1..MaxArticle + 1, last : 0..MaxArticle, entries : SUBSET Entry]
      /\ a.last <= k - 1 /\ (a.last = 0 \/ a.last \in DOMAIN hs)
      /\ \A n \in DOMAIN hs : n <= k - 1 => n <= a.last
      /\ a.series => a.first <= a.last + 1
      /\ \A e \in a.entries : IF a.series THEN e.last < a.first ELSE e.last < a.last
      /\ Disjoint(a.entries)
  BY DEF LoopInv
<1>2. \A n \in DOMAIN hs : n <= k - 1 /\ fm <= n =>
        (n \in Covered(a.entries) \/ (a.series /\ a.first <= n) <=> hs[n].read \/ hs[n].deleted)
  BY DEF LoopInv
<1>3. a.series \in BOOLEAN /\ a.first \in 1..MaxArticle + 1 /\ a.last \in 0..MaxArticle
      /\ a.entries \in SUBSET Entry
  BY <1>1
<1>4. \A n \in DOMAIN hs : n <= k => n <= k - 1 \/ n = k BY <1>0
<1>5. \A e \in a.entries : e.last \in Int /\ e.last < k
  <2>1. \A e \in a.entries : e.last \in Int BY <1>0, <1>3 DEF Entry
  <2>. QED BY <1>0, <1>1, <1>3, <2>1
<1>6. k \notin Covered(a.entries)
  <2>1. SUFFICES ASSUME k \in Covered(a.entries) PROVE FALSE OBVIOUS
  <2>2. PICK e \in a.entries : k <= e.last BY <1>3, <2>1, CoveredUpTo
  <2>. QED BY <1>5, <2>2
<1>7. CASE a.series /\ k >= fm /\ ~hs[k].deleted /\ ~hs[k].read
  <2>1. b = [a EXCEPT !.last = k, !.series = FALSE, !.entries = @ \cup {r}]
    BY <1>7 DEF GenEntry
  <2>2. b.series = FALSE /\ b.first = a.first /\ b.last = k /\ b.entries = a.entries \cup {r}
    BY <1>1, <2>1
  <2>3. k - 1 \in 0..MaxArticle BY <1>0
  <2>4. /\ r \in Entry /\ Disjoint(b.entries)
        /\ \A n \in Int : n \in Covered(b.entries)
                            <=> n \in Covered(a.entries) \/ (a.first <= n /\ n <= k - 1)
    <3>1. \A e \in a.entries : e.last < a.first BY <1>1, <1>7
    <3> DEFINE E == a.entries
               f == a.first
               l == k - 1
    <3>2. /\ E \in SUBSET Entry /\ f \in 1..MaxArticle + 1 /\ l \in 0..MaxArticle
          /\ Disjoint(E) /\ \A e \in E : e.last < f
      BY <1>1, <1>3, <2>3, <3>1
    <3> HIDE DEF b, E, f, l
    <3>3. /\ [first |-> f, last |-> l] \in Entry /\ Disjoint(E \cup {[first |-> f, last |-> l]})
          /\ \A n \in Int : n \in Covered(E \cup {[first |-> f, last |-> l]})
                              <=> n \in Covered(E) \/ (f <= n /\ n <= l)
      BY <3>2, MoreCovered
    <3>. QED BY <2>2, <3>3 DEF E, f, l
  <2>5. b \in [series : BOOLEAN, first : 1..MaxArticle + 1, last : 0..MaxArticle, entries : SUBSET Entry]
    <3>1. b = [series |-> FALSE, first |-> a.first, last |-> k, entries |-> a.entries \cup {r}]
      BY <1>1, <2>1
    <3>2. k \in 0..MaxArticle /\ a.entries \cup {r} \in SUBSET Entry BY <1>0, <1>3, <2>4
    <3> HIDE DEF b, r
    <3>. QED BY <1>3, <3>1, <3>2
  <2>6. \A e \in b.entries : e.last < b.last
    BY <1>0, <1>5, <2>2
  <2>7. ASSUME NEW n \in DOMAIN hs, n <= k, fm <= n
        PROVE n \in Covered(b.entries) <=> hs[n].read \/ hs[n].deleted
    <3>1. CASE n = k BY <1>0, <1>6, <1>7, <2>4, <3>1
    <3>2. CASE n # k
      <4>1. n <= k - 1 /\ n \in Int BY <1>0, <2>7, <3>2
      <4>. QED BY <1>2, <1>7, <2>4, <2>7, <4>1
    <3>. QED BY <3>1, <3>2
  <2> HIDE DEF b, r
  <2>8. LoopInv(b, hs, fm, k)
    BY <1>0, <1>4, <2>2, <2>4, <2>5, <2>6, <2>7 DEF LoopInv
  <2>. QED BY <2>8 DEF b
<1>8. CASE a.series /\ ~(k >= fm /\ ~hs[k].deleted /\ ~hs[k].read)
  <2>1. b = [a EXCEPT !.last = k] BY <1>8 DEF GenEntry
  <2>2. b.series = TRUE /\ b.first = a.first /\ b.last = k /\ b.entries = a.entries
    BY <1>1, <1>8, <2>1
  <2>3. b \in [series : BOOLEAN, first : 1..MaxArticle + 1, last : 0..MaxArticle, entries : SUBSET Entry]
    BY <1>0, <1>1, <2>1
  <2>4. ASSUME NEW n \in DOMAIN hs, n <= k, fm <= n
        PROVE n \in Covered(b.entries) \/ b.first <= n <=> hs[n].read \/ hs[n].deleted
    <3>1. CASE n = k BY <1>0, <1>1, <1>3, <1>8, <2>2, <2>4, <3>1
    <3>2. CASE n # k
      <4>1. n <= k - 1 /\ n \in Int BY <1>0, <2>4, <3>2
      <4>. QED BY <1>2, <1>8, <2>2, <2>4, <4>1
    <3>. QED BY <3>1, <3>2
  <2>5. b.first <= b.last + 1 BY <1>0, <1>1, <1>3, <1>8, <2>2
  <2> HIDE DEF b
  <2>6. LoopInv(b, hs, fm, k)
    BY <1>0, <1>1, <1>4, <1>8, <2>2, <2>3, <2>4, <2>5 DEF LoopInv
  <2>. QED BY <2>6 DEF b
<1>9. CASE ~a.series /\ (hs[k].deleted \/ hs[k].read)
  <2>1. b = [a EXCEPT !.first = a.last + 1, !.series = TRUE, !.last = k] BY <1>9 DEF GenEntry
  <2>2. b.series = TRUE /\ b.first = a.last + 1 /\ b.last = k /\ b.entries = a.entries
    BY <1>1, <2>1
  <2>3. b \in [series : BOOLEAN, first : 1..MaxArticle + 1, last : 0..MaxArticle, entries : SUBSET Entry]
    <3>1. b = [series |-> TRUE, first |-> a.last + 1, last |-> k, entries |-> a.entries]
      BY <1>1, <2>1
    <3>2. k \in 0..MaxArticle /\ a.last + 1 \in 1..MaxArticle + 1 BY <1>0, <1>3
    <3> HIDE DEF b
    <3>. QED BY <1>3, <3>1, <3>2
  <2>4. ASSUME NEW n \in DOMAIN hs, n <= k, fm <= n
        PROVE n \in Covered(b.entries) \/ b.first <= n <=> hs[n].read \/ hs[n].deleted
    <3>1. CASE n = k BY <1>0, <1>1, <1>3, <1>9, <2>2, <2>4, <3>1
    <3>2. CASE n # k
      <4>1. n <= k - 1 /\ n \in Int /\ n <= a.last BY <1>0, <1>1, <2>4, <3>2
      <4>2. ~(b.first <= n) BY <1>3, <2>2, <4>1
      <4>. QED BY <1>2, <1>9, <2>2, <2>4, <4>1, <4>2
    <3>. QED BY <3>1, <3>2
  <2>5. /\ b.first <= b.last + 1
        /\ \A e \in b.entries : e.last < b.first
    BY <1>0, <1>1, <1>3, <1>5, <1>9, <2>2
  <2> HIDE DEF b
  <2>6. LoopInv(b, hs, fm, k)
    BY <1>0, <1>1, <1>4, <2>2, <2>3, <2>4, <2>5 DEF LoopInv
  <2>. QED BY <2>6 DEF b
<1>10. CASE ~a.series /\ ~(hs[k].deleted \/ hs[k].read)
  <2>1. b = [a EXCEPT !.last = k] BY <1>10 DEF GenEntry
  <2>2. b.series = FALSE /\ b.first = a.first /\ b.last = k /\ b.entries = a.entries
    BY <1>1, <1>10, <2>1
  <2>3. b \in [series : BOOLEAN, first : 1..MaxArticle + 1, last : 0..MaxArticle, entries : SUBSET Entry]
    BY <1>0, <1>1, <2>1
  <2>4. ASSUME NEW n \in DOMAIN hs, n <= k, fm <= n
        PROVE n \in Covered(b.entries) <=> hs[n].read \/ hs[n].deleted
    <3>1. CASE n = k BY <1>6, <1>10, <2>2, <3>1
    <3>2. CASE n # k
      <4>1. n <= k - 1 /\ n \in Int BY <1>0, <2>4, <3>2
      <4>. QED BY <1>2, <1>10, <2>2, <2>4, <4>1
    <3>. QED BY <3>1, <3>2
  <2> HIDE DEF b
  <2>6. LoopInv(b, hs, fm, k)
    BY <1>0, <1>1, <1>4, <1>5, <2>2, <2>3, <2>4 DEF LoopInv
  <2>. QED BY <2>6 DEF b
<1>. QED BY <1>3, <1>7, <1>8, <1>9, <1>10

(* So the loop's invariant holds after all turns. *)
LEMMA LoopRight ==
  ASSUME NEW hs \in Headers, NEW fm \in Int
  PROVE  LoopInv(Turns(hs, fm)[MaxArticle], hs, fm, MaxArticle)
<1> DEFINE t == Turns(hs, fm)
           Bad == {k \in 0..MaxArticle : ~LoopInv(t[k], hs, fm, k)}
<1>0. MaxArticle \in Nat /\ DOMAIN hs \subseteq Articles BY NewsrcAssumption DEF Headers
<1>1. \A n \in 0..MaxArticle : t[n] = Turn(t, hs, fm, n)
  <2>1. t = [n \in 0..MaxArticle |-> Turn(t, hs, fm, n)] BY TurnFollows
  <2> HIDE DEF t
  <2>. QED BY <2>1
<1> HIDE DEF t
<1>2. LoopInv(t[0], hs, fm, 0)
  <2>1. t[0] = [series |-> TRUE, first |-> 1, last |-> 0, entries |-> {}]
    BY <1>0, <1>1 DEF Turn
  <2>2. \A n \in DOMAIN hs : ~(n <= 0) BY <1>0 DEF Articles
  <2>. QED BY <1>0, <2>1, <2>2 DEF LoopInv, Disjoint
<1>3. ASSUME NEW k \in 1..MaxArticle, LoopInv(t[k - 1], hs, fm, k - 1)
      PROVE LoopInv(t[k], hs, fm, k)
  <2>1. CASE k \in DOMAIN hs
    <3>1. t[k] = GenEntry(t[k - 1], k, hs[k], fm) BY <1>0, <1>1, <2>1 DEF Turn
    <3>. QED BY <1>3, <2>1, <3>1, TurnKeeps
  <2>2. CASE k \notin DOMAIN hs
    <3>1. t[k] = t[k - 1] BY <1>0, <1>1, <2>2 DEF Turn
    <3>2. \A n \in DOMAIN hs : n <= k <=> n <= k - 1 BY <1>0, <2>2 DEF Articles
    <3>3. \A n \in 0..MaxArticle : n <= k - 1 => n <= k BY <1>0
    <3>. QED BY <1>3, <3>1, <3>2, <3>3 DEF LoopInv
  <2>. QED BY <2>1, <2>2
<1>4. Bad = {}
  <2>1. SUFFICES ASSUME Bad # {} PROVE FALSE OBVIOUS
  <2>2. Bad \in SUBSET Nat BY <1>0
  <2>3. PICK k \in Bad : \A j \in Bad : k <= j BY <2>1, <2>2, LeastNat
  <2>4. k # 0 BY <1>2, <2>3
  <2>5. k \in 1..MaxArticle /\ k - 1 \in 0..MaxArticle BY <1>0, <2>3, <2>4
  <2>6. LoopInv(t[k - 1], hs, fm, k - 1) BY <2>3, <2>5
  <2>. QED BY <1>3, <2>3, <2>5, <2>6
<1>. QED BY <1>0, <1>4 DEF t

(* newsrc_gen_entries(): the ranges it makes are disjoint and end with what  *)
(* has been loaded, and from firstMessage on they cover the headers that     *)
(* are read or deleted and no others.                                        *)
LEMMA GenEntriesRight ==
  ASSUME NEW hs \in Headers, NEW g \in NewsGroup, DOMAIN hs \subseteq 1..g.loaded
  PROVE  /\ GenEntries(hs, g) \in SUBSET Entry
         /\ Disjoint(GenEntries(hs, g))
         /\ \A e \in GenEntries(hs, g) : e.last <= g.loaded
         /\ \A n \in DOMAIN hs : g.first <= n =>
              (n \in Covered(GenEntries(hs, g)) <=> hs[n].read \/ hs[n].deleted)
<1> DEFINE a == Turns(hs, g.first)[MaxArticle]
           r == [first |-> a.first, last |-> g.loaded]
<1>0. MaxArticle \in Nat /\ g.first \in Int /\ g.loaded \in 0..MaxArticle /\ g.first \in 1..MaxArticle + 1
      /\ DOMAIN hs \subseteq Articles
  BY NewsrcAssumption DEF NewsGroup, Headers
<1>1. LoopInv(a, hs, g.first, MaxArticle) BY <1>0, LoopRight
<1>2. GenEntries(hs, g) = a.entries \cup IF a.series /\ a.first <= g.loaded THEN {r} ELSE {}
  BY DEF GenEntries
<1> HIDE DEF a
<1>3. /\ a.series \in BOOLEAN /\ a.first \in 1..MaxArticle + 1 /\ a.last \in 0..MaxArticle
      /\ a.entries \in SUBSET Entry
  BY <1>1 DEF LoopInv
<1>4. a.last <= g.loaded BY <1>0, <1>1, <1>3 DEF LoopInv
<1>5. \A e \in a.entries : e.last <= g.loaded
  <2>1. \A e \in a.entries : e.last \in Int BY <1>0, <1>3 DEF Entry
  <2>. QED BY <1>0, <1>1, <1>3, <1>4, <2>1 DEF LoopInv
<1>6. ASSUME NEW n \in DOMAIN hs, g.first <= n
      PROVE n \in Int /\ n <= g.loaded
            /\ (n \in Covered(a.entries) \/ (a.series /\ a.first <= n) <=> hs[n].read \/ hs[n].deleted)
  BY <1>0, <1>1, <1>6 DEF LoopInv, Articles
<1>7. CASE a.series /\ a.first <= g.loaded
  <2>1. GenEntries(hs, g) = a.entries \cup {r} BY <1>2, <1>7
  <2>2. Disjoint(a.entries) /\ \A e \in a.entries : e.last < a.first BY <1>1, <1>7 DEF LoopInv
  <2>3. /\ r \in Entry /\ Disjoint(a.entries \cup {r})
        /\ \A n \in Int : n \in Covered(a.entries \cup {r})
                            <=> n \in Covered(a.entries) \/ (a.first <= n /\ n <= g.loaded)
    BY <1>0, <1>3, <2>2, MoreCovered
  <2>4. r.last <= g.loaded BY <1>0
  <2> HIDE DEF r
  <2>. QED BY <1>3, <1>5, <1>6, <1>7, <2>1, <2>3, <2>4
<1>8. CASE ~(a.series /\ a.first <= g.loaded)
  <2>1. GenEntries(hs, g) = a.entries BY <1>2, <1>8
  <2>2. Disjoint(a.entries) BY <1>1 DEF LoopInv
  <2>3. ASSUME NEW n \in DOMAIN hs, g.first <= n PROVE ~(a.series /\ a.first <= n)
    BY <1>0, <1>3, <1>6, <1>8, <2>3
  <2>. QED BY <1>3, <1>5, <1>6, <2>1, <2>2, <2>3
<1>. QED BY <1>7, <1>8

-----------------------------------------------------------------------------
(* Lines and what is read of them *)

(* What is left out of a line leaves the rest as it should be. *)
LEMMA FineSubset ==
  ASSUME NEW E, NEW D \in SUBSET E, NEW srv, NEW sh, NEW an, Fine(E, srv, sh, an)
  PROVE  Fine(D, srv, sh, an)
BY DEF Fine, Disjoint, Covered

(* An empty line, and the one for a group that is numbered anew *)
LEMMA FineEmpty ==
  ASSUME NEW srv, srv.last \in Nat, NEW sh, NEW an
  PROVE  /\ Fine({}, srv, sh, an)
         /\ {[first |-> 1, last |-> 0]} \in SUBSET Entry
         /\ Fine({[first |-> 1, last |-> 0]}, srv, sh, an)
<1>1. Covered({[first |-> 1, last |-> 0]}) = {} BY DEF Covered
<1>2. Covered({}) = {} BY DEF Covered
<1>3. {[first |-> 1, last |-> 0]} \in SUBSET Entry BY NewsrcAssumption DEF Entry
<1>. QED BY <1>1, <1>2, <1>3 DEF Fine, Disjoint

(* nntp_parse_newsrc_line() drops only ranges that cover nothing. *)
LEMMA ParsedLine ==
  ASSUME NEW l \in Line
  PROVE  /\ Parsed(l) \in Line /\ Parsed(l).rc = l.rc
         /\ Parsed(l).entries \in SUBSET l.entries
         /\ Covered(Parsed(l).entries) = Covered(l.entries)
<1>1. /\ Parsed(l) \in Line /\ Parsed(l).rc = l.rc
      /\ Parsed(l).entries = {e \in l.entries : e.last # 0}
  BY DEF Parsed, Line
<1>2. \A e \in l.entries : e.first >= 1 /\ e.first \in Int /\ e.last \in Int
  BY NewsrcAssumption DEF Line, Entry
<1>3. \A e \in l.entries : e.last = 0 => e.first..e.last = {} BY <1>2
<1>. QED BY <1>1, <1>3 DEF Covered

(* There are finitely many ranges. *)
LEMMA EntryFinite ==
  ASSUME NEW E \in SUBSET Entry
  PROVE  IsFiniteSet(E)
<1> DEFINE P == (1..MaxArticle + 1) \X (0..MaxArticle)
           f == [e \in E |-> <<e.first, e.last>>]
<1>1. MaxArticle \in Nat BY NewsrcAssumption
<1>2. IsFiniteSet(1..MaxArticle + 1) /\ IsFiniteSet(0..MaxArticle) BY <1>1, FS_Interval
<1>3. IsFiniteSet(P) BY <1>2, FS_Product
<1>4. \A d, e \in E : d.first = e.first /\ d.last = e.last => d = e BY DEF Entry
<1>5. f \in [E -> P] BY DEF Entry
<1>6. \A d, e \in E : f[d] = f[e] => d = e BY <1>4
<1>7. f \in Injection(E, P) BY <1>5, <1>6 DEF Injection, IsInjective
<1>. QED BY <1>3, <1>7, FS_Injection

(* The greater and the lesser of two numbers *)
LEMMA MaxMin ==
  ASSUME NEW x \in Int, NEW y \in Int
  PROVE  /\ Max({x, y}) = IF x >= y THEN x ELSE y
         /\ Min({x, y}) = IF x <= y THEN x ELSE y
<1>1. Max({x, y}) \in {x, y} /\ Max({x, y}) >= x /\ Max({x, y}) >= y
  <2>1. \E m \in {x, y} : \A n \in {x, y} : m >= n OBVIOUS
  <2>. QED BY <2>1 DEF Max
<1>2. Min({x, y}) \in {x, y} /\ Min({x, y}) <= x /\ Min({x, y}) <= y
  <2>1. \E m \in {x, y} : \A n \in {x, y} : m =< n OBVIOUS
  <2>. QED BY <2>1 DEF Min
<1>. QED BY <1>1, <1>2

(* The part of a range that mutt_newsgroup_stat() counts *)
Overlap(e, g) ==
  LET first == Max({e.first, g.first})
      last == Min({e.last, g.last})
  IN  IF first <= last THEN last - first + 1 ELSE 0

(* It is the size of what the range and the group have in common. *)
LEMMA OverlapCounts ==
  ASSUME NEW e \in Entry, NEW g \in NewsGroup
  PROVE  /\ Overlap(e, g) \in Nat
         /\ IsFiniteSet((e.first..e.last) \cap (g.first..g.last))
         /\ Overlap(e, g) = Cardinality((e.first..e.last) \cap (g.first..g.last))
<1>1. e.first \in Int /\ e.last \in Int /\ g.first \in Int /\ g.last \in Int
  BY NewsrcAssumption DEF Entry, NewsGroup
<1> DEFINE a == Max({e.first, g.first})
           b == Min({e.last, g.last})
<1>2. /\ a = (IF e.first >= g.first THEN e.first ELSE g.first)
      /\ b = (IF e.last <= g.last THEN e.last ELSE g.last)
  BY <1>1, MaxMin
<1>3. Overlap(e, g) = IF a <= b THEN b - a + 1 ELSE 0 BY DEF Overlap
<1> HIDE DEF a, b
<1>4. a \in Int /\ b \in Int BY <1>1, <1>2
<1>5. (e.first..e.last) \cap (g.first..g.last) = a..b BY <1>1, <1>2
<1>6. IsFiniteSet(a..b) /\ Cardinality(a..b) = IF a > b THEN 0 ELSE b - a + 1 BY <1>4, FS_Interval
<1>7. Overlap(e, g) = Cardinality(a..b) /\ Overlap(e, g) \in Nat BY <1>3, <1>4, <1>6
<1>. QED BY <1>5, <1>6, <1>7

Uncovered(g) == Cardinality((g.first..g.last) \ Covered(g.line.entries))

(* mutt_newsgroup_stat() makes a number, and if ranges are disjoint that of  *)
(* the articles that none of them covers.                                    *)
LEMMA StatCounts ==
  ASSUME NEW g \in NewsGroup
  PROVE  /\ Stat(g) \in Int
         /\ Disjoint(g.line.entries) => Stat(g) = Uncovered(g)
<1> DEFINE E == g.line.entries
           w == [e \in E |-> Overlap(e, g)]
           I == g.first..g.last
           c == [e \in E |-> (e.first..e.last) \cap I]
<1>1. E \in SUBSET Entry /\ g.first \in Int /\ g.last \in Int /\ g.first >= 1
  BY NewsrcAssumption DEF NewsGroup, Line
<1>2. IsFiniteSet(E) BY <1>1, EntryFinite
<1>3. w \in [E -> Nat] BY <1>1, OverlapCounts
<1>4. SumFunction(w) \in Nat BY <1>2, <1>3, SumNat
<1>5. Stat(g) = IF g.last = 0 \/ g.first > g.last THEN 0
                ELSE g.last - g.first + 1 - SumFunction(w)
  BY DEF Stat, Overlap
<1>6. Stat(g) \in Int BY <1>1, <1>4, <1>5
<1>7. ASSUME Disjoint(E) PROVE Stat(g) = Uncovered(g)
  <2>1. \A e \in E : IsFiniteSet(c[e]) /\ w[e] = Cardinality(c[e]) BY <1>1, OverlapCounts
  <2>2. \A d, e \in E : d # e => c[d] \cap c[e] = {}
    <3>1. \A e \in E : e.first \in Int /\ e.last \in Int BY <1>1, NewsrcAssumption DEF Entry
    <3>. QED BY <1>7, <3>1 DEF Disjoint
  <2> DEFINE U == UNION {c[e] : e \in E}
  <2>3. U = Covered(E) \cap I
    <3>1. \A e \in E : c[e] = (e.first..e.last) \cap I OBVIOUS
    <3> HIDE DEF c, I, E
    <3>. QED BY <3>1 DEF Covered
  <2> HIDE DEF w, c, E, I
  <2>4. SumFunction(w) = Cardinality(U) BY <1>2, <1>3, <2>1, <2>2, SumCounts
  <2> USE DEF E, I
  <2>5. IsFiniteSet(I) /\ Cardinality(I) = IF g.first > g.last THEN 0 ELSE g.last - g.first + 1
    BY <1>1, FS_Interval
  <2> HIDE DEF U
  <2>6. Cardinality(I \ Covered(E)) = Cardinality(I) - Cardinality(I \cap Covered(E))
    BY <2>5, FS_Difference
  <2>7. I \cap Covered(E) = U BY <2>3
  <2>8. Uncovered(g) = Cardinality(I) - SumFunction(w) BY <2>4, <2>6, <2>7 DEF Uncovered
  <2>9. CASE g.last = 0 \/ g.first > g.last
    <3>1. g.first > g.last BY <1>1, <2>9
    <3>2. I = {} BY <1>1, <3>1
    <3>3. Uncovered(g) = 0 BY <3>2, FS_EmptySet DEF Uncovered
    <3>. QED BY <1>5, <2>9, <3>3
  <2>10. CASE ~(g.last = 0 \/ g.first > g.last)
    <3>1. Cardinality(I) = g.last - g.first + 1 BY <1>1, <2>5, <2>10
    <3>2. Stat(g) = g.last - g.first + 1 - SumFunction(w) BY <1>5, <2>10
    <3>. QED BY <1>1, <1>4, <2>8, <3>1, <3>2
  <2>. QED BY <2>9, <2>10
<1>. QED BY <1>6, <1>7

(* A number has finitely many digits. *)
LEMMA DigitsType == ASSUME NEW n \in Int PROVE Digits(n) \in Nat
<1> DEFINE D == {d \in 0..n : 10^d <= n}
<1>1. IsFiniteSet(0..n) BY FS_Interval
<1>2. IsFiniteSet(D) BY <1>1, FS_Subset
<1>3. Cardinality(D) \in Nat BY <1>2, FS_CardinalityType
<1>. QED BY <1>3 DEF Digits

(* The length of a line is a number. *)
LEMMA SizeType ==
  ASSUME NEW l \in Line
  PROVE  Size(l) \in Int
<1> DEFINE v(e) == IF e.first = e.last THEN Digits(e.first) + 1 ELSE Digits(e.first) + Digits(e.last) + 2
           w == [e \in l.entries |-> v(e)]
<1>0. ASSUME NEW e \in l.entries PROVE v(e) \in Nat
  <2>1. e.first \in Int /\ e.last \in Int BY NewsrcAssumption DEF Line, Entry
  <2>. QED BY <2>1, DigitsType
<1>1. w \in [l.entries -> Nat] BY <1>0
<1>2. l.entries \in SUBSET Entry BY DEF Line
<1>3. IsFiniteSet(l.entries) BY <1>2, EntryFinite
<1>4. Size(l) = IF ~l.rc THEN 0 ELSE 1 + SumFunction(w) BY DEF Size
<1> HIDE DEF w
<1>5. SumFunction(w) \in Nat BY <1>1, <1>3, SumNat
<1>. QED BY <1>4, <1>5

-----------------------------------------------------------------------------
(* Groups that have been loaded from the file or the server *)
ServerOK ==
  server \in [articles : SUBSET Articles, first : 1..MaxArticle + 1, last : 0..MaxArticle]

(* The fields of what the server says are numbers, and its articles finite. *)
LEMMA ServerFacts ==
  ASSUME ServerOK
  PROVE  /\ server.articles \in SUBSET Articles
         /\ server.first \in 1..MaxArticle + 1 /\ server.first \in Int
         /\ server.last \in 0..MaxArticle /\ server.last \in Nat
         /\ IsFiniteSet(server.articles) /\ Cardinality(server.articles) \in Nat
<1>1. MaxArticle \in Nat BY NewsrcAssumption
<1>2. server.articles \in SUBSET Articles BY DEF ServerOK
<1>3. IsFiniteSet(Articles) BY <1>1, FS_Interval DEF Articles
<1>4. IsFiniteSet(server.articles) BY <1>2, <1>3, FS_Subset
<1>. QED BY <1>1, <1>2, <1>4, FS_CardinalityType DEF ServerOK

(* The line that is read, or none *)
LEMMA ReadLine ==
  ASSUME file.line \in Line, NEW ok \in BOOLEAN
  PROVE  Read(ok) \in Line /\ Read(ok).entries \in SUBSET file.line.entries
<1>1. NoLine \in Line /\ NoLine.entries = {} BY DEF NoLine, Line
<1>. QED BY <1>1, ParsedLine DEF Read

(* Of some ranges, one ends last. *)
LEMMA LastOfAll ==
  ASSUME NEW E \in SUBSET Entry, E # {}
  PROVE  \E e \in E : Max({d.last : d \in E}) = e.last
<1> DEFINE S == {d.last : d \in E}
           T == {MaxArticle - x : x \in S}
<1>0. MaxArticle \in Nat BY NewsrcAssumption
<1>1. \A x \in S : x \in 0..MaxArticle BY DEF Entry
<1>2. T \in SUBSET Nat /\ T # {} BY <1>0, <1>1
<1> HIDE DEF S
<1>3. PICK t \in T : \A u \in T : t <= u
  <2> HIDE DEF T
  <2>. QED BY <1>2, LeastNat
<1>4. PICK x \in S : t = MaxArticle - x OBVIOUS
<1>5. \A y \in S : x >= y
  <2>1. SUFFICES ASSUME NEW y \in S PROVE x >= y OBVIOUS
  <2>2. MaxArticle - y \in T OBVIOUS
  <2>3. MaxArticle - x <= MaxArticle - y BY <1>3, <1>4, <2>2
  <2>4. x \in Int /\ y \in Int BY <1>0, <1>1
  <2>. QED BY <1>0, <2>3, <2>4
<1>6. Max(S) \in S BY <1>5 DEF Max
<1>. QED BY <1>6 DEF S

(* slurp_newsrc() takes the line from the file and counts. *)
LEMMA SlurpedFacts ==
  ASSUME NEW g \in NewsGroup, file.line \in Line, NEW ok \in BOOLEAN
  PROVE  LET s == Slurped(g, ok)
         IN  /\ s \in NewsGroup
             /\ s.first = g.first /\ s.loaded = g.loaded
             /\ s.last = g.last \/ \E e \in file.line.entries : s.last = e.last
             /\ s.line.entries \in SUBSET file.line.entries
             /\ s.line.rc /\ Disjoint(s.line.entries) => s.unread = Uncovered(s)
<1> DEFINE l == Read(ok)
           m == IF g.last = 0 /\ l.entries # {} THEN Max({e.last : e \in l.entries}) ELSE g.last
           h == [g EXCEPT !.line = l, !.last = m]
           s == Slurped(g, ok)
<1>1. l \in Line /\ l.entries \in SUBSET file.line.entries BY ReadLine
<1>2. m \in 0..MaxArticle /\ (m = g.last \/ \E e \in file.line.entries : m = e.last)
  <2>1. CASE g.last = 0 /\ l.entries # {}
    <3>1. l.entries \in SUBSET Entry BY <1>1 DEF Line
    <3> HIDE DEF l
    <3>2. PICK e \in l.entries : Max({d.last : d \in l.entries}) = e.last BY <2>1, <3>1, LastOfAll
    <3>3. m = e.last /\ e \in file.line.entries /\ e \in Entry BY <1>1, <2>1, <3>1, <3>2
    <3>. QED BY <3>3 DEF Entry
  <2>2. CASE ~(g.last = 0 /\ l.entries # {}) BY <2>2 DEF NewsGroup
  <2>. QED BY <2>1, <2>2
<1>3. s = IF l.rc THEN [h EXCEPT !.unread = Stat(h)] ELSE h BY DEF Slurped
<1> HIDE DEF l, m
<1>4. h \in NewsGroup /\ h.line = l /\ h.first = g.first /\ h.last = m /\ h.loaded = g.loaded
  BY <1>1, <1>2 DEF NewsGroup
<1> HIDE DEF h, s
<1>5. Stat(h) \in Int /\ (Disjoint(h.line.entries) => Stat(h) = Uncovered(h)) BY <1>4, StatCounts
<1>6. /\ s \in NewsGroup /\ s.line = l
      /\ s.first = g.first /\ s.last = m /\ s.loaded = g.loaded
      /\ l.rc => s.unread = Stat(h)
  BY <1>3, <1>4, <1>5 DEF NewsGroup
<1>7. Uncovered(s) = Uncovered(h) BY <1>4, <1>6 DEF Uncovered
<1>. QED BY <1>1, <1>2, <1>4, <1>5, <1>6, <1>7 DEF s

(* _nntp_check_mailbox() takes the numbers from the server and counts. *)
LEMMA CheckedFacts ==
  ASSUME NEW g \in NewsGroup, ServerOK, ServerInv
  PROVE  LET s == Checked(g)
         IN  /\ s \in NewsGroup
             /\ s.first = server.first /\ s.last = server.last /\ s.loaded = g.loaded
             /\ s.line.entries = g.line.entries \/ s.line.entries = {[first |-> 1, last |-> 0]}
             /\ s.line.rc = g.line.rc
             /\ g.loaded <= server.last => s.line = g.line
             /\ g.loaded <= server.last /\ g.line.rc /\ Disjoint(s.line.entries) =>
                  s.unread = Uncovered(s)
<1> DEFINE h == [g EXCEPT !.first = server.first, !.last = server.last]
           u == IF server.last = 0 \/ ~h.line.rc THEN Cardinality(server.articles) ELSE Stat(h)
           count == [h EXCEPT !.unread = u]
           none == {[first |-> 1, last |-> 0]}
           s == Checked(g)
<1>0. /\ server.first \in 1..MaxArticle + 1 /\ server.last \in 0..MaxArticle
      /\ Cardinality(server.articles) \in Nat /\ none \in SUBSET Entry
  BY ServerFacts, FineEmpty
<1>1. /\ h \in NewsGroup /\ h.line = g.line /\ h.first = server.first /\ h.last = server.last
      /\ h.loaded = g.loaded
  BY <1>0 DEF NewsGroup
<1>2. s = IF server.last < g.loaded THEN [count EXCEPT !.line.entries = none] ELSE count
  BY DEF Checked
<1> HIDE DEF h, s, none
<1>3. Stat(h) \in Int /\ (Disjoint(h.line.entries) => Stat(h) = Uncovered(h)) BY <1>1, StatCounts
<1>4. u \in Int BY <1>0, <1>3
<1>5. h.line.rc /\ Disjoint(h.line.entries) => u = Uncovered(h)
  <2>1. SUFFICES ASSUME server.last = 0, h.line.rc PROVE u = Uncovered(h) BY <1>3
  <2>2. server.articles = {} /\ h.first..h.last = {}
    BY <1>0, <1>1, <2>1, ServerFacts DEF ServerInv
  <2>3. (h.first..h.last) \ Covered(h.line.entries) = {} BY <2>2
  <2>4. Uncovered(h) = 0 BY <2>3, FS_EmptySet DEF Uncovered
  <2>5. u = 0 BY <2>1, <2>2, FS_EmptySet
  <2>. QED BY <2>4, <2>5
<1> HIDE DEF u
<1>6. /\ count \in NewsGroup /\ count.line = g.line /\ count.first = server.first
      /\ count.last = server.last /\ count.loaded = g.loaded /\ count.unread = u
  BY <1>1, <1>4 DEF NewsGroup
<1> HIDE DEF count
<1>7. g.loaded \in Int /\ server.last \in Int BY <1>0, NewsrcAssumption DEF NewsGroup
<1>8. CASE server.last < g.loaded
  <2>1. s = [count EXCEPT !.line.entries = none] BY <1>2, <1>8
  <2>2. s = [count EXCEPT !.line = [count.line EXCEPT !.entries = none]] BY <2>1
  <2>3. [g.line EXCEPT !.entries = none] \in Line BY <1>0 DEF NewsGroup, Line
  <2>4. /\ s \in NewsGroup /\ s.line = [g.line EXCEPT !.entries = none]
        /\ s.first = server.first /\ s.last = server.last /\ s.loaded = g.loaded
    BY <1>6, <2>2, <2>3 DEF NewsGroup
  <2>5. s.line.entries = none /\ s.line.rc = g.line.rc BY <2>4 DEF NewsGroup, Line
  <2>6. ~(g.loaded <= server.last) BY <1>7, <1>8
  <2>. QED BY <2>4, <2>5, <2>6 DEF s, none
<1>9. CASE ~(server.last < g.loaded)
  <2>1. s = count BY <1>2, <1>9
  <2>2. Uncovered(s) = Uncovered(h) BY <1>1, <1>6, <2>1 DEF Uncovered
  <2>. QED BY <1>1, <1>5, <1>6, <2>1, <2>2 DEF s
<1>. QED BY <1>8, <1>9

(* mutt_select_newsserver(): what a session goes on with *)
LEMMA SelectedFacts ==
  ASSUME NewsrcTypeOK, ServerInv, NEW p \in Sessions, NEW news \in BOOLEAN, NEW ok \in BOOLEAN
  PROVE  LET s == Selected(p, news, ok)
         IN  /\ s \in NewsGroup /\ s.loaded = group[p].loaded
             /\ s.first = group[p].first \/ s.first = server.first
             /\ \/ s.last = group[p].last \/ s.last = server.last
                \/ \E e \in file.line.entries : s.last = e.last
             /\ \/ s.line.entries \in SUBSET file.line.entries
                \/ s.line.entries = group[p].line.entries
                \/ s.line.entries = {[first |-> 1, last |-> 0]}
             /\ group[p].loaded <= server.last /\ s.line.rc /\ Disjoint(s.line.entries) =>
                  s.unread = group[p].unread \/ s.unread = Uncovered(s)
<1> DEFINE g == IF Modified(p) THEN Slurped(group[p], ok) ELSE group[p]
           s == Selected(p, news, ok)
<1>0. group[p] \in NewsGroup /\ file.line \in Line /\ ServerOK BY DEF NewsrcTypeOK, ServerOK
<1>1. /\ g \in NewsGroup /\ g.loaded = group[p].loaded /\ g.first = group[p].first
      /\ g.last = group[p].last \/ \E e \in file.line.entries : g.last = e.last
      /\ g.line.entries \in SUBSET file.line.entries \/ g.line.entries = group[p].line.entries
      /\ g.line.rc /\ Disjoint(g.line.entries) => g.unread = group[p].unread \/ g.unread = Uncovered(g)
  BY <1>0, SlurpedFacts
<1>2. s = IF news /\ g.line.subscribed THEN Checked(g) ELSE g BY DEF Selected
<1> HIDE DEF g, s
<1>3. CASE ~(news /\ g.line.subscribed)
  <2>1. s = g BY <1>2, <1>3
  <2>. QED BY <1>1, <2>1 DEF s
<1>4. CASE news /\ g.line.subscribed
  <2>1. s = Checked(g) BY <1>2, <1>4
  <2> DEFINE c == Checked(g)
  <2>2. /\ c \in NewsGroup
        /\ c.first = server.first /\ c.last = server.last /\ c.loaded = g.loaded
        /\ c.line.entries = g.line.entries \/ c.line.entries = {[first |-> 1, last |-> 0]}
        /\ c.line.rc = g.line.rc
        /\ g.loaded <= server.last /\ g.line.rc /\ Disjoint(c.line.entries) => c.unread = Uncovered(c)
    BY <1>0, <1>1, CheckedFacts
  <2> HIDE DEF c
  <2>3. s = c BY <2>1 DEF c
  <2>. QED BY <1>1, <2>2, <2>3 DEF s
<1>. QED BY <1>3, <1>4

(* A program that starts *)
LEMMA StartedFacts ==
  ASSUME file.line \in Line, ServerOK, NEW ok \in BOOLEAN
  PROVE  LET s == Started(ok)
         IN  /\ s \in NewsGroup /\ s.loaded = 0
             /\ s.first = server.first /\ s.last = server.last
             /\ s.line.entries \in SUBSET file.line.entries
             /\ s.line.rc /\ Disjoint(s.line.entries) => s.unread = Uncovered(s)
<1> DEFINE l == Read(ok)
           m == Max({server.last - server.first + 1, 0})
           g == [line |-> l, first |-> server.first, last |-> server.last, loaded |-> 0, unread |-> 0]
           u == IF g.line.rc THEN Stat(g) ELSE m
           s == Started(ok)
<1>1. l \in Line /\ l.entries \in SUBSET file.line.entries BY ReadLine
<1>2. s = [g EXCEPT !.unread = u] BY DEF Started
<1>3. m \in Int
  <2>1. server.last - server.first + 1 \in Int /\ 0 \in Int BY ServerFacts
  <2> DEFINE x == server.last - server.first + 1
  <2> HIDE DEF x
  <2>. QED BY <2>1, MaxMin DEF x
<1> HIDE DEF l, m, s
<1>4. g \in NewsGroup /\ g.line = l /\ g.first = server.first /\ g.last = server.last /\ g.loaded = 0
  BY <1>1, ServerFacts, NewsrcAssumption DEF NewsGroup
<1> HIDE DEF g
<1>5. Stat(g) \in Int /\ (Disjoint(g.line.entries) => Stat(g) = Uncovered(g)) BY <1>4, StatCounts
<1>6. u \in Int /\ (g.line.rc /\ Disjoint(g.line.entries) => u = Uncovered(g)) BY <1>3, <1>5
<1> HIDE DEF u
<1>7. /\ s \in NewsGroup /\ s.line = g.line /\ s.first = g.first /\ s.last = g.last
      /\ s.loaded = 0 /\ s.unread = u
  BY <1>2, <1>4, <1>6 DEF NewsGroup
<1>8. Uncovered(s) = Uncovered(g) BY <1>7 DEF Uncovered
<1>. QED BY <1>1, <1>4, <1>6, <1>7, <1>8 DEF s

-----------------------------------------------------------------------------
(* Headers *)

(* What maps articles to flags is a context's headers. *)
LEMMA HeadersType ==
  ASSUME NEW hs
  PROVE  /\ hs \in Headers => /\ DOMAIN hs \in SUBSET Articles
                              /\ hs \in [DOMAIN hs -> Header]
         /\ \A A \in SUBSET Articles : hs \in [A -> Header] => hs \in Headers
<1>1. ASSUME hs \in Headers PROVE DOMAIN hs \in SUBSET Articles /\ hs \in [DOMAIN hs -> Header]
  <2>1. PICK A \in SUBSET Articles : hs \in [A -> Header] BY <1>1 DEF Headers
  <2>2. DOMAIN hs = A BY <2>1
  <2>. QED BY <2>1, <2>2
<1>2. \A A \in SUBSET Articles : hs \in [A -> Header] => hs \in Headers BY DEF Headers
<1>. QED BY <1>1, <1>2

(* No headers *)
LEMMA NoHeadersType == NoHeaders \in Headers /\ DOMAIN NoHeaders = {}
<1>1. NoHeaders \in [{} -> Header] /\ DOMAIN NoHeaders = {} BY DEF NoHeaders
<1>. QED BY <1>1, HeadersType

(* Flags are changed for the headers there are. *)
LEMMA AllReadType ==
  ASSUME NEW hs \in Headers, NEW yes \in BOOLEAN
  PROVE  AllRead(hs, yes) \in Headers /\ DOMAIN AllRead(hs, yes) = DOMAIN hs
<1>1. DOMAIN hs \in SUBSET Articles /\ hs \in [DOMAIN hs -> Header] BY HeadersType
<1>2. AllRead(hs, yes) \in [DOMAIN hs -> Header] BY <1>1 DEF AllRead, Header
<1>. QED BY <1>1, <1>2, HeadersType

(* A listing gives headers of the server's articles in its bounds. *)
LEMMA FetchedType ==
  ASSUME ServerOK, NEW g \in NewsGroup, NEW from \in Int, NEW cut \in Int
  PROVE  /\ Fetched(g, from, cut) \in Headers
         /\ DOMAIN Fetched(g, from, cut) = {n \in server.articles : from <= n /\ n <= cut}
<1> DEFINE A == {n \in server.articles : from <= n /\ n <= cut}
<1>1. A \in SUBSET Articles BY ServerFacts
<1>2. Fetched(g, from, cut) \in [A -> Header] BY DEF Fetched, Header
<1>. QED BY <1>1, <1>2, HeadersType

(* More headers *)
LEMMA JoinedType ==
  ASSUME NEW hs \in Headers, NEW more \in Headers
  PROVE  Joined(hs, more) \in Headers /\ DOMAIN Joined(hs, more) = DOMAIN hs \cup DOMAIN more
<1>1. DOMAIN hs \in SUBSET Articles /\ hs \in [DOMAIN hs -> Header] BY HeadersType
<1>2. DOMAIN more \in SUBSET Articles /\ more \in [DOMAIN more -> Header] BY HeadersType
<1>3. Joined(hs, more) \in [DOMAIN hs \cup DOMAIN more -> Header] BY <1>1, <1>2 DEF Joined
<1>. QED BY <1>1, <1>2, <1>3, HeadersType

(* What has been loaded, all or a part, is between before and the end. *)
LEMMA LastLoadedBounds ==
  ASSUME NEW g \in NewsGroup, NEW hs, NEW cut \in Nat, NEW to \in Nat, cut <= to,
         DOMAIN hs \subseteq 1..cut, g.loaded <= cut
  PROVE  /\ LastLoaded(g, hs, cut, to) \in Nat
         /\ g.loaded <= LastLoaded(g, hs, cut, to)
         /\ cut # to => LastLoaded(g, hs, cut, to) <= cut
         /\ LastLoaded(g, hs, cut, to) <= to
         /\ DOMAIN hs \subseteq 1..LastLoaded(g, hs, cut, to)
<1> DEFINE S == DOMAIN hs \cup {g.loaded}
<1>0. g.loaded \in Nat BY NewsrcAssumption DEF NewsGroup
<1>1. S \in SUBSET Nat /\ S # {} /\ \A x \in S : x <= cut BY <1>0
<1> HIDE DEF S
<1>2. \E m \in S : \A x \in S : m >= x
  <2> DEFINE T == {cut - x : x \in S}
  <2>1. T \in SUBSET Nat /\ T # {} BY <1>1
  <2> HIDE DEF T
  <2>2. PICK y \in T : \A z \in T : y <= z BY <2>1, LeastNat
  <2>3. PICK m \in S : y = cut - m BY <2>2 DEF T
  <2>4. ASSUME NEW x \in S PROVE m >= x
    <3>1. cut - x \in T BY DEF T
    <3>2. cut - m <= cut - x BY <2>2, <2>3, <3>1
    <3>. QED BY <1>1, <2>3, <3>2
  <2>. QED BY <2>3, <2>4
<1>3. Max(S) \in S /\ \A x \in S : Max(S) >= x BY <1>2 DEF Max
<1>4. g.loaded \in S /\ \A n \in DOMAIN hs : n \in S BY DEF S
<1>5. Max(S) \in Nat /\ g.loaded <= Max(S) /\ Max(S) <= cut BY <1>0, <1>1, <1>3, <1>4
<1>6. DOMAIN hs \subseteq 1..Max(S)
  <2>1. SUFFICES ASSUME NEW n \in DOMAIN hs PROVE n \in 1..Max(S) OBVIOUS
  <2>2. n \in Nat /\ 1 <= n /\ n <= Max(S) BY <1>1, <1>3, <1>4
  <2>. QED BY <1>5, <2>2
<1>7. LastLoaded(g, hs, cut, to) = IF cut = to THEN to ELSE Max(S) BY DEF LastLoaded, S
<1>8. CASE cut = to BY <1>0, <1>7, <1>8
<1>9. CASE cut # to BY <1>5, <1>6, <1>7, <1>9
<1>. QED BY <1>8, <1>9

-----------------------------------------------------------------------------
(* Steps of a session *)

(* A session changes its group and its headers, and nothing of others. *)
Acts(p, g, hs) ==
  /\ group' = [group EXCEPT ![p] = g] /\ hdrs' = [hdrs EXCEPT ![p] = hs]
  /\ server' = server /\ file' = file /\ renumbered' = renumbered
  /\ \A q \in Sessions \ {p} : /\ q \in open <=> q \in open'
                               /\ q \in closing <=> q \in closing'
                               /\ pc'[q] = pc[q]

(* Then all depends on what the group and the headers have become. *)
LEMMA ActsKeeps ==
  ASSUME NInv, NEW p \in Sessions, NEW g \in NewsGroup, NEW hs \in Headers, Acts(p, g, hs),
         Passed \subseteq Passed',
         Fine(g.line.entries, server, Passed', renumbered),
         DOMAIN hs \subseteq 1..g.loaded, p \notin open' => DOMAIN hs = {},
         ~renumbered => /\ g.first <= server.first /\ g.last <= server.last
                        /\ g.loaded <= server.last
                        /\ p \in open' => 1..g.loaded \subseteq Passed',
         p \in closing' => /\ pc'[p] # "ready"
                           /\ pc'[p] = "rename" => g.line.entries = GenEntries(hs, g),
         open' \subseteq Sessions, closing' \subseteq Sessions
  PROVE  LinesInv' /\ ServerInv' /\ HeadersInv' /\ AheadInv' /\ ClosingInv'
<1>1. group \in [Sessions -> NewsGroup] /\ hdrs \in [Sessions -> Headers] BY DEF NInv, NewsrcTypeOK
<1>2. /\ group'[p] = g /\ hdrs'[p] = hs
      /\ \A q \in Sessions \ {p} : group'[q] = group[q] /\ hdrs'[q] = hdrs[q]
  BY <1>1 DEF Acts
<1>3. server' = server /\ file' = file /\ renumbered' = renumbered BY DEF Acts
<1>4. \A q \in Sessions \ {p} : /\ q \in open <=> q \in open'
                                /\ q \in closing <=> q \in closing'
                                /\ pc'[q] = pc[q]
  BY DEF Acts
<1>5. LinesInv'
  <2>1. \A E : Fine(E, server, Passed, renumbered) => Fine(E, server, Passed', renumbered) BY DEF Fine
  <2>2. \A q \in Sessions \ {p} : Fine(group'[q].line.entries, server, Passed', renumbered)
    BY <1>2, <2>1 DEF NInv, LinesInv
  <2>3. Fine(file.line.entries, server, Passed', renumbered) BY <2>1 DEF NInv, LinesInv
  <2>. QED BY <1>2, <1>3, <2>2, <2>3 DEF LinesInv
<1>6. ServerInv' BY <1>3 DEF NInv, ServerInv
<1>7. HeadersInv' BY <1>2, <1>4 DEF NInv, HeadersInv
<1>8. AheadInv' BY <1>2, <1>3, <1>4 DEF NInv, AheadInv
<1>9. ClosingInv'
  <2>1. SUFFICES ASSUME NEW q \in closing'
                 PROVE  /\ pc'[q] # "ready"
                        /\ pc'[q] = "rename" => group'[q].line.entries = GenEntries(hdrs'[q], group'[q])
    BY DEF ClosingInv
  <2>2. CASE q = p BY <1>2, <2>1, <2>2
  <2>3. CASE q # p
    <3>1. q \in Sessions \ {p} /\ q \in closing BY <1>4, <2>1, <2>3
    <3>. QED BY <1>2, <1>4, <3>1 DEF NInv, ClosingInv
  <2>. QED BY <2>2, <2>3
<1>. QED BY <1>5, <1>6, <1>7, <1>8, <1>9

(* Types of what a session changes *)
LEMMA ActsType ==
  ASSUME NewsrcTypeOK, NEW p \in Sessions, NEW g \in NewsGroup, NEW hs \in Headers,
         NEW x \in {"ready", "rename", "stat"}
  PROVE  /\ [group EXCEPT ![p] = g] \in [Sessions -> NewsGroup]
         /\ [hdrs EXCEPT ![p] = hs] \in [Sessions -> Headers]
         /\ [pc EXCEPT ![p] = x] \in [Sessions -> {"ready", "rename", "stat"}]
         /\ [stamp EXCEPT ![p] = Stamp] \in [Sessions -> [size : Int, time : 0..MaxTime]]
         /\ [known EXCEPT ![p] = file.line] \in [Sessions -> Line]
<1>1. Stamp \in [size : Int, time : 0..MaxTime] BY SizeType DEF NewsrcTypeOK, Stamp
<1>. QED BY <1>1 DEF NewsrcTypeOK

(* What does not change is a change to itself. *)
LEMMA Itself ==
  ASSUME NewsrcTypeOK, NEW p \in Sessions
  PROVE  /\ [group EXCEPT ![p] = group[p]] = group /\ [hdrs EXCEPT ![p] = hdrs[p]] = hdrs
         /\ group[p] \in NewsGroup /\ hdrs[p] \in Headers
         /\ group[p].line \in Line /\ group[p].line.entries \in SUBSET Entry
         /\ group[p].first \in 1..MaxArticle + 1 /\ group[p].last \in 0..MaxArticle
         /\ group[p].loaded \in 0..MaxArticle
         /\ DOMAIN hdrs[p] \in SUBSET Articles
<1>1. group[p] \in NewsGroup /\ hdrs[p] \in Headers BY DEF NewsrcTypeOK
<1>2. DOMAIN hdrs[p] \in SUBSET Articles BY <1>1, HeadersType
<1>. QED BY <1>1, <1>2 DEF NewsrcTypeOK, NewsGroup, Line

(* A session that loads the newsrc, or leaves its idea of it alone, and does *)
(* not write, knows what it did before.                                      *)
LEMMA NoticedKept ==
  ASSUME NewsrcTypeOK, NoticedInv, NEW p \in Sessions, file' = file,
         \A q \in Sessions \ {p} : pc'[q] = pc[q],
         \/ UNCHANGED <<stamp, memory>> /\ (pc[p] = "stat" => pc'[p] = "stat")
         \/ \E ok \in BOOLEAN : Stamped(p, ok)
  PROVE  NoticedInv'
<1>1. Stamp' = Stamp BY DEF Stamp
<1>2. stamp \in [Sessions -> [size : Int, time : 0..MaxTime]] /\ known \in [Sessions -> Line]
  BY DEF NewsrcTypeOK
<1>3. CASE UNCHANGED <<stamp, memory>> /\ (pc[p] = "stat" => pc'[p] = "stat")
  BY <1>1, <1>3 DEF NoticedInv, Modified, memory
<1>4. CASE \E ok \in BOOLEAN : Stamped(p, ok)
  <2>1. PICK ok \in BOOLEAN : Stamped(p, ok) BY <1>4
  <2>2. \A q \in Sessions \ {p} : /\ stamp'[q] = stamp[q] /\ known'[q] = known[q]
                                  /\ q \notin raced' => q \notin raced
                                  /\ q \notin forgotten' => q \notin forgotten
    BY <1>2, <2>1 DEF Stamped
  <2>3. p \notin forgotten' => known'[p] = file.line BY <1>2, <2>1 DEF Stamped
  <2>. QED BY <1>1, <2>2, <2>3 DEF NoticedInv, Modified
<1>. QED BY <1>3, <1>4

(* What a session that reads the newsrc, or tries to, remembers has a type,  *)
LEMMA StampedType ==
  ASSUME NewsrcTypeOK, NEW p \in Sessions,
         UNCHANGED <<stamp, memory>> \/ \E ok \in BOOLEAN : Stamped(p, ok)
  PROVE  /\ stamp' \in [Sessions -> [size : Int, time : 0..MaxTime]] /\ known' \in [Sessions -> Line]
         /\ raced' \subseteq Sessions /\ forgotten' \subseteq Sessions
<1>1. Stamp \in [size : Int, time : 0..MaxTime] BY SizeType DEF NewsrcTypeOK, Stamp
<1>2. CASE UNCHANGED <<stamp, memory>> BY <1>2 DEF NewsrcTypeOK, memory
<1>3. ASSUME NEW ok \in BOOLEAN, Stamped(p, ok)
      PROVE  /\ stamp' \in [Sessions -> [size : Int, time : 0..MaxTime]] /\ known' \in [Sessions -> Line]
             /\ raced' \subseteq Sessions /\ forgotten' \subseteq Sessions
  <2>1. stamp' \in [Sessions -> [size : Int, time : 0..MaxTime]] BY <1>1, <1>3 DEF NewsrcTypeOK, Stamped
  <2>2. known[p] \in Line /\ file.line \in Line BY DEF NewsrcTypeOK
  <2>3. known' \in [Sessions -> Line] BY <1>3, <2>2 DEF NewsrcTypeOK, Stamped
  <2>. QED BY <1>3, <2>1, <2>3 DEF NewsrcTypeOK, Stamped
<1>. QED BY <1>2, <1>3

(* and what was passed stays so. *)
LEMMA PassedSame == shown' = shown => seen' = seen /\ skipped' = skipped /\ Passed' = Passed
  BY DEF shown, Passed

-----------------------------------------------------------------------------
(* The actions *)

(* Sessions keep what they have while the server or the clock goes on. *)
LEMMA ServerSteps ==
  ASSUME NInv, UNCHANGED <<file, session>>,
         events' \in 0..MaxEvents, renumbered' \in BOOLEAN,
         seen' \subseteq Articles, skipped' \subseteq Articles,
         now' \in 0..MaxTime, ServerOK', ServerInv',
         renumbered => renumbered',
         ~renumbered' => /\ Passed' = Passed
                         /\ server.first <= server'.first /\ server.last <= server'.last
                         /\ \A n \in server'.articles : n \in server.articles \/ n > server.last
  PROVE  NInv'
<1>1. NewsrcTypeOK' BY DEF NInv, NewsrcTypeOK, ServerOK, session, mailbox, memory
<1>2. ServerOK BY DEF NInv, NewsrcTypeOK, ServerOK
<1>3. /\ server.first \in Int /\ server.last \in Int /\ server'.first \in Int /\ server'.last \in Int
  <2>1. server'.first \in 1..MaxArticle + 1 /\ server'.last \in 0..MaxArticle BY DEF ServerOK
  <2>. QED BY <1>2, <2>1, ServerFacts, NewsrcAssumption
<1>4. ASSUME NEW E \in SUBSET Entry, Fine(E, server, Passed, renumbered)
      PROVE  Fine(E, server', Passed', renumbered')
  <2>1. Disjoint(E) BY <1>4 DEF Fine
  <2>2. SUFFICES ASSUME ~renumbered'
                 PROVE  /\ \A e \in E : e.last <= server'.last
                        /\ server'.articles \cap Covered(E) \subseteq Passed'
    BY <2>1 DEF Fine
  <2>3. /\ \A e \in E : e.last <= server.last
        /\ server.articles \cap Covered(E) \subseteq Passed
    BY <1>4, <2>2 DEF Fine
  <2>4. \A e \in E : e.last \in Int BY NewsrcAssumption DEF Entry
  <2>5. \A e \in E : e.last <= server'.last BY <1>3, <2>2, <2>3, <2>4
  <2>6. ASSUME NEW n \in server'.articles, n \in Covered(E) PROVE n \in Passed'
    <3>1. PICK e \in E : n <= e.last /\ n \in Int BY <2>6, CoveredUpTo
    <3>2. n <= server.last BY <1>3, <2>3, <2>4, <3>1
    <3>3. n \in server.articles BY <1>3, <2>2, <3>1, <3>2
    <3>. QED BY <2>2, <2>3, <2>6, <3>3
  <2>. QED BY <2>5, <2>6
<1>5. LinesInv'
  <2>1. file.line.entries \in SUBSET Entry BY DEF NInv, NewsrcTypeOK, Line
  <2>2. \A p \in Sessions : group[p].line.entries \in SUBSET Entry BY Itself DEF NInv
  <2>. QED BY <1>4, <2>1, <2>2 DEF NInv, LinesInv, session
<1>6. AheadInv'
  <2>1. SUFFICES ASSUME ~renumbered'
                 PROVE /\ \A p \in Sessions : /\ group'[p].first <= server'.first
                                              /\ group'[p].last <= server'.last
                                              /\ group'[p].loaded <= server'.last
                       /\ \A p \in open' : 1..group'[p].loaded \subseteq Passed'
    BY DEF AheadInv
  <2>2. \A p \in Sessions : group[p].first \in Int /\ group[p].last \in Int /\ group[p].loaded \in Int
    BY Itself, NewsrcAssumption DEF NInv
  <2>. QED BY <1>3, <2>1, <2>2 DEF NInv, AheadInv, session, mailbox
<1>7. HeadersInv' /\ ClosingInv' BY DEF NInv, HeadersInv, ClosingInv, session, mailbox
<1>8. NoticedInv' BY DEF NInv, NoticedInv, Modified, Stamp, session, memory
<1>. QED BY <1>1, <1>5, <1>6, <1>7, <1>8 DEF NInv

(* Events are counted up to their bound. *)
LEMMA EventType == ASSUME NewsrcTypeOK, Event PROVE events' \in 0..MaxEvents
  BY NewsrcAssumption DEF NewsrcTypeOK, Event

(* The server: articles arrive, *)
LEMMA PostKeeps == ASSUME NInv, Post PROVE NInv'
<1>1. ServerOK BY DEF NInv, NewsrcTypeOK, ServerOK
<1>2. /\ server.articles \in SUBSET Articles /\ server.first \in 1..MaxArticle + 1
      /\ server.last \in 0..MaxArticle /\ server.first \in Int /\ server.last \in Nat
      /\ MaxArticle \in Nat
  BY <1>1, ServerFacts, NewsrcAssumption
<1>3. /\ server.last < MaxArticle /\ UNCHANGED <<file, now, session, shown, renumbered>>
      /\ server' = [server EXCEPT !.last = server.last + 1,
                                  !.articles = server.articles \cup {server.last + 1}]
  BY DEF Post
<1>4. server'.first = server.first /\ server'.last = server.last + 1
      /\ server'.articles = server.articles \cup {server.last + 1}
  BY <1>1, <1>3 DEF ServerOK
<1>5. server' = [articles |-> server.articles \cup {server.last + 1},
                 first |-> server.first, last |-> server.last + 1]
  BY <1>1, <1>3 DEF ServerOK
<1>6. server.articles \cup {server.last + 1} \in SUBSET Articles BY <1>2, <1>3 DEF Articles
<1>7. ServerOK' BY <1>2, <1>3, <1>5, <1>6 DEF ServerOK
<1>8. ServerInv'
  <2>1. server.articles \subseteq server.first..server.last /\ server.first <= server.last + 1
    BY DEF NInv, ServerInv
  <2>. QED BY <1>2, <1>4, <2>1 DEF ServerInv
<1>9. events' \in 0..MaxEvents BY EventType DEF NInv, Post
<1>. QED BY <1>2, <1>3, <1>4, <1>7, <1>8, <1>9, ServerSteps, PassedSame DEF NInv, NewsrcTypeOK

(* are cancelled, *)
LEMMA CancelKeeps == ASSUME NInv, NEW n \in Articles, Cancel(n) PROVE NInv'
<1>1. ServerOK BY DEF NInv, NewsrcTypeOK, ServerOK
<1>2. /\ server.articles \in SUBSET Articles /\ server.first \in 1..MaxArticle + 1
      /\ server.last \in 0..MaxArticle /\ server.first \in Int /\ server.last \in Int
  BY <1>1, ServerFacts
<1>3. UNCHANGED <<file, now, session, shown, renumbered>>
      /\ server' = [server EXCEPT !.articles = server.articles \ {n}]
  BY DEF Cancel
<1>4. server'.first = server.first /\ server'.last = server.last
      /\ server'.articles = server.articles \ {n}
  BY <1>1, <1>3 DEF ServerOK
<1>5. ServerOK' BY <1>1, <1>2, <1>3 DEF ServerOK
<1>6. ServerInv' BY <1>4 DEF NInv, ServerInv
<1>7. events' \in 0..MaxEvents BY EventType DEF NInv, Cancel
<1>. QED BY <1>2, <1>3, <1>4, <1>5, <1>6, <1>7, ServerSteps, PassedSame DEF NInv, NewsrcTypeOK

(* expire, *)
LEMMA ExpireKeeps == ASSUME NInv, Expire PROVE NInv'
<1>1. ServerOK BY DEF NInv, NewsrcTypeOK, ServerOK
<1>2. /\ server.articles \in SUBSET Articles /\ server.first \in 1..MaxArticle + 1
      /\ server.last \in 0..MaxArticle /\ server.first \in Int /\ server.last \in Int
      /\ MaxArticle \in Nat
  BY <1>1, ServerFacts, NewsrcAssumption
<1>3. /\ server.first <= server.last /\ UNCHANGED <<file, now, session, shown, renumbered>>
      /\ server' = [server EXCEPT !.articles = server.articles \ {server.first},
                                  !.first = server.first + 1]
  BY DEF Expire
<1>4. server'.first = server.first + 1 /\ server'.last = server.last
      /\ server'.articles = server.articles \ {server.first}
  BY <1>1, <1>3 DEF ServerOK
<1>5. server' = [articles |-> server.articles \ {server.first},
                 first |-> server.first + 1, last |-> server.last]
  BY <1>1, <1>3 DEF ServerOK
<1>6. server.first + 1 \in 1..MaxArticle + 1 BY <1>2, <1>3
<1>7. ServerOK' BY <1>2, <1>5, <1>6 DEF ServerOK
<1>8. ServerInv'
  <2>1. server.articles \subseteq server.first..server.last /\ server.first <= server.last + 1
    BY DEF NInv, ServerInv
  <2>. QED BY <1>2, <1>3, <1>4, <2>1 DEF ServerInv
<1>9. events' \in 0..MaxEvents BY EventType DEF NInv, Expire
<1>. QED BY <1>2, <1>3, <1>4, <1>7, <1>8, <1>9, ServerSteps, PassedSame DEF NInv, NewsrcTypeOK

(* or are numbered anew; *)
LEMMA RenumberKeeps == ASSUME NInv, NEW k \in Articles, Renumber(k) PROVE NInv'
<1>1. ServerOK BY DEF NInv, NewsrcTypeOK, ServerOK
<1>2. server.last \in 0..MaxArticle /\ MaxArticle \in Nat BY <1>1, ServerFacts, NewsrcAssumption
<1>3. /\ k < server.last /\ UNCHANGED <<file, now, session>>
      /\ seen' = {} /\ skipped' = {} /\ renumbered' = TRUE
      /\ server' = [articles |-> 1..k, first |-> 1, last |-> k]
  BY DEF Renumber
<1>4. k \in 0..MaxArticle /\ 1..k \in SUBSET Articles /\ 1 \in 1..MaxArticle + 1
  BY <1>2 DEF Articles
<1>5. ServerOK' BY <1>3, <1>4 DEF ServerOK
<1>6. ServerInv' BY <1>3, <1>4 DEF ServerInv
<1>7. events' \in 0..MaxEvents BY EventType DEF NInv, Renumber
<1>8. now' \in 0..MaxTime /\ seen' \subseteq Articles /\ skipped' \subseteq Articles
      /\ renumbered' \in BOOLEAN
  BY <1>3 DEF NInv, NewsrcTypeOK
<1>. QED BY <1>3, <1>5, <1>6, <1>7, <1>8, ServerSteps

(* and time goes by. *)
LEMMA TickKeeps == ASSUME NInv, Tick PROVE NInv'
<1>1. ServerOK BY DEF NInv, NewsrcTypeOK, ServerOK
<1>2. server.first \in Int /\ server.last \in Int BY <1>1, ServerFacts
<1>3. UNCHANGED <<server, file, session, events, shown, renumbered>> /\ now' \in 0..MaxTime
  BY NewsrcAssumption DEF NInv, NewsrcTypeOK, Tick
<1>4. ServerOK' /\ ServerInv' BY <1>1, <1>3 DEF NInv, ServerOK, ServerInv
<1>. QED BY <1>2, <1>3, <1>4, ServerSteps, PassedSame DEF NInv, NewsrcTypeOK

(* A session ends anywhere, and another begins. *)
LEMMA RestartKeeps ==
  ASSUME NInv, NEW p \in Sessions, NEW ok \in BOOLEAN, Restart(p, ok)
  PROVE  NInv'
<1> DEFINE s == Started(ok)
<1>0. NewsrcTypeOK /\ ServerOK /\ file.line \in Line BY DEF NInv, NewsrcTypeOK, ServerOK
<1>1. /\ group' = [group EXCEPT ![p] = s] /\ hdrs' = [hdrs EXCEPT ![p] = NoHeaders]
      /\ Stamped(p, ok) /\ open' = open \ {p} /\ closing' = closing \ {p}
      /\ pc' = [pc EXCEPT ![p] = "ready"]
      /\ UNCHANGED <<server, file, now, shown, renumbered>>
  BY DEF Restart
<1>2. /\ s \in NewsGroup /\ s.loaded = 0
      /\ s.first = server.first /\ s.last = server.last
      /\ s.line.entries \in SUBSET file.line.entries
  BY <1>0, StartedFacts
<1> HIDE DEF s
<1>3. events' \in 0..MaxEvents BY <1>0, EventType DEF Restart
<1>4. pc \in [Sessions -> {"ready", "rename", "stat"}] /\ open \subseteq Sessions /\ closing \subseteq open
  BY <1>0 DEF NewsrcTypeOK
<1>p. seen' = seen /\ skipped' = skipped /\ Passed' = Passed BY <1>1, PassedSame
<1>5. NewsrcTypeOK'
  <2>1. /\ group' \in [Sessions -> NewsGroup] /\ hdrs' \in [Sessions -> Headers]
        /\ pc' \in [Sessions -> {"ready", "rename", "stat"}]
    BY <1>0, <1>1, <1>2, NoHeadersType, ActsType
  <2>2. /\ stamp' \in [Sessions -> [size : Int, time : 0..MaxTime]] /\ known' \in [Sessions -> Line]
        /\ raced' \subseteq Sessions /\ forgotten' \subseteq Sessions
    BY <1>0, <1>1, StampedType
  <2>. QED BY <1>0, <1>1, <1>3, <1>4, <1>p, <2>1, <2>2 DEF NewsrcTypeOK
<1>6. Acts(p, s, NoHeaders) BY <1>1, <1>4 DEF Acts
<1>7. Fine(s.line.entries, server, Passed', renumbered)
  BY <1>p, <1>2, FineSubset DEF NInv, LinesInv
<1>8. DOMAIN NoHeaders \subseteq 1..s.loaded /\ DOMAIN NoHeaders = {} BY NoHeadersType
<1>9. ~renumbered => /\ s.first <= server.first /\ s.last <= server.last
                     /\ s.loaded <= server.last /\ p \notin open'
  BY <1>0, <1>1, <1>2, ServerFacts
<1>10. p \notin closing' /\ open' \subseteq Sessions /\ closing' \subseteq Sessions BY <1>1, <1>4
<1>11. LinesInv' /\ ServerInv' /\ HeadersInv' /\ AheadInv' /\ ClosingInv'
  BY <1>1, <1>2, <1>p, <1>6, <1>7, <1>8, <1>9, <1>10, NoHeadersType, ActsKeeps
<1>12. NoticedInv' BY <1>0, <1>1, <1>4, NoticedKept DEF NInv
<1>. QED BY <1>5, <1>11, <1>12 DEF NInv

(* A session that is not writing is not closing its group either. *)
LEMMA ReadyNotClosing == ASSUME NInv, NEW p \in Sessions, pc[p] = "ready" PROVE p \notin closing
  BY DEF NInv, ClosingInv

(* Flags are changed, or headers dropped. *)
LEMMA FlagsKeep ==
  ASSUME NInv, NEW p \in Sessions, NEW hs \in Headers, DOMAIN hs \subseteq DOMAIN hdrs[p],
         pc[p] = "ready", hdrs' = [hdrs EXCEPT ![p] = hs],
         UNCHANGED <<server, file, now, group, stamp, open, closing, pc, shown, memory, renumbered>>,
         events' \in 0..MaxEvents
  PROVE  NInv'
<1>0. NewsrcTypeOK /\ p \notin closing BY ReadyNotClosing DEF NInv
<1>p. seen' = seen /\ skipped' = skipped /\ Passed' = Passed BY PassedSame
<1>1. NewsrcTypeOK' BY <1>0, <1>p, ActsType DEF NewsrcTypeOK, memory
<1>2. Acts(p, group[p], hs) BY <1>0, Itself DEF Acts
<1>3. Fine(group[p].line.entries, server, Passed', renumbered) BY <1>p DEF NInv, LinesInv
<1>4. DOMAIN hs \subseteq 1..group[p].loaded /\ (p \notin open' => DOMAIN hs = {})
  BY DEF NInv, HeadersInv
<1>5. ~renumbered => /\ group[p].first <= server.first /\ group[p].last <= server.last
                     /\ group[p].loaded <= server.last
                     /\ p \in open' => 1..group[p].loaded \subseteq Passed'
  BY <1>p DEF NInv, AheadInv
<1>6. open' \subseteq Sessions /\ closing' \subseteq Sessions /\ p \notin closing' BY <1>0 DEF NewsrcTypeOK
<1>7. LinesInv' /\ ServerInv' /\ HeadersInv' /\ AheadInv' /\ ClosingInv'
  BY <1>0, <1>p, <1>2, <1>3, <1>4, <1>5, <1>6, Itself, ActsKeeps
<1>8. NoticedInv' BY <1>0, NoticedKept DEF NInv
<1>. QED BY <1>1, <1>7, <1>8 DEF NInv

(* The user reads an article, or marks it as unread, *)
LEMMA ToggleReadKeeps == ASSUME NInv, NEW p \in Sessions, NEW n \in Articles, ToggleRead(p, n) PROVE NInv'
<1>0. NewsrcTypeOK BY DEF NInv
<1> DEFINE hs == [hdrs[p] EXCEPT ![n].read = ~@]
<1>1. hdrs[p] \in Headers /\ DOMAIN hdrs[p] \in SUBSET Articles /\ hdrs[p] \in [DOMAIN hdrs[p] -> Header]
  BY <1>0, Itself, HeadersType
<1>2. hs \in [DOMAIN hdrs[p] -> Header] BY <1>1 DEF Header
<1>3. hs \in Headers /\ DOMAIN hs = DOMAIN hdrs[p] BY <1>1, <1>2, HeadersType
<1>4. hdrs' = [hdrs EXCEPT ![p] = hs] BY DEF ToggleRead
<1>5. events' \in 0..MaxEvents BY <1>0, EventType DEF ToggleRead
<1> HIDE DEF hs
<1>. QED BY <1>3, <1>4, <1>5, FlagsKeep DEF ToggleRead

(* deletes or undeletes one, *)
LEMMA DeleteKeeps == ASSUME NInv, NEW p \in Sessions, NEW n \in Articles, Delete(p, n) PROVE NInv'
<1>0. NewsrcTypeOK BY DEF NInv
<1> DEFINE hs == [hdrs[p] EXCEPT ![n].deleted = ~@]
<1>1. hdrs[p] \in Headers /\ DOMAIN hdrs[p] \in SUBSET Articles /\ hdrs[p] \in [DOMAIN hdrs[p] -> Header]
  BY <1>0, Itself, HeadersType
<1>2. hs \in [DOMAIN hdrs[p] -> Header] BY <1>1 DEF Header
<1>3. hs \in Headers /\ DOMAIN hs = DOMAIN hdrs[p] BY <1>1, <1>2, HeadersType
<1>4. hdrs' = [hdrs EXCEPT ![p] = hs] BY DEF Delete
<1>5. events' \in 0..MaxEvents BY <1>0, EventType DEF Delete
<1> HIDE DEF hs
<1>. QED BY <1>3, <1>4, <1>5, FlagsKeep DEF Delete

(* or syncs. *)
LEMMA SyncKeeps == ASSUME NInv, NEW p \in Sessions, NEW b \in BOOLEAN, Sync(p, b) PROVE NInv'
<1>0. NewsrcTypeOK BY DEF NInv
<1> DEFINE kept == Restrict(hdrs[p], {n \in DOMAIN hdrs[p] : ~hdrs[p][n].deleted})
           back == [n \in DOMAIN hdrs[p] |-> [hdrs[p][n] EXCEPT !.deleted = FALSE]]
           hs == IF b THEN kept ELSE back
<1>1. hdrs[p] \in Headers /\ DOMAIN hdrs[p] \in SUBSET Articles /\ hdrs[p] \in [DOMAIN hdrs[p] -> Header]
  BY <1>0, Itself, HeadersType
<1>2. kept \in [{n \in DOMAIN hdrs[p] : ~hdrs[p][n].deleted} -> Header] BY <1>1 DEF Restrict
<1>3. kept \in Headers /\ DOMAIN kept \subseteq DOMAIN hdrs[p]
  <2> DEFINE A == {n \in DOMAIN hdrs[p] : ~hdrs[p][n].deleted}
  <2>1. A \in SUBSET Articles /\ A \subseteq DOMAIN hdrs[p] /\ kept \in [A -> Header] BY <1>1, <1>2
  <2> HIDE DEF A, kept
  <2>. QED BY <2>1, HeadersType
<1>4. back \in [DOMAIN hdrs[p] -> Header] BY <1>1 DEF Header
<1>5. back \in Headers /\ DOMAIN back \subseteq DOMAIN hdrs[p] BY <1>1, <1>4, HeadersType
<1>6. hdrs' = [hdrs EXCEPT ![p] = hs] BY DEF Sync
<1> HIDE DEF kept, back
<1>7. hs \in Headers /\ DOMAIN hs \subseteq DOMAIN hdrs[p] BY <1>3, <1>5
<1>8. events' \in 0..MaxEvents BY <1>0 DEF Sync, NewsrcTypeOK
<1> HIDE DEF hs
<1>. QED BY <1>6, <1>7, <1>8, FlagsKeep DEF Sync

(* What a session does with its group, without writing or opening it: other  *)
(* things stay as they are.                                                  *)
LEMMA GroupKeeps ==
  ASSUME NInv, NEW p \in Sessions, NEW g \in NewsGroup, NEW hs \in Headers,
         pc[p] = "ready", pc' = pc \/ pc' = [pc EXCEPT ![p] = "rename"],
         group' = [group EXCEPT ![p] = g], hdrs' = [hdrs EXCEPT ![p] = hs],
         UNCHANGED <<server, file, now, renumbered>>,
         open' = open \/ open' = open \cup {p}, closing' = closing,
         UNCHANGED <<stamp, memory>> \/ \E ok \in BOOLEAN : Stamped(p, ok),
         events' \in 0..MaxEvents, Passed \subseteq Passed',
         seen' \subseteq Articles, skipped' \subseteq Articles,
         Fine(g.line.entries, server, Passed', renumbered),
         DOMAIN hs \subseteq 1..g.loaded, p \notin open' => DOMAIN hs = {},
         ~renumbered => /\ g.first <= server.first /\ g.last <= server.last
                        /\ g.loaded <= server.last
                        /\ p \in open' => 1..g.loaded \subseteq Passed'
  PROVE  NInv'
<1>0. NewsrcTypeOK /\ p \notin closing BY ReadyNotClosing DEF NInv
<1>1. open' \subseteq Sessions /\ closing' \subseteq open' /\ p \notin closing' BY <1>0 DEF NewsrcTypeOK
<1>2. NewsrcTypeOK'
  <2>1. group' \in [Sessions -> NewsGroup] /\ hdrs' \in [Sessions -> Headers] BY <1>0, ActsType
  <2>2. pc \in [Sessions -> {"ready", "rename", "stat"}] BY <1>0 DEF NewsrcTypeOK
  <2>3. pc' \in [Sessions -> {"ready", "rename", "stat"}] BY <1>0, <2>2, ActsType
  <2>4. /\ stamp' \in [Sessions -> [size : Int, time : 0..MaxTime]] /\ known' \in [Sessions -> Line]
        /\ raced' \subseteq Sessions /\ forgotten' \subseteq Sessions
    BY <1>0, StampedType
  <2>. QED BY <1>0, <1>1, <2>1, <2>3, <2>4 DEF NewsrcTypeOK
<1>3. Acts(p, g, hs) BY <1>0 DEF Acts, NewsrcTypeOK
<1>4. LinesInv' /\ ServerInv' /\ HeadersInv' /\ AheadInv' /\ ClosingInv' BY <1>1, <1>3, ActsKeeps
<1>5. NoticedInv'
  <2>1. \A q \in Sessions \ {p} : pc'[q] = pc[q] BY <1>0 DEF NewsrcTypeOK
  <2>. QED BY <1>0, <2>1, NoticedKept DEF NInv
<1>. QED BY <1>2, <1>4, <1>5 DEF NInv

(* What is known of a group as it was *)
LEMMA GroupFacts ==
  ASSUME NInv, NEW p \in Sessions
  PROVE  /\ Fine(group[p].line.entries, server, Passed, renumbered)
         /\ DOMAIN hdrs[p] \subseteq 1..group[p].loaded
         /\ p \notin open => DOMAIN hdrs[p] = {}
         /\ ~renumbered => /\ group[p].first <= server.first /\ group[p].last <= server.last
                           /\ group[p].loaded <= server.last
                           /\ p \in open => 1..group[p].loaded \subseteq Passed
BY DEF NInv, LinesInv, HeadersInv, AheadInv, NewsrcTypeOK

(* What mutt_select_newsserver() makes of it is in order, too. *)
LEMMA SelectedFine ==
  ASSUME NInv, NEW p \in Sessions, NEW news \in BOOLEAN, NEW ok \in BOOLEAN
  PROVE  LET s == Selected(p, news, ok)
         IN  /\ s \in NewsGroup /\ s.loaded = group[p].loaded
             /\ Fine(s.line.entries, server, Passed, renumbered)
             /\ ~renumbered => s.first <= server.first /\ s.last <= server.last
<1> DEFINE s == Selected(p, news, ok)
<1>0. NewsrcTypeOK /\ ServerInv /\ ServerOK BY DEF NInv, NewsrcTypeOK, ServerOK
<1>1. /\ s \in NewsGroup /\ s.loaded = group[p].loaded
      /\ s.first = group[p].first \/ s.first = server.first
      /\ \/ s.last = group[p].last \/ s.last = server.last
         \/ \E e \in file.line.entries : s.last = e.last
      /\ \/ s.line.entries \in SUBSET file.line.entries
         \/ s.line.entries = group[p].line.entries
         \/ s.line.entries = {[first |-> 1, last |-> 0]}
  BY <1>0, SelectedFacts
<1> HIDE DEF s
<1>2. Fine(file.line.entries, server, Passed, renumbered) BY DEF NInv, LinesInv
<1>3. server.last \in Nat /\ server.first \in Int BY <1>0, ServerFacts
<1>4. Fine(s.line.entries, server, Passed, renumbered)
  <2>1. CASE s.line.entries \in SUBSET file.line.entries BY <1>2, <2>1, FineSubset
  <2>2. CASE s.line.entries = group[p].line.entries
    <3>1. Fine(group[p].line.entries, server, Passed, renumbered) BY GroupFacts
    <3>. QED BY <2>2, <3>1
  <2>3. CASE s.line.entries = {[first |-> 1, last |-> 0]} BY <1>3, <2>3, FineEmpty
  <2>. QED BY <1>1, <2>1, <2>2, <2>3
<1>5. ~renumbered => s.last <= server.last
  <2>1. ~renumbered => \A e \in file.line.entries : e.last <= server.last BY <1>2 DEF Fine
  <2>. QED BY <1>1, <1>3, <2>1, GroupFacts
<1>6. ~renumbered => s.first <= server.first BY <1>1, <1>3, GroupFacts
<1>. QED BY <1>1, <1>4, <1>5, <1>6 DEF s

(* The list of newsgroups *)
LEMMA BrowseKeeps ==
  ASSUME NInv, NEW p \in Sessions, NEW b \in BOOLEAN, NEW ok \in BOOLEAN, Browse(p, b, ok)
  PROVE  NInv'
<1>0. NewsrcTypeOK BY DEF NInv
<1> DEFINE s == Selected(p, b, ok)
<1>1. /\ s \in NewsGroup /\ s.loaded = group[p].loaded
      /\ Fine(s.line.entries, server, Passed, renumbered)
      /\ ~renumbered => s.first <= server.first /\ s.last <= server.last
  BY SelectedFine
<1>2. /\ pc[p] = "ready" /\ group' = [group EXCEPT ![p] = s]
      /\ UNCHANGED <<server, file, now, mailbox, pc, shown, renumbered>> /\ Loaded(p, ok)
  BY DEF Browse
<1>3. events' \in 0..MaxEvents BY <1>0, EventType DEF Browse
<1> HIDE DEF s
<1>4. hdrs' = [hdrs EXCEPT ![p] = hdrs[p]] /\ hdrs[p] \in Headers BY <1>0, <1>2, Itself DEF mailbox
<1>5. open' = open /\ closing' = closing BY <1>2 DEF mailbox
<1>6. UNCHANGED <<stamp, memory>> \/ Stamped(p, ok) BY <1>2 DEF Loaded
<1>7. seen' = seen /\ skipped' = skipped /\ Passed' = Passed BY <1>2, PassedSame
<1>8. seen' \subseteq Articles /\ skipped' \subseteq Articles BY <1>0, <1>7 DEF NewsrcTypeOK
<1>. QED BY <1>1, <1>2, <1>3, <1>4, <1>5, <1>6, <1>7, <1>8, GroupFacts, GroupKeeps

(* A line of one range from the first article on *)
LEMMA OneRange ==
  ASSUME NInv, NEW l \in 0..MaxArticle, NEW sh,
         ~renumbered => l <= server.last /\ server.articles \cap (1..l) \subseteq sh
  PROVE  /\ {[first |-> 1, last |-> l]} \in SUBSET Entry
         /\ Fine({[first |-> 1, last |-> l]}, server, sh, renumbered)
<1>1. Covered({[first |-> 1, last |-> l]}) = 1..l BY DEF Covered
<1>2. {[first |-> 1, last |-> l]} \in SUBSET Entry BY NewsrcAssumption DEF Entry
<1>. QED BY <1>1, <1>2 DEF Fine, Disjoint

Ranged(g, E, u) == [g EXCEPT !.line.entries = E, !.unread = u]

(* A group with other ranges and another count *)
LEMMA RangedFacts ==
  ASSUME NEW g \in NewsGroup, NEW E \in SUBSET Entry, NEW u \in Int
  PROVE  LET h == Ranged(g, E, u)
         IN  /\ h \in NewsGroup /\ h.line.entries = E /\ h.line.rc = g.line.rc
             /\ h.first = g.first /\ h.last = g.last /\ h.loaded = g.loaded
<1> DEFINE h == Ranged(g, E, u)
<1>1. h = [g EXCEPT !.line = [g.line EXCEPT !.entries = E], !.unread = u] BY DEF Ranged
<1>2. /\ [g.line EXCEPT !.entries = E] \in Line
      /\ [g.line EXCEPT !.entries = E].entries = E /\ [g.line EXCEPT !.entries = E].rc = g.line.rc
  BY DEF NewsGroup, Line
<1>. QED BY <1>1, <1>2 DEF NewsGroup

(* Catching up with a group *)
LEMMA CatchupKeeps == ASSUME NInv, NEW p \in Sessions, Catchup(p) PROVE NInv'
<1>0. NewsrcTypeOK BY DEF NInv
<1>1. /\ group[p] \in NewsGroup /\ hdrs[p] \in Headers /\ group[p].last \in 0..MaxArticle
      /\ MaxArticle \in Nat
  BY <1>0, Itself, NewsrcAssumption
<1> DEFINE E == {[first |-> 1, last |-> group[p].last]}
           g == CaughtUp(group[p])
           hs == AllRead(hdrs[p], TRUE)
<1>2. /\ pc[p] = "ready" /\ group' = [group EXCEPT ![p] = g] /\ hdrs' = [hdrs EXCEPT ![p] = hs]
      /\ seen' = seen \cup 1..group[p].last
      /\ UNCHANGED <<server, file, now, stamp, open, closing, pc, skipped, memory, renumbered>>
  BY DEF Catchup
<1>p. skipped' = skipped /\ Passed' = Passed \cup 1..group[p].last BY <1>2 DEF Passed
<1>3. events' \in 0..MaxEvents BY <1>0, EventType DEF Catchup
<1>4. hs \in Headers /\ DOMAIN hs = DOMAIN hdrs[p] BY <1>1, AllReadType
<1>5. E \in SUBSET Entry /\ Fine(E, server, Passed', renumbered)
  BY <1>1, <1>p, GroupFacts, OneRange
<1>6. g = Ranged(group[p], E, 0) BY DEF CaughtUp, Ranged
<1> HIDE DEF g, hs, E
<1>7. /\ g \in NewsGroup /\ g.line.entries = E
      /\ g.first = group[p].first /\ g.last = group[p].last /\ g.loaded = group[p].loaded
  BY <1>1, <1>5, <1>6, RangedFacts
<1>8. seen' \subseteq Articles /\ skipped' \subseteq Articles /\ Passed \subseteq Passed'
  <2>1. 1..group[p].last \subseteq Articles BY <1>1 DEF Articles
  <2>. QED BY <1>0, <1>2, <1>p, <2>1 DEF NewsrcTypeOK
<1>. QED BY <1>2, <1>3, <1>4, <1>5, <1>7, <1>8, GroupFacts, GroupKeeps

(* and the reverse *)
LEMMA UncatchupKeeps == ASSUME NInv, NEW p \in Sessions, Uncatchup(p) PROVE NInv'
<1>0. NewsrcTypeOK /\ ServerOK /\ ServerInv BY DEF NInv, NewsrcTypeOK, ServerOK
<1>1. /\ group[p] \in NewsGroup /\ hdrs[p] \in Headers /\ group[p].last \in 0..MaxArticle
      /\ group[p].first \in 1..MaxArticle + 1 /\ DOMAIN hdrs[p] \in SUBSET Articles /\ MaxArticle \in Nat
  BY <1>0, Itself, NewsrcAssumption
<1> DEFINE l == group[p].first - 1
           E == {[first |-> 1, last |-> l]}
           m == Max({group[p].last - group[p].first + 1, 0})
           u == IF p \in open THEN Cardinality(DOMAIN hdrs[p]) ELSE m
           g == [group[p] EXCEPT !.line.entries = E, !.unread = u]
           hs == AllRead(hdrs[p], FALSE)
<1>2. /\ pc[p] = "ready" /\ group' = [group EXCEPT ![p] = g] /\ hdrs' = [hdrs EXCEPT ![p] = hs]
      /\ UNCHANGED <<server, file, now, stamp, open, closing, pc, shown, memory, renumbered>>
  BY DEF Uncatchup
<1>p. seen' = seen /\ skipped' = skipped /\ Passed' = Passed BY <1>2, PassedSame
<1>3. events' \in 0..MaxEvents BY <1>0, EventType DEF Uncatchup
<1>4. hs \in Headers /\ DOMAIN hs = DOMAIN hdrs[p] BY <1>1, AllReadType
<1>5. u \in Int
  <2>1. IsFiniteSet(Articles) BY <1>1, FS_Interval DEF Articles
  <2>2. Cardinality(DOMAIN hdrs[p]) \in Nat BY <1>1, <2>1, FS_Subset, FS_CardinalityType
  <2> DEFINE x == group[p].last - group[p].first + 1
  <2>3. x \in Int /\ 0 \in Int BY <1>1
  <2> HIDE DEF x
  <2>4. m \in Int BY <2>3, MaxMin DEF x
  <2>. QED BY <2>2, <2>4
<1> HIDE DEF u, hs
<1>6. E \in SUBSET Entry /\ Fine(E, server, Passed', renumbered)
  <2>1. l \in 0..MaxArticle BY <1>1
  <2>2. ~renumbered => l <= server.last /\ server.articles \cap (1..l) \subseteq Passed'
    <3>1. server.first \in Int /\ server.last \in Int BY <1>0, ServerFacts
    <3>2. SUFFICES ASSUME ~renumbered PROVE l < server.first BY <1>1, <3>1, <1>0 DEF ServerInv
    <3>. QED BY <1>1, <3>1, <3>2, GroupFacts
  <2> HIDE DEF l
  <2>. QED BY <2>1, <2>2, OneRange
<1> HIDE DEF E
<1>g. g = Ranged(group[p], E, u) BY DEF Ranged
<1> HIDE DEF g
<1>7. /\ g \in NewsGroup /\ g.line.entries = E
      /\ g.first = group[p].first /\ g.last = group[p].last /\ g.loaded = group[p].loaded
  BY <1>1, <1>5, <1>6, <1>g, RangedFacts
<1>8. seen' \subseteq Articles /\ skipped' \subseteq Articles BY <1>0, <1>p DEF NewsrcTypeOK
<1>. QED BY <1>2, <1>p, <1>3, <1>4, <1>6, <1>7, <1>8, GroupFacts, GroupKeeps

(* Subscribing and unsubscribing *)
LEMMA SubscribeKeeps ==
  ASSUME NInv, NEW p \in Sessions, NEW b \in BOOLEAN, NEW c \in BOOLEAN, Subscribe(p, b, c)
  PROVE  NInv'
<1>0. NewsrcTypeOK BY DEF NInv
<1>1. group[p] \in NewsGroup /\ hdrs[p] \in Headers /\ group[p].line \in Line
      /\ hdrs = [hdrs EXCEPT ![p] = hdrs[p]]
  BY <1>0, Itself
<1> DEFINE old == group[p].line
           new == IF old.subscribed = b THEN old
                  ELSE [old EXCEPT !.subscribed = b, !.rc = b \/ (old.rc /\ c)]
           g == [group[p] EXCEPT !.line = new]
<1>3. new \in Line /\ new.entries = old.entries
  <2>1. (b \/ (old.rc /\ c)) \in BOOLEAN BY <1>1 DEF Line
  <2>. QED BY <1>1, <2>1 DEF Line
<1>4. /\ pc[p] = "ready" /\ pc' = [pc EXCEPT ![p] = "rename"]
      /\ UNCHANGED <<server, file, now, stamp, mailbox, shown, memory, renumbered>>
  BY DEF Subscribe
<1>5. group' = [group EXCEPT ![p] = g] BY DEF Subscribe
<1> HIDE DEF new
<1>6. /\ g \in NewsGroup /\ g.line = new
      /\ g.first = group[p].first /\ g.last = group[p].last /\ g.loaded = group[p].loaded
  BY <1>1, <1>3 DEF NewsGroup
<1> HIDE DEF g
<1>7. events' \in 0..MaxEvents BY <1>0, EventType DEF Subscribe
<1>8. hdrs' = [hdrs EXCEPT ![p] = hdrs[p]] /\ open' = open /\ closing' = closing
  BY <1>1, <1>4 DEF mailbox
<1>p. seen' = seen /\ skipped' = skipped /\ Passed' = Passed BY <1>4, PassedSame
<1>9. seen' \subseteq Articles /\ skipped' \subseteq Articles BY <1>0, <1>p DEF NewsrcTypeOK
<1>. QED BY <1>1, <1>3, <1>4, <1>5, <1>6, <1>7, <1>8, <1>p, <1>9, GroupFacts, GroupKeeps

(* Closing the group makes its ranges. *)
LEMMA CloseKeeps == ASSUME NInv, NEW p \in Sessions, NEW b \in BOOLEAN, Close(p, b) PROVE NInv'
<1>0. NewsrcTypeOK BY DEF NInv
<1> DEFINE hs == IF b THEN AllRead(hdrs[p], TRUE) ELSE hdrs[p]
           E == GenEntries(hs, group[p])
           u == Unread(hs)
           g == Ranged(group[p], E, u)
<1>1. /\ group[p] \in NewsGroup /\ hdrs[p] \in Headers /\ group[p].last \in 0..MaxArticle
      /\ group[p].loaded \in 0..MaxArticle /\ MaxArticle \in Nat
  BY <1>0, Itself, NewsrcAssumption
<1>2. /\ pc[p] = "ready" /\ p \in open
      /\ group' = [group EXCEPT ![p] = g] /\ hdrs' = [hdrs EXCEPT ![p] = hs]
      /\ seen' = (IF b THEN seen \cup 1..group[p].last ELSE seen)
      /\ closing' = closing \cup {p} /\ pc' = [pc EXCEPT ![p] = "rename"]
      /\ UNCHANGED <<server, file, now, stamp, open, events, skipped, memory, renumbered>>
  BY DEF Close, Ranged
<1>3. hs \in Headers /\ DOMAIN hs = DOMAIN hdrs[p] BY <1>1, AllReadType
<1>4. u \in Int
  <2>1. DOMAIN hs \in SUBSET Articles BY <1>0, <1>3, Itself
  <2>2. IsFiniteSet(Articles) BY <1>1, FS_Interval DEF Articles
  <2> HIDE DEF hs
  <2> DEFINE A == {n \in DOMAIN hs : ~hs[n].read}
  <2>3. A \in SUBSET Articles BY <2>1
  <2> HIDE DEF A
  <2>4. Cardinality(A) \in Nat BY <2>2, <2>3, FS_Subset, FS_CardinalityType
  <2>. QED BY <2>4 DEF Unread, A
<1> HIDE DEF hs, u
<1>5. /\ E \in SUBSET Entry /\ Disjoint(E)
      /\ \A e \in E : e.last <= group[p].loaded
  BY <1>1, <1>3, GroupFacts, GenEntriesRight
<1> HIDE DEF E
<1>6. /\ g \in NewsGroup /\ g.line.entries = E
      /\ g.first = group[p].first /\ g.last = group[p].last /\ g.loaded = group[p].loaded
  BY <1>1, <1>4, <1>5, RangedFacts
<1> HIDE DEF g
<1>7. g.line.entries = GenEntries(hs, g) BY <1>6 DEF E, GenEntries
<1>8. seen' \subseteq Articles /\ skipped' = skipped /\ Passed \subseteq Passed'
  <2>1. 1..group[p].last \subseteq Articles BY <1>1 DEF Articles
  <2>. QED BY <1>0, <1>2, <2>1 DEF NewsrcTypeOK, Passed
<1>9. Fine(E, server, Passed', renumbered)
  <2>1. SUFFICES ASSUME ~renumbered
                 PROVE  /\ \A e \in E : e.last <= server.last
                        /\ server.articles \cap Covered(E) \subseteq Passed'
    BY <1>5 DEF Fine
  <2>2. group[p].loaded <= server.last /\ 1..group[p].loaded \subseteq Passed
    BY <1>2, <2>1, GroupFacts
  <2>3. \A e \in E : e.last \in Int BY <1>1, <1>5 DEF Entry
  <2>4. group[p].loaded \in Int /\ server.last \in Int
    BY <1>1, ServerFacts DEF NInv, NewsrcTypeOK, ServerOK
  <2>5. \A e \in E : e.last <= server.last BY <1>5, <2>2, <2>3, <2>4
  <2>6. ASSUME NEW n \in Covered(E) PROVE n \in Passed
    <3>1. PICK e \in E : e.first <= n /\ n <= e.last /\ e.first >= 1 /\ n \in Int
      BY <1>5, <2>6, CoveredUpTo
    <3>2. e.first \in Int BY <1>1, <1>5 DEF Entry
    <3>3. n \in 1..group[p].loaded BY <1>5, <2>3, <2>4, <3>1, <3>2
    <3>. QED BY <2>2, <3>3
  <2>. QED BY <1>8, <2>5, <2>6
<1>10. NewsrcTypeOK'
  <2>1. /\ group' \in [Sessions -> NewsGroup] /\ hdrs' \in [Sessions -> Headers]
        /\ pc' \in [Sessions -> {"ready", "rename", "stat"}]
    BY <1>0, <1>2, <1>3, <1>6, ActsType
  <2>. QED BY <1>0, <1>2, <1>8, <2>1 DEF NewsrcTypeOK, memory
<1>11. Acts(p, g, hs) BY <1>0, <1>2 DEF Acts, NewsrcTypeOK
<1>12. pc'[p] = "rename" /\ open' = open /\ open' \subseteq Sessions /\ closing' \subseteq Sessions
  BY <1>0, <1>2 DEF NewsrcTypeOK
<1>13. LinesInv' /\ ServerInv' /\ HeadersInv' /\ AheadInv' /\ ClosingInv'
  <2>1. DOMAIN hs \subseteq 1..g.loaded /\ (p \notin open' => DOMAIN hs = {})
    BY <1>3, <1>6, <1>12, GroupFacts
  <2>2. ~renumbered => /\ g.first <= server.first /\ g.last <= server.last
                       /\ g.loaded <= server.last
                       /\ p \in open' => 1..g.loaded \subseteq Passed'
    BY <1>6, <1>8, <1>12, GroupFacts
  <2>. QED BY <1>3, <1>6, <1>7, <1>8, <1>9, <1>11, <1>12, <2>1, <2>2, ActsKeeps
<1>14. NoticedInv'
  <2>1. \A q \in Sessions \ {p} : pc'[q] = pc[q] BY <1>0, <1>2 DEF NewsrcTypeOK
  <2>. QED BY <1>0, <1>2, <2>1, NoticedKept DEF NInv
<1>. QED BY <1>10, <1>13, <1>14 DEF NInv

(* A session's mailbox goes, *)
LEMMA FastCloseKeeps ==
  ASSUME NInv, NEW p \in Sessions, FastClose(p),
         pc' = [pc EXCEPT ![p] = "ready"],
         UNCHANGED <<server, file, now, group, shown, renumbered>>,
         events' \in 0..MaxEvents
  PROVE  /\ LinesInv' /\ ServerInv' /\ HeadersInv' /\ AheadInv' /\ ClosingInv'
         /\ open' \subseteq Sessions /\ closing' \subseteq open'
         /\ hdrs' \in [Sessions -> Headers]
         /\ pc' \in [Sessions -> {"ready", "rename", "stat"}]
<1>0. NewsrcTypeOK BY DEF NInv
<1>1. /\ open' = open \ {p} /\ closing' = closing \ {p} /\ hdrs' = [hdrs EXCEPT ![p] = NoHeaders]
  BY DEF FastClose
<1>2. pc \in [Sessions -> {"ready", "rename", "stat"}] /\ open \subseteq Sessions /\ closing \subseteq open
  BY <1>0 DEF NewsrcTypeOK
<1>3. hdrs' \in [Sessions -> Headers] /\ pc' \in [Sessions -> {"ready", "rename", "stat"}]
  BY <1>0, <1>1, Itself, NoHeadersType, ActsType
<1>p. seen' = seen /\ skipped' = skipped /\ Passed' = Passed BY PassedSame
<1>4. Acts(p, group[p], NoHeaders) BY <1>0, <1>1, <1>2, Itself DEF Acts
<1>5. open' \subseteq Sessions /\ closing' \subseteq open' /\ closing' \subseteq Sessions
      /\ p \notin open' /\ p \notin closing'
  BY <1>1, <1>2
<1>6. DOMAIN NoHeaders = {} /\ NoHeaders \in Headers BY NoHeadersType
<1>7. LinesInv' /\ ServerInv' /\ HeadersInv' /\ AheadInv' /\ ClosingInv'
  BY <1>0, <1>p, <1>4, <1>5, <1>6, Itself, GroupFacts, ActsKeeps
<1>. QED BY <1>3, <1>5, <1>7

(* without a sync, *)
LEMMA LeaveKeeps == ASSUME NInv, NEW p \in Sessions, Leave(p) PROVE NInv'
<1>0. NewsrcTypeOK BY DEF NInv
<1>1. /\ pc[p] = "ready" /\ FastClose(p)
      /\ UNCHANGED <<server, file, now, group, stamp, pc, shown, memory, renumbered>>
  BY DEF Leave
<1>2. pc' = [pc EXCEPT ![p] = "ready"] BY <1>0, <1>1 DEF NewsrcTypeOK
<1>3. events' \in 0..MaxEvents BY <1>0, EventType DEF Leave
<1>4. /\ LinesInv' /\ ServerInv' /\ HeadersInv' /\ AheadInv' /\ ClosingInv'
      /\ open' \subseteq Sessions /\ closing' \subseteq open'
      /\ hdrs' \in [Sessions -> Headers]
      /\ pc' \in [Sessions -> {"ready", "rename", "stat"}]
  BY <1>1, <1>2, <1>3, FastCloseKeeps
<1>5. NewsrcTypeOK' BY <1>0, <1>1, <1>3, <1>4 DEF NewsrcTypeOK, shown, memory
<1>6. NoticedInv' BY <1>0, <1>1, NoticedKept DEF NInv
<1>. QED BY <1>4, <1>5, <1>6 DEF NInv

(* or at the end of mutt_newsrc_update(), if it is being closed. *)
LEMMA UpdateEndsKeeps ==
  ASSUME NInv, NEW p \in Sessions, UpdateEnds(p),
         UNCHANGED <<server, file, now, group, shown, renumbered>>,
         events' \in 0..MaxEvents
  PROVE  /\ LinesInv' /\ ServerInv' /\ HeadersInv' /\ AheadInv' /\ ClosingInv'
         /\ open' \subseteq Sessions /\ closing' \subseteq open'
         /\ hdrs' \in [Sessions -> Headers]
         /\ pc' \in [Sessions -> {"ready", "rename", "stat"}]
         /\ pc' = [pc EXCEPT ![p] = "ready"]
<1>0. NewsrcTypeOK BY DEF NInv
<1>1. pc' = [pc EXCEPT ![p] = "ready"] BY DEF UpdateEnds
<1>2. CASE p \in closing
  <2>1. FastClose(p) BY <1>2 DEF UpdateEnds
  <2>. QED BY <1>1, <2>1, FastCloseKeeps
<1>3. CASE p \notin closing
  <2>1. open' = open /\ hdrs' = hdrs /\ closing' = closing BY <1>3 DEF UpdateEnds, mailbox
  <2>2. hdrs[p] \in Headers /\ group[p] \in NewsGroup BY <1>0, Itself
  <2>p. Passed' = Passed BY PassedSame
  <2>3. Acts(p, group[p], hdrs[p]) BY <1>0, <1>1, <2>1, Itself DEF Acts, NewsrcTypeOK
  <2>4. open' \subseteq Sessions /\ closing' \subseteq open' /\ closing' \subseteq Sessions
        /\ hdrs' \in [Sessions -> Headers]
        /\ pc' \in [Sessions -> {"ready", "rename", "stat"}]
    BY <1>0, <1>1, <2>1, <2>2, ActsType DEF NewsrcTypeOK
  <2>5. LinesInv' /\ ServerInv' /\ HeadersInv' /\ AheadInv' /\ ClosingInv'
    BY <1>3, <2>1, <2>2, <2>p, <2>3, <2>4, GroupFacts, ActsKeeps
  <2>. QED BY <1>1, <2>4, <2>5
<1>. QED BY <1>2, <1>3

(* That may fail, *)
LEMMA UpdateFailsKeeps == ASSUME NInv, NEW p \in Sessions, UpdateFails(p) PROVE NInv'
<1>0. NewsrcTypeOK BY DEF NInv
<1>1. /\ pc[p] = "rename" /\ UpdateEnds(p)
      /\ UNCHANGED <<server, file, now, group, stamp, shown, memory, renumbered>>
  BY DEF UpdateFails
<1>2. events' \in 0..MaxEvents BY <1>0, EventType DEF UpdateFails
<1>3. /\ LinesInv' /\ ServerInv' /\ HeadersInv' /\ AheadInv' /\ ClosingInv'
      /\ open' \subseteq Sessions /\ closing' \subseteq open'
      /\ hdrs' \in [Sessions -> Headers]
      /\ pc' \in [Sessions -> {"ready", "rename", "stat"}]
      /\ pc' = [pc EXCEPT ![p] = "ready"]
  BY <1>1, <1>2, UpdateEndsKeeps
<1>4. NewsrcTypeOK' BY <1>0, <1>1, <1>2, <1>3 DEF NewsrcTypeOK, shown, memory
<1>5. NoticedInv'
  <2>1. \A q \in Sessions \ {p} : pc'[q] = pc[q] BY <1>0, <1>3 DEF NewsrcTypeOK
  <2>. QED BY <1>0, <1>1, <2>1, NoticedKept DEF NInv
<1>. QED BY <1>3, <1>4, <1>5 DEF NInv

(* or its new file takes the place of the newsrc, *)
LEMMA RenameKeeps == ASSUME NInv, NEW p \in Sessions, Rename(p) PROVE NInv'
<1>0. NewsrcTypeOK BY DEF NInv
<1>1. /\ pc[p] = "rename" /\ pc' = [pc EXCEPT ![p] = "stat"]
      /\ file' = [line |-> Written(p), time |-> now]
      /\ known' = [known EXCEPT ![p] = Written(p)]
      /\ raced' = raced \cup {q \in Sessions : stamp[q] = Stamp'} /\ forgotten' = forgotten \ {p}
      /\ UNCHANGED <<server, now, group, stamp, mailbox, events, shown, renumbered>>
  BY DEF Rename
<1>2. Written(p) \in Line /\ Fine(Written(p).entries, server, Passed, renumbered)
  <2>1. NoLine \in Line /\ NoLine.entries = {} BY DEF NoLine, Line
  <2>2. server.last \in Nat BY <1>0, ServerFacts DEF NewsrcTypeOK, ServerOK
  <2>3. Fine(NoLine.entries, server, Passed, renumbered) BY <2>1, <2>2, FineEmpty
  <2>. QED BY <1>0, <2>1, <2>3, GroupFacts, Itself DEF Written
<1>p. seen' = seen /\ skipped' = skipped /\ Passed' = Passed BY <1>1, PassedSame
<1>3. file'.line = Written(p) /\ file'.time = now BY <1>1
<1>4. NewsrcTypeOK'
  <2>1. known' \in [Sessions -> Line] /\ pc' \in [Sessions -> {"ready", "rename", "stat"}]
    BY <1>0, <1>1, <1>2, ActsType DEF NewsrcTypeOK
  <2>2. raced' \subseteq Sessions BY <1>0, <1>1 DEF NewsrcTypeOK
  <2>. QED BY <1>0, <1>1, <1>2, <1>3, <1>p, <2>1, <2>2 DEF NewsrcTypeOK, mailbox
<1>5. LinesInv' BY <1>1, <1>p, <1>2, <1>3 DEF NInv, LinesInv
<1>6. ServerInv' /\ HeadersInv' /\ AheadInv'
  BY <1>1, <1>p DEF NInv, ServerInv, HeadersInv, AheadInv, mailbox
<1>7. ClosingInv'
  <2>1. pc'[p] = "stat" /\ \A q \in Sessions \ {p} : pc'[q] = pc[q] BY <1>0, <1>1 DEF NewsrcTypeOK
  <2>2. closing \subseteq Sessions BY <1>0 DEF NewsrcTypeOK
  <2>. QED BY <1>1, <2>1, <2>2 DEF NInv, ClosingInv, mailbox
<1>8. NoticedInv'
  <2>1. SUFFICES ASSUME NEW q \in Sessions, pc'[q] # "stat", q \notin raced', stamp'[q] = Stamp'
                 PROVE FALSE
    BY DEF NoticedInv, Modified
  <2>. QED BY <1>1, <2>1
<1>. QED BY <1>4, <1>5, <1>6, <1>7, <1>8 DEF NInv

(* and is looked at. *)
LEMMA StatFileKeeps == ASSUME NInv, NEW p \in Sessions, StatFile(p) PROVE NInv'
<1>0. NewsrcTypeOK BY DEF NInv
<1>1. /\ pc[p] = "stat" /\ UpdateEnds(p)
      /\ stamp' = [stamp EXCEPT ![p] = Stamp]
      /\ raced' = IF file.line = known[p] THEN raced \ {p} ELSE raced \cup {p}
      /\ UNCHANGED <<server, file, now, group, events, shown, known, forgotten, renumbered>>
  BY DEF StatFile
<1>2. events' \in 0..MaxEvents BY <1>0, <1>1 DEF NewsrcTypeOK
<1>3. /\ LinesInv' /\ ServerInv' /\ HeadersInv' /\ AheadInv' /\ ClosingInv'
      /\ open' \subseteq Sessions /\ closing' \subseteq open'
      /\ hdrs' \in [Sessions -> Headers]
      /\ pc' \in [Sessions -> {"ready", "rename", "stat"}]
      /\ pc' = [pc EXCEPT ![p] = "ready"]
  BY <1>1, <1>2, UpdateEndsKeeps
<1>4. NewsrcTypeOK'
  <2>1. stamp' \in [Sessions -> [size : Int, time : 0..MaxTime]] BY <1>0, <1>1, Itself, NoHeadersType, ActsType
  <2>2. raced' \subseteq Sessions BY <1>0, <1>1 DEF NewsrcTypeOK
  <2>. QED BY <1>0, <1>1, <1>3, <2>1, <2>2 DEF NewsrcTypeOK, shown
<1>5. NoticedInv'
  <2>1. Stamp' = Stamp BY <1>1 DEF Stamp
  <2>2. /\ pc'[p] = "ready" /\ stamp'[p] = Stamp
        /\ \A q \in Sessions \ {p} : pc'[q] = pc[q] /\ stamp'[q] = stamp[q]
    BY <1>0, <1>1, <1>3 DEF NewsrcTypeOK
  <2>3. \A q \in Sessions \ {p} : q \notin raced' => q \notin raced BY <1>1
  <2>4. p \notin raced' => known[p] = file.line BY <1>1
  <2>. QED BY <1>1, <2>1, <2>2, <2>3, <2>4 DEF NInv, NoticedInv, Modified
<1>. QED BY <1>3, <1>4, <1>5 DEF NInv

(* Opening a group *)
LEMMA OpenKeeps ==
  ASSUME NInv, NEW p \in Sessions, NEW b \in BOOLEAN, NEW ok \in BOOLEAN,
         NEW cut \in 0..MaxArticle, Open(p, b, ok, cut)
  PROVE  NInv'
<1>0. NewsrcTypeOK /\ ServerOK /\ ServerInv BY DEF NInv, NewsrcTypeOK, ServerOK
<1> DEFINE s == Selected(p, b, ok)
           first == IF Window # 0 /\ server.last - server.first + 1 > Window
                    THEN server.last - Window + 1 ELSE server.first
           g == [s EXCEPT !.first = server.first, !.last = server.last, !.loaded = first - 1]
           hs == Fetched(g, first, cut)
           nothing == server.last = 0 \/ first > server.last
           l == LastLoaded(g, hs, cut, server.last)
           g2 == IF nothing THEN g ELSE [g EXCEPT !.loaded = l]
<1>1. /\ pc[p] = "ready" /\ p \notin open
      /\ IF nothing THEN cut = server.last ELSE cut \in (first - 1)..server.last
      /\ group' = [group EXCEPT ![p] = g2] /\ Loaded(p, ok)
      /\ UNCHANGED <<server, file, now, closing, pc, renumbered>>
  BY DEF Open
<1>2. IF cut = server.last
      THEN /\ open' = open \cup {p} /\ hdrs' = [hdrs EXCEPT ![p] = hs]
           /\ seen' = seen \cup first..server.last /\ skipped' = skipped \cup 1..first - 1
      ELSE UNCHANGED <<open, hdrs, shown>>
  BY DEF Open
<1>3. events' \in 0..MaxEvents BY <1>0, EventType DEF Open
<1>4. /\ s \in NewsGroup /\ s.loaded = group[p].loaded
      /\ Fine(s.line.entries, server, Passed, renumbered)
  BY SelectedFine
<1> HIDE DEF s
<1>5. /\ server.first \in 1..MaxArticle + 1 /\ server.last \in 0..MaxArticle
      /\ server.articles \in SUBSET Articles /\ server.articles \subseteq server.first..server.last
      /\ server.first <= server.last + 1 /\ MaxArticle \in Nat /\ Window \in Nat
  BY <1>0, ServerFacts, NewsrcAssumption DEF ServerInv
<1>6. /\ first \in Int /\ server.first <= first /\ first <= server.last + 1 BY <1>5
<1> HIDE DEF first
<1>7. first - 1 \in 0..MaxArticle BY <1>5, <1>6
<1>8. /\ g \in NewsGroup /\ g.line = s.line /\ g.first = server.first /\ g.last = server.last
      /\ g.loaded = first - 1
  BY <1>4, <1>5, <1>7 DEF NewsGroup
<1> HIDE DEF g
<1>9. /\ hs \in Headers /\ DOMAIN hs = {n \in server.articles : first <= n /\ n <= cut}
  <2>1. cut \in Int BY <1>5
  <2>. QED BY <1>0, <1>6, <1>8, <2>1, FetchedType
<1> HIDE DEF hs
<1>10. DOMAIN hs \subseteq 1..cut BY <1>5, <1>9 DEF Articles
<1>11. first - 1 <= cut /\ cut <= server.last
  <2>1. CASE nothing BY <1>1, <1>5, <1>6, <2>1
  <2>2. CASE ~nothing BY <1>1, <1>5, <1>6, <2>2
  <2>. QED BY <2>1, <2>2
<1>12. l \in 0..MaxArticle /\ l <= server.last /\ DOMAIN hs \subseteq 1..l
  <2>1. cut \in Nat /\ server.last \in Nat /\ g.loaded <= cut BY <1>5, <1>8, <1>11
  <2>2. l \in Nat /\ l <= server.last /\ DOMAIN hs \subseteq 1..l
    BY <1>8, <1>10, <1>11, <2>1, LastLoadedBounds
  <2> HIDE DEF l
  <2>. QED BY <1>5, <2>2
<1> HIDE DEF l
<1>13. [g EXCEPT !.loaded = l] \in NewsGroup BY <1>8, <1>12 DEF NewsGroup
<1>14. /\ g2 \in NewsGroup /\ g2.line = s.line /\ g2.first = server.first /\ g2.last = server.last
       /\ g2.loaded = IF nothing THEN first - 1 ELSE l
  BY <1>8, <1>13 DEF NewsGroup
<1> HIDE DEF g2
<1>15. g2.loaded <= server.last /\ g2.loaded \in Int
  <2>1. first - 1 <= server.last BY <1>5, <1>6
  <2>. QED BY <1>5, <1>6, <1>12, <1>14, <2>1
<1>16. DOMAIN hs \subseteq 1..g2.loaded
  <2>1. CASE nothing
    <3>1. cut = server.last /\ (first > server.last \/ server.last = 0) BY <1>1, <2>1
    <3>2. DOMAIN hs = {} BY <1>5, <1>6, <1>9, <3>1 DEF Articles
    <3>. QED BY <3>2
  <2>2. CASE ~nothing BY <1>12, <1>14, <2>2
  <2>. QED BY <2>1, <2>2
<1> HIDE DEF nothing
<1>17. UNCHANGED <<stamp, memory>> \/ Stamped(p, ok) BY <1>1 DEF Loaded
<1>18. server.first <= server.first /\ server.last <= server.last BY <1>5
<1>19. CASE cut = server.last
  <2>1. /\ seen' = seen \cup first..server.last /\ seen' \subseteq Articles
        /\ skipped' = skipped \cup 1..first - 1 /\ skipped' \subseteq Articles
    <3>1. first..server.last \subseteq Articles /\ 1..first - 1 \subseteq Articles
      BY <1>5, <1>6 DEF Articles
    <3>2. seen \subseteq Articles /\ skipped \subseteq Articles BY <1>0 DEF NewsrcTypeOK
    <3>. QED BY <1>2, <1>19, <3>1, <3>2
  <2>p. Passed \subseteq Passed' /\ 1..server.last \subseteq Passed'
    <3>1. 1..server.last \subseteq (first..server.last) \cup (1..first - 1) BY <1>5, <1>6
    <3>. QED BY <2>1, <3>1 DEF Passed
  <2>2. 1..g2.loaded \subseteq Passed' BY <1>5, <1>15, <2>p
  <2>3. Fine(g2.line.entries, server, Passed', renumbered) BY <1>4, <1>14, <2>p DEF Fine
  <2>4. open' = open \cup {p} /\ hdrs' = [hdrs EXCEPT ![p] = hs] BY <1>2, <1>19
  <2>. QED BY <1>1, <1>3, <1>9, <1>14, <1>15, <1>16, <1>17, <1>18, <2>1, <2>p, <2>2, <2>3, <2>4, GroupKeeps
<1>20. CASE cut # server.last
  <2>1. open' = open /\ hdrs' = hdrs /\ seen' = seen /\ skipped' = skipped /\ Passed' = Passed
    BY <1>2, <1>20, PassedSame
  <2>2. hdrs' = [hdrs EXCEPT ![p] = hdrs[p]] /\ hdrs[p] \in Headers BY <1>0, <2>1, Itself
  <2>3. DOMAIN hdrs[p] = {} BY <1>1, GroupFacts
  <2>4. Fine(g2.line.entries, server, Passed', renumbered) BY <1>4, <1>14, <2>1
  <2>5. seen' \subseteq Articles /\ skipped' \subseteq Articles /\ p \notin open' BY <1>0, <1>1, <2>1 DEF NewsrcTypeOK
  <2>. QED BY <1>1, <1>3, <1>14, <1>15, <1>17, <1>18, <2>1, <2>2, <2>3, <2>4, <2>5, GroupKeeps
<1>. QED BY <1>19, <1>20

(* and looking for news in it *)
LEMMA CheckKeeps ==
  ASSUME NInv, NEW p \in Sessions, NEW cut \in 0..MaxArticle, Check(p, cut)
  PROVE  NInv'
<1>0. NewsrcTypeOK /\ ServerOK /\ ServerInv BY DEF NInv, NewsrcTypeOK, ServerOK
<1> DEFINE g == [group[p] EXCEPT !.first = server.first, !.last = server.last]
           hs == Fetched(g, g.loaded + 1, cut)
           l == LastLoaded(g, hs, cut, server.last)
           g2 == [g EXCEPT !.loaded = l]
<1>1. /\ pc[p] = "ready" /\ p \in open
      /\ UNCHANGED <<server, file, now, stamp, open, closing, pc, skipped, memory, renumbered>>
  BY DEF Check
<1>2. IF server.last > group[p].loaded
      THEN /\ cut \in group[p].loaded..server.last
           /\ group' = [group EXCEPT ![p] = g2]
           /\ hdrs' = [hdrs EXCEPT ![p] = Joined(hdrs[p], hs)]
           /\ seen' = seen \cup (g.loaded + 1)..cut
      ELSE /\ group' = [group EXCEPT ![p] = Checked(group[p])]
           /\ UNCHANGED <<hdrs, seen>>
  BY DEF Check
<1>3. events' \in 0..MaxEvents BY <1>0, EventType DEF Check
<1>4. /\ group[p] \in NewsGroup /\ hdrs[p] \in Headers /\ group[p].loaded \in 0..MaxArticle
      /\ server.first \in 1..MaxArticle + 1 /\ server.last \in 0..MaxArticle
      /\ server.articles \in SUBSET Articles /\ MaxArticle \in Nat
  BY <1>0, Itself, ServerFacts, NewsrcAssumption
<1>5. server.first <= server.first /\ server.last <= server.last BY <1>4
<1>6. CASE server.last > group[p].loaded
  <2>1. /\ g \in NewsGroup /\ g.line = group[p].line /\ g.first = server.first
        /\ g.last = server.last /\ g.loaded = group[p].loaded
    BY <1>4 DEF NewsGroup
  <2> HIDE DEF g
  <2>2. /\ cut \in Nat /\ g.loaded <= cut /\ cut <= server.last /\ g.loaded + 1 \in Int
        /\ g.loaded \in Nat
    BY <1>2, <1>4, <1>6, <2>1
  <2>3. hs \in Headers /\ DOMAIN hs = {n \in server.articles : g.loaded + 1 <= n /\ n <= cut}
    <3>1. cut \in Int BY <2>2
    <3>. QED BY <1>0, <2>1, <2>2, <3>1, FetchedType
  <2> HIDE DEF hs
  <2>4. DOMAIN hs \subseteq 1..cut BY <1>4, <2>2, <2>3 DEF Articles
  <2>5. /\ l \in Nat /\ g.loaded <= l /\ l <= server.last /\ DOMAIN hs \subseteq 1..l
        /\ cut # server.last => l <= cut
    <3>1. server.last \in Nat BY <1>4
    <3>. QED BY <2>1, <2>2, <2>4, <3>1, LastLoadedBounds
  <2> HIDE DEF l
  <2>6. l <= cut BY <1>4, <2>2, <2>5
  <2>7. l \in 0..MaxArticle BY <1>4, <2>5
  <2>8. /\ g2 \in NewsGroup /\ g2.line = group[p].line /\ g2.first = server.first
        /\ g2.last = server.last /\ g2.loaded = l
    BY <2>1, <2>7 DEF NewsGroup
  <2> HIDE DEF g2
  <2> DEFINE more == Joined(hdrs[p], hs)
  <2>9. more \in Headers /\ DOMAIN more = DOMAIN hdrs[p] \cup DOMAIN hs BY <1>4, <2>3, JoinedType
  <2>10. hdrs' = [hdrs EXCEPT ![p] = more] /\ group' = [group EXCEPT ![p] = g2]
         /\ seen' = seen \cup (g.loaded + 1)..cut
    BY <1>2, <1>6
  <2> HIDE DEF more
  <2>11. DOMAIN more \subseteq 1..g2.loaded
    <3>1. DOMAIN hdrs[p] \subseteq 1..g.loaded BY <2>1, GroupFacts
    <3>2. 1..g.loaded \subseteq 1..l BY <2>2, <2>5
    <3>. QED BY <2>5, <2>8, <2>9, <3>1, <3>2
  <2>12. seen' \subseteq Articles /\ skipped' = skipped /\ skipped \subseteq Articles /\ Passed \subseteq Passed'
    <3>1. (g.loaded + 1)..cut \subseteq Articles BY <1>4, <2>2 DEF Articles
    <3>. QED BY <1>0, <1>1, <2>10, <3>1 DEF NewsrcTypeOK, Passed
  <2>13. Fine(g2.line.entries, server, Passed', renumbered)
    <3>1. Fine(group[p].line.entries, server, Passed, renumbered) BY GroupFacts
    <3>. QED BY <2>8, <2>12, <3>1 DEF Fine
  <2>14. ~renumbered => 1..g2.loaded \subseteq Passed'
    <3>1. SUFFICES ASSUME ~renumbered, NEW n \in 1..l PROVE n \in Passed' BY <2>8
    <3>2. 1..g.loaded \subseteq Passed BY <1>1, <2>1, <3>1, GroupFacts
    <3>3. n \in 1..g.loaded \/ n \in (g.loaded + 1)..cut BY <2>2, <2>5, <2>6, <3>1
    <3>. QED BY <2>10, <2>12, <3>2, <3>3 DEF Passed
  <2>. QED BY <1>1, <1>3, <1>5, <2>5, <2>8, <2>9, <2>10, <2>11, <2>12, <2>13, <2>14, GroupKeeps
<1>7. CASE ~(server.last > group[p].loaded)
  <2> DEFINE c == Checked(group[p])
  <2>1. /\ c \in NewsGroup
        /\ c.first = server.first /\ c.last = server.last /\ c.loaded = group[p].loaded
        /\ c.line.entries = group[p].line.entries \/ c.line.entries = {[first |-> 1, last |-> 0]}
    BY <1>0, <1>4, CheckedFacts
  <2>2. group' = [group EXCEPT ![p] = c] /\ hdrs' = hdrs /\ seen' = seen /\ skipped' = skipped
        /\ Passed' = Passed
    BY <1>1, <1>2, <1>7 DEF Passed
  <2> HIDE DEF c
  <2>3. hdrs' = [hdrs EXCEPT ![p] = hdrs[p]] BY <1>0, <2>2, Itself
  <2>4. Fine(c.line.entries, server, Passed', renumbered)
    <3>1. server.last \in Nat BY <1>4
    <3>2. CASE c.line.entries = group[p].line.entries
      <4>1. Fine(group[p].line.entries, server, Passed, renumbered) BY GroupFacts
      <4>. QED BY <2>2, <3>2, <4>1
    <3>3. CASE c.line.entries = {[first |-> 1, last |-> 0]} BY <2>2, <3>1, <3>3, FineEmpty
    <3>. QED BY <2>1, <3>2, <3>3
  <2>5. seen' \subseteq Articles /\ skipped' \subseteq Articles BY <1>0, <2>2 DEF NewsrcTypeOK
  <2>. QED BY <1>1, <1>3, <1>4, <1>5, <2>1, <2>2, <2>3, <2>4, <2>5, GroupFacts, GroupKeeps
<1>. QED BY <1>6, <1>7

-----------------------------------------------------------------------------
(* The invariant *)
LEMMA InitInv == Init => NInv
<1> SUFFICES ASSUME Init PROVE NInv OBVIOUS
<1> DEFINE s == Started(TRUE)
<1>1. PICK n \in 0..MaxArticle : server = [articles |-> 1..n, first |-> 1, last |-> n] BY DEF Init
<1>2. /\ server \in [articles : SUBSET Articles, first : 1..MaxArticle + 1, last : 0..MaxArticle]
      /\ server.articles = server.first..server.last /\ server.first = 1 /\ server.last \in Nat
  BY <1>1, NewsrcAssumption DEF Articles
<1>3. file = [line |-> [rc |-> TRUE, subscribed |-> TRUE, entries |-> {}], time |-> 0] BY DEF Init
<1>4. file.line \in Line /\ file.line.entries = {} /\ file.time = 0 BY <1>3 DEF Line
<1>5. ServerOK BY <1>2 DEF ServerOK
<1>6. /\ s \in NewsGroup /\ s.loaded = 0 /\ s.first = server.first /\ s.last = server.last
      /\ s.line.entries = {}
  BY <1>4, <1>5, StartedFacts
<1>7. /\ group = [p \in Sessions |-> s] /\ stamp = [p \in Sessions |-> Stamp]
      /\ open = {} /\ closing = {} /\ hdrs = [p \in Sessions |-> NoHeaders] /\ now = 0
      /\ pc = [p \in Sessions |-> "ready"] /\ events = 0
      /\ seen = {} /\ skipped = {} /\ raced = {} /\ forgotten = {}
      /\ renumbered = FALSE /\ known = [p \in Sessions |-> file.line]
  BY DEF Init
<1> HIDE DEF s
<1>8. 0 \in 0..MaxTime /\ 0 \in 0..MaxEvents BY NewsrcAssumption
<1>9. Stamp \in [size : Int, time : 0..MaxTime] BY <1>4, <1>8, SizeType DEF Stamp
<1>10. NewsrcTypeOK BY <1>2, <1>4, <1>6, <1>7, <1>8, <1>9, NoHeadersType DEF NewsrcTypeOK
<1>11. LinesInv
  <2>1. Fine({}, server, Passed, renumbered) BY <1>2, FineEmpty
  <2>2. \A p \in Sessions : group[p].line.entries = {} BY <1>6, <1>7
  <2>. QED BY <1>4, <2>1, <2>2 DEF LinesInv
<1>12. ServerInv BY <1>2 DEF ServerInv
<1>13. HeadersInv BY <1>7, NoHeadersType DEF HeadersInv
<1>14. AheadInv
  <2>1. \A p \in Sessions : group[p] = s BY <1>7
  <2>2. s.first <= server.first /\ s.last <= server.last /\ s.loaded <= server.last
    BY <1>2, <1>6
  <2>3. open = {} BY <1>7
  <2>. QED BY <2>1, <2>2, <2>3 DEF AheadInv
<1>15. ClosingInv /\ NoticedInv BY <1>7 DEF ClosingInv, NoticedInv
<1>. QED BY <1>10, <1>11, <1>12, <1>13, <1>14, <1>15 DEF NInv

(* A step that changes nothing *)
LEMMA StutterKeeps == NInv /\ UNCHANGED vars => NInv'
<1> SUFFICES ASSUME NInv, UNCHANGED vars PROVE NInv' OBVIOUS
<1>1. /\ server' = server /\ file' = file /\ now' = now /\ group' = group /\ stamp' = stamp
      /\ open' = open /\ hdrs' = hdrs /\ closing' = closing /\ pc' = pc /\ events' = events
      /\ seen' = seen /\ skipped' = skipped /\ Passed' = Passed
      /\ known' = known /\ raced' = raced /\ forgotten' = forgotten /\ renumbered' = renumbered
  BY DEF vars, mailbox, shown, memory, Passed
<1>2. Stamp' = Stamp BY <1>1 DEF Stamp
<1>3. NoticedInv' BY <1>1, <1>2 DEF NInv, NoticedInv, Modified
<1>. QED BY <1>1, <1>3 DEF NInv, NewsrcTypeOK, LinesInv, ServerInv, HeadersInv, AheadInv, ClosingInv

(* A step of a session *)
SessionStep(p) ==
  \/ Catchup(p) \/ Uncatchup(p) \/ Leave(p) \/ UpdateFails(p) \/ Rename(p) \/ StatFile(p)
  \/ \E b \in BOOLEAN : Restart(p, b)
  \/ \E b \in BOOLEAN : \E c \in BOOLEAN : Browse(p, b, c)
  \/ \E b \in BOOLEAN : Sync(p, b)
  \/ \E b \in BOOLEAN : Close(p, b)
  \/ \E b \in BOOLEAN : \E c \in BOOLEAN : \E n \in 0..MaxArticle : Open(p, b, c, n)
  \/ \E b \in BOOLEAN : \E c \in BOOLEAN : Subscribe(p, b, c)
  \/ \E n \in 0..MaxArticle : Check(p, n)
  \/ \E n \in Articles : ToggleRead(p, n)
  \/ \E n \in Articles : Delete(p, n)

(* is one of the program's. *)
LEMMA StepsApart ==
  Next => \/ Post \/ Expire \/ Tick \/ (\E n \in Articles : Cancel(n))
          \/ (\E n \in Articles : Renumber(n)) \/ (\E p \in Sessions : SessionStep(p))
BY Zenon DEF Next, SessionStep

(* Each keeps the invariant, *)
LEMMA SessionKeeps == ASSUME NInv, NEW p \in Sessions, SessionStep(p) PROVE NInv'
<1>0. CASE \E b \in BOOLEAN : Restart(p, b) BY <1>0, RestartKeeps
<1>1. CASE \/ Catchup(p) \/ Uncatchup(p) \/ Leave(p)
           \/ UpdateFails(p) \/ Rename(p) \/ StatFile(p)
  BY <1>1, CatchupKeeps, UncatchupKeeps, LeaveKeeps, UpdateFailsKeeps, RenameKeeps, StatFileKeeps
<1>2. CASE \E b \in BOOLEAN : \E c \in BOOLEAN : Browse(p, b, c) BY <1>2, BrowseKeeps
<1>3. CASE \E b \in BOOLEAN : Sync(p, b) BY <1>3, SyncKeeps
<1>4. CASE \E b \in BOOLEAN : Close(p, b) BY <1>4, CloseKeeps
<1>5. CASE \E b \in BOOLEAN : \E c \in BOOLEAN : \E n \in 0..MaxArticle : Open(p, b, c, n)
  BY <1>5, OpenKeeps
<1>6. CASE \E b \in BOOLEAN : \E c \in BOOLEAN : Subscribe(p, b, c) BY <1>6, SubscribeKeeps
<1>7. CASE \E n \in 0..MaxArticle : Check(p, n) BY <1>7, CheckKeeps
<1>8. CASE \E n \in Articles : ToggleRead(p, n) BY <1>8, ToggleReadKeeps
<1>9. CASE \E n \in Articles : Delete(p, n) BY <1>9, DeleteKeeps
<1>. QED BY <1>0, <1>1, <1>2, <1>3, <1>4, <1>5, <1>6, <1>7, <1>8, <1>9 DEF SessionStep

(* and so does every step. *)
LEMMA NextKeeps == NInv /\ [Next]_vars => NInv'
<1> SUFFICES ASSUME NInv, [Next]_vars PROVE NInv' OBVIOUS
<1>1. CASE UNCHANGED vars BY <1>1, StutterKeeps
<1>2. CASE Post \/ Expire \/ Tick BY <1>2, PostKeeps, ExpireKeeps, TickKeeps
<1>3. CASE \E n \in Articles : Cancel(n) BY <1>3, CancelKeeps
<1>4. CASE \E n \in Articles : Renumber(n) BY <1>4, RenumberKeeps
<1>5. CASE \E p \in Sessions : SessionStep(p) BY <1>5, SessionKeeps
<1>. QED BY <1>1, <1>2, <1>3, <1>4, <1>5, StepsApart

(* The invariant holds whenever the program runs. *)
LEMMA SpecNInv == Spec => []NInv
BY InitInv, NextKeeps, PTL DEF Spec

-----------------------------------------------------------------------------
(* What it shows *)

(* Every variable keeps its type; the group's loaded, first and last         *)
(* articles stay within the numbers there are, whatever the server does.     *)
THEOREM NewsrcTypeCorrect == Spec => []NewsrcTypeOK
  BY SpecNInv, PTL DEF NInv

(* No article is taken for read before it has been shown, in the newsrc or   *)
(* in memory, but for those that $nntp_context has cut off: ranges end where *)
(* headers have been loaded, and a listing that breaks off does not count to *)
(* its end.                                                                  *)
THEOREM UnseenStaysUnread == Spec => []UnseenUnread
<1>1. NInv => UnseenUnread
  <2> SUFFICES ASSUME NInv, ~renumbered,
                      NEW line \in {file.line} \cup {group[p].line : p \in Sessions}
               PROVE  server.articles \cap Covered(line.entries) \subseteq seen \cup skipped
    BY DEF UnseenUnread
  <2>. QED BY DEF NInv, LinesInv, Fine, Passed
<1>. QED BY <1>1, SpecNInv, PTL

(* A session that does not see the newsrc as modified knows what is in it,   *)
(* apart from the two ways that a stamp can deceive it, and from an attempt  *)
(* to read the file that has failed after its stamp was taken.               *)
THEOREM ModificationsNoticed == Spec => []ModificationNoticed
<1>1. NInv => ModificationNoticed BY DEF NInv, NoticedInv, ModificationNoticed
<1>. QED BY <1>1, SpecNInv, PTL

(* Only rename() leads to stat(). *)
LEMMA OnlyRename ==
  ASSUME NewsrcTypeOK, Next, NEW p \in Sessions, pc[p] = "rename", pc'[p] = "stat"
  PROVE  Rename(p)
<1>1. pc \in [Sessions -> {"ready", "rename", "stat"}] BY DEF NewsrcTypeOK
<1>2. CASE Post \/ Expire \/ Tick \/ (\E n \in Articles : Cancel(n)) \/ (\E n \in Articles : Renumber(n))
  BY <1>2 DEF Post, Expire, Tick, Cancel, Renumber, session
<1>3. ASSUME NEW q \in Sessions, SessionStep(q) PROVE q = p /\ Rename(p)
  <2>1. CASE Rename(q) BY <1>1, <2>1 DEF Rename
  <2>2. CASE ~Rename(q)
    <3>1. pc' = pc \/ pc' = [pc EXCEPT ![q] = "ready"] \/ pc' = [pc EXCEPT ![q] = "rename"]
      BY <1>3, <2>2 DEF SessionStep, Restart, Catchup, Uncatchup, Leave, UpdateFails, StatFile, UpdateEnds,
           Browse, Sync, Close, Open, Subscribe, Check, ToggleRead, Delete
    <3>. QED BY <1>1, <3>1
  <2>. QED BY <2>1, <2>2
<1>. QED BY <1>2, <1>3, StepsApart

(* What closing a group writes is what the user has left: every article of   *)
(* the index is read in the newsrc if it was read or deleted there, and only *)
(* then.                                                                     *)
THEOREM FlagsAreKept == Spec => FlagsKept
<1>1. NInv /\ [Next]_vars =>
        [\A p \in closing : pc[p] = "rename" /\ pc'[p] = "stat" /\ group[p].line.rc =>
           \A n \in DOMAIN hdrs[p] :
             n >= group[p].first =>
               (n \in Covered(Parsed(file'.line).entries) <=> hdrs[p][n].read \/ hdrs[p][n].deleted)]_vars
  <2> SUFFICES ASSUME NInv, Next, NEW p \in closing, pc[p] = "rename", pc'[p] = "stat",
                      group[p].line.rc, NEW n \in DOMAIN hdrs[p], n >= group[p].first
               PROVE  n \in Covered(Parsed(file'.line).entries) <=> hdrs[p][n].read \/ hdrs[p][n].deleted
    OBVIOUS
  <2>1. NewsrcTypeOK /\ p \in Sessions BY DEF NInv, NewsrcTypeOK
  <2>2. Rename(p) BY <2>1, OnlyRename
  <2> DEFINE g == group[p]
             hs == hdrs[p]
  <2>3. file'.line = g.line BY <2>2 DEF Rename, Written
  <2>4. g.line.entries = GenEntries(hs, g) BY DEF NInv, ClosingInv
  <2>5. /\ g \in NewsGroup /\ hs \in Headers /\ g.line \in Line /\ g.first \in Int
        /\ DOMAIN hs \in SUBSET Articles
    BY <2>1, Itself
  <2>6. DOMAIN hs \subseteq 1..g.loaded BY <2>1, GroupFacts
  <2> HIDE DEF g, hs
  <2>7. Covered(Parsed(g.line).entries) = Covered(GenEntries(hs, g)) BY <2>4, <2>5, ParsedLine
  <2>8. \A m \in DOMAIN hs : g.first <= m =>
          (m \in Covered(GenEntries(hs, g)) <=> hs[m].read \/ hs[m].deleted)
    BY <2>5, <2>6, GenEntriesRight
  <2>9. n \in DOMAIN hs /\ g.first <= n /\ hdrs[p] = hs
    <3>1. n \in DOMAIN hs /\ n >= g.first BY DEF g, hs
    <3>2. n \in Int BY <2>5, <3>1 DEF Articles
    <3>. QED BY <2>5, <3>1, <3>2 DEF hs
  <2>. QED BY <2>3, <2>7, <2>8, <2>9
<1>. QED BY <1>1, SpecNInv, PTL DEF Spec, FlagsKept

(* The number of unread articles in the list of groups is the number of      *)
(* those that no range covers: no article is counted twice, because the      *)
(* ranges of a line are disjoint, and none that the server no longer has.    *)
THEOREM UnreadIsCounted == Spec => UnreadCounted
<1>1. NInv /\ NInv' /\ [Next]_vars =>
        [\A p \in Sessions :
           /\ \E ok \in BOOLEAN : Restart(p, ok) \/ \E b \in BOOLEAN : Browse(p, b, ok)
           /\ group'[p].unread # group[p].unread /\ group'[p].line.rc /\ ~renumbered
           => group'[p].unread = Cardinality((group'[p].first..group'[p].last)
                                               \ Covered(group'[p].line.entries))]_vars
  <2> SUFFICES ASSUME NInv, NInv', NEW p \in Sessions,
                      NEW ok \in BOOLEAN, Restart(p, ok) \/ \E b \in BOOLEAN : Browse(p, b, ok),
                      group'[p].unread # group[p].unread, group'[p].line.rc, ~renumbered
               PROVE  group'[p].unread = Cardinality((group'[p].first..group'[p].last)
                                                       \ Covered(group'[p].line.entries))
    OBVIOUS
  <2>1. NewsrcTypeOK /\ ServerInv /\ ServerOK /\ file.line \in Line BY DEF NInv, NewsrcTypeOK, ServerOK
  <2>2. Disjoint(group'[p].line.entries) BY DEF NInv, LinesInv, Fine
  <2>3. SUFFICES group'[p].unread = Uncovered(group'[p]) BY DEF Uncovered
  <2>4. group \in [Sessions -> NewsGroup] BY <2>1 DEF NewsrcTypeOK
  <2>5. CASE Restart(p, ok)
    <3>1. group'[p] = Started(ok) BY <2>4, <2>5 DEF Restart
    <3>2. Started(ok).line.rc /\ Disjoint(Started(ok).line.entries) => Started(ok).unread = Uncovered(Started(ok))
      BY <2>1, StartedFacts
    <3>. QED BY <2>2, <3>1, <3>2
  <2>6. CASE \E b \in BOOLEAN : Browse(p, b, ok)
    <3>1. PICK b \in BOOLEAN : Browse(p, b, ok) BY <2>6
    <3> DEFINE s == Selected(p, b, ok)
    <3>2. group[p].loaded <= server.last /\ s.line.rc /\ Disjoint(s.line.entries) =>
            s.unread = group[p].unread \/ s.unread = Uncovered(s)
      BY <2>1, SelectedFacts
    <3>3. group'[p] = s BY <2>4, <3>1 DEF Browse
    <3> HIDE DEF s
    <3>4. group[p].loaded <= server.last BY GroupFacts
    <3>. QED BY <2>2, <3>2, <3>3, <3>4
  <2>. QED BY <2>5, <2>6
<1>. QED BY <1>1, SpecNInv, PTL DEF Spec, UnreadCounted
=============================================================================
