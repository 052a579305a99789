----------------------------- MODULE MboxProofs -----------------------------
(***************************************************************************)
(* Proofs about an mbox file, for any number of sessions and messages: no  *)
(* mail is lost, sessions do not undo each other's changes, and a session  *)
(* that finds the folder of the size it knows has read what is in it.      *)
(***************************************************************************)
EXTENDS Mbox, NaturalsInduction, WellFoundedInduction, TLAPS

Full == {"plain", "marked"}
Whole == [Msgs -> Full \cup {"none"}]

-----------------------------------------------------------------------------
(* Induction *)

(* A set of numbers has a least one. *)
LEMMA LeastNat ==
  ASSUME NEW T \in SUBSET Nat, T # {}
  PROVE  \E x \in T : \A y \in T : x <= y
<1> DEFINE R == {p \in Nat \X Nat : p[1] < p[2]}
<1>1. IsWellFoundedOn(R, Nat) BY NatLessThanWellFounded, Zenon DEF OpToRel
<1>2. PICK x \in T : \A y \in T : ~(<<y, x>> \in R) BY <1>1, WFMin, Zenon
<1>3. \A y \in T : ~(y < x) BY <1>2
<1>. QED BY <1>3

(* A set of numbers with 0 and the successor of each of its own has all. *)
LEMMA AllNat ==
  ASSUME NEW T \in SUBSET Nat, 0 \in T, \A n \in T : n + 1 \in T
  PROVE  T = Nat
<1> DEFINE Bad == Nat \ T
<1>1. SUFFICES ASSUME Bad # {} PROVE FALSE OBVIOUS
<1>2. PICK k \in Bad : \A j \in Bad : k <= j BY <1>1, LeastNat
<1>3. k \in Nat /\ k \notin T /\ k # 0 BY <1>2
<1>4. k - 1 \in Nat /\ k - 1 \notin Bad BY <1>2, <1>3
<1>5. (k - 1) + 1 \in T BY <1>4
<1>. QED BY <1>3, <1>5

-----------------------------------------------------------------------------
(* Offsets *)

(* Only what is not there takes no room. *)
LEMMA Lengths ==
  ASSUME NEW m \in Msgs, NEW mark \in Marks
  PROVE  Length(m, mark) \in Nat /\ (Length(m, mark) = 0 <=> mark = "none")
BY MboxAssumption DEF Length, Marks, Msgs

EndOf(t, c, first, start, m) == IF m < first THEN start ELSE t[m - 1] + Length(m, c[m])

IsEnds(t, c, first, start) == t = [i \in 0..N |-> EndOf(t, c, first, start, i)]

(* The ends exist, however many messages there are. *)
LEMMA EndsExist ==
  ASSUME NEW c, NEW first \in Nat \ {0}, NEW start
  PROVE  \E t : IsEnds(t, c, first, start)
<1> DEFINE Some(k) == \E t : t = [m \in 0..k |-> EndOf(t, c, first, start, m)]
           T == {k \in Nat : Some(k)}
<1>1. Some(0)
  <2> DEFINE t == [m \in 0..0 |-> start]
  <2>1. t = [m \in 0..0 |-> EndOf(t, c, first, start, m)] BY DEF EndOf
  <2>. QED BY <2>1
<1>2. ASSUME NEW k \in Nat, Some(k) PROVE Some(k + 1)
  <2>1. PICK t : t = [m \in 0..k |-> EndOf(t, c, first, start, m)] BY <1>2
  <2> DEFINE u == [m \in 0..(k + 1) |-> EndOf(t, c, first, start, m)]
  <2>2. ASSUME NEW m \in 0..(k + 1) PROVE u[m] = EndOf(u, c, first, start, m)
    <3>1. CASE m < first BY <3>1 DEF EndOf
    <3>2. CASE ~(m < first)
      <4>1. m - 1 \in 0..k /\ m - 1 \in 0..(k + 1) BY <3>2
      <4>2. t[m - 1] = EndOf(t, c, first, start, m - 1) BY <2>1, <4>1
      <4>3. u[m - 1] = EndOf(t, c, first, start, m - 1) BY <4>1
      <4>. QED BY <3>2, <4>2, <4>3 DEF EndOf
    <3>. QED BY <3>1, <3>2
  <2>3. u = [m \in 0..(k + 1) |-> u[m]] OBVIOUS
  <2> HIDE DEF u
  <2>4. u = [m \in 0..(k + 1) |-> EndOf(u, c, first, start, m)] BY <2>2, <2>3
  <2>. QED BY <2>4
<1>3. T = Nat
  <2>1. T \in SUBSET Nat /\ 0 \in T BY <1>1
  <2>2. \A n \in T : n + 1 \in T BY <1>2
  <2> HIDE DEF T
  <2>. QED BY <2>1, <2>2, AllNat
<1>4. N \in T BY <1>3, MboxAssumption
<1>. QED BY <1>4 DEF IsEnds

(* So each end follows from the one before. *)
LEMMA EndFollows ==
  ASSUME NEW c, NEW first \in Nat \ {0}, NEW start, NEW m \in 0..N
  PROVE  Ends(c, first, start)[m]
           = IF m < first THEN start ELSE Ends(c, first, start)[m - 1] + Length(m, c[m])
<1> DEFINE u == CHOOSE t : IsEnds(t, c, first, start)
<1>1. IsEnds(u, c, first, start) BY EndsExist
<1>2. Ends(c, first, start) = u BY DEF Ends, EndOf, IsEnds
<1> HIDE DEF u
<1>3. u[m] = EndOf(u, c, first, start, m) BY <1>1 DEF IsEnds
<1>. QED BY <1>2, <1>3 DEF EndOf

(* Ends are offsets, and what comes later does not end earlier. *)
LEMMA EndsGrow ==
  ASSUME NEW c \in Contents, NEW first \in Nat \ {0}, NEW start \in Nat
  PROVE  /\ \A m \in 0..N : Ends(c, first, start)[m] \in Nat
         /\ \A j, k \in 0..N : j <= k => Ends(c, first, start)[j] <= Ends(c, first, start)[k]
<1> DEFINE e == Ends(c, first, start)
           T == {k \in Nat : k <= N => e[k] \in Nat /\ \A j \in 0..k : e[j] \in Nat /\ e[j] <= e[k]}
<1>0. N \in Nat BY MboxAssumption
<1>1. \A m \in 0..N : e[m] = IF m < first THEN start ELSE e[m - 1] + Length(m, c[m])
  BY EndFollows
<1>2. \A m \in Msgs : Length(m, c[m]) \in Nat BY Lengths DEF Contents
<1> HIDE DEF e
<1>3. 0 \in T BY <1>0, <1>1
<1>4. ASSUME NEW k \in T PROVE k + 1 \in T
  <2> SUFFICES ASSUME k + 1 <= N
               PROVE  e[k + 1] \in Nat /\ \A j \in 0..k + 1 : e[j] \in Nat /\ e[j] <= e[k + 1]
    OBVIOUS
  <2>1. k \in 0..N /\ k + 1 \in 0..N /\ k + 1 \in Msgs /\ e[k] \in Nat
        /\ \A j \in 0..k : e[j] \in Nat /\ e[j] <= e[k]
    BY <1>0 DEF Msgs
  <2>2. e[k + 1] \in Nat /\ e[k] <= e[k + 1]
    <3>1. CASE k + 1 < first
      <4>1. e[k + 1] = start /\ e[k] = start BY <1>1, <2>1, <3>1
      <4>. QED BY <4>1
    <3>2. CASE ~(k + 1 < first)
      <4>1. e[k + 1] = e[(k + 1) - 1] + Length(k + 1, c[k + 1]) /\ (k + 1) - 1 = k
        BY <1>1, <2>1, <3>2
      <4>. QED BY <1>2, <2>1, <4>1
    <3>. QED BY <3>1, <3>2
  <2>3. \A j \in 0..k + 1 : j \in 0..k \/ j = k + 1 BY <2>1
  <2>. QED BY <2>1, <2>2, <2>3
<1>5. T = Nat
  <2>1. T \in SUBSET Nat OBVIOUS
  <2> HIDE DEF T
  <2>. QED BY <1>3, <1>4, <2>1, AllNat
<1>6. \A k \in 0..N : e[k] \in Nat /\ \A j \in 0..k : e[j] <= e[k] BY <1>0, <1>5
<1>7. \A j, k \in 0..N : j <= k => j \in 0..k BY <1>0
<1>. QED BY <1>6, <1>7 DEF e

(* The first k ends are those of the first k messages. *)
LEMMA EndsAgree ==
  ASSUME NEW c, NEW d, NEW k \in 0..N, \A i \in 1..k : c[i] = d[i]
  PROVE  Ends(c, 1, 0)[k] = Ends(d, 1, 0)[k]
<1> DEFINE e == Ends(c, 1, 0)
           f == Ends(d, 1, 0)
           T == {j \in Nat : j <= k => e[j] = f[j]}
<1>0. N \in Nat /\ 1 \in Nat \ {0} BY MboxAssumption
<1>1. \A m \in 0..N : e[m] = IF m < 1 THEN 0 ELSE e[m - 1] + Length(m, c[m])
  BY <1>0, EndFollows
<1>2. \A m \in 0..N : f[m] = IF m < 1 THEN 0 ELSE f[m - 1] + Length(m, d[m])
  BY <1>0, EndFollows
<1> HIDE DEF e, f
<1>3. 0 \in T BY <1>0, <1>1, <1>2
<1>4. ASSUME NEW j \in T PROVE j + 1 \in T
  <2> SUFFICES ASSUME j + 1 <= k PROVE e[j + 1] = f[j + 1] OBVIOUS
  <2>1. j + 1 \in 0..N /\ ~(j + 1 < 1) /\ (j + 1) - 1 = j /\ j + 1 \in 1..k /\ e[j] = f[j]
    BY <1>0
  <2>2. e[j + 1] = e[j] + Length(j + 1, c[j + 1]) BY <1>1, <2>1
  <2>3. f[j + 1] = f[j] + Length(j + 1, d[j + 1]) BY <1>2, <2>1
  <2>. QED BY <2>1, <2>2, <2>3
<1>5. T = Nat
  <2>1. T \in SUBSET Nat OBVIOUS
  <2> HIDE DEF T
  <2>. QED BY <1>3, <1>4, <2>1, AllNat
<1>. QED BY <1>0, <1>5 DEF e, f

(* Ends that start where another file's messages do are that file's. *)
LEMMA EndsMeet ==
  ASSUME NEW c, NEW first \in 1..N, NEW start, start = Ends(c, 1, 0)[first - 1],
         NEW k \in 0..N, k >= first - 1
  PROVE  Ends(c, first, start)[k] = Ends(c, 1, 0)[k]
<1> DEFINE e == Ends(c, first, start)
           f == Ends(c, 1, 0)
           T == {j \in Nat : j <= N /\ j >= first - 1 => e[j] = f[j]}
<1>0. N \in Nat /\ 1 \in Nat \ {0} /\ first \in Nat \ {0} BY MboxAssumption
<1>b. ASSUME NEW x, NEW m \in 0..N
      PROVE  Ends(c, first, x)[m] = IF m < first THEN x ELSE Ends(c, first, x)[m - 1] + Length(m, c[m])
  BY <1>0, EndFollows
<1>1. \A m \in 0..N : e[m] = IF m < first THEN start ELSE e[m - 1] + Length(m, c[m])
  BY <1>b
<1>2. \A m \in 0..N : f[m] = IF m < 1 THEN 0 ELSE f[m - 1] + Length(m, c[m])
  BY <1>0, EndFollows
<1>a. start = f[first - 1] OBVIOUS
<1> HIDE DEF e, f
<1>3. 0 \in T
  <2> SUFFICES ASSUME 0 >= first - 1 PROVE e[0] = f[0] OBVIOUS
  <2>1. first - 1 = 0 /\ 0 \in 0..N /\ 0 < first BY <1>0
  <2>. QED BY <1>1, <1>a, <2>1
<1>4. ASSUME NEW j \in T PROVE j + 1 \in T
  <2> SUFFICES ASSUME j + 1 <= N, j + 1 >= first - 1 PROVE e[j + 1] = f[j + 1] OBVIOUS
  <2>1. j + 1 \in 0..N /\ ~(j + 1 < 1) /\ (j + 1) - 1 = j BY <1>0
  <2>2. CASE j + 1 = first - 1 BY <1>0, <1>1, <1>a, <2>1, <2>2
  <2>3. CASE j + 1 # first - 1
    <3>1. ~(j + 1 < first) /\ e[j] = f[j] BY <1>0, <2>1, <2>3
    <3>2. e[j + 1] = e[j] + Length(j + 1, c[j + 1]) BY <1>1, <2>1, <3>1
    <3>3. f[j + 1] = f[j] + Length(j + 1, c[j + 1]) BY <1>2, <2>1
    <3>. QED BY <3>1, <3>2, <3>3
  <2>. QED BY <2>2, <2>3
<1>5. T = Nat
  <2>1. T \in SUBSET Nat OBVIOUS
  <2> HIDE DEF T
  <2>. QED BY <1>3, <1>4, <2>1, AllNat
<1>. QED BY <1>0, <1>5 DEF e, f

(* What is not there does not count. *)
LEMMA EndsStay ==
  ASSUME NEW c \in Contents, NEW k \in 0..N, \A i \in Msgs : i > k => c[i] = "none"
  PROVE  WholeSize(c) = Ends(c, 1, 0)[k]
<1> DEFINE e == Ends(c, 1, 0)
           T == {j \in Nat : j <= N /\ j >= k => e[j] = e[k]}
<1>0. N \in Nat /\ 1 \in Nat \ {0} BY MboxAssumption
<1>1. \A m \in 0..N : e[m] = IF m < 1 THEN 0 ELSE e[m - 1] + Length(m, c[m])
  BY <1>0, EndFollows
<1>2. \A m \in 0..N : e[m] \in Nat BY <1>0, EndsGrow
<1> HIDE DEF e
<1>3. 0 \in T
  <2>1. 0 >= k => k = 0 BY <1>0
  <2>. QED BY <2>1
<1>4. ASSUME NEW j \in T PROVE j + 1 \in T
  <2> SUFFICES ASSUME j + 1 <= N, j + 1 >= k PROVE e[j + 1] = e[k] OBVIOUS
  <2>1. j + 1 \in 0..N /\ j \in 0..N /\ j + 1 \in Msgs /\ ~(j + 1 < 1) /\ (j + 1) - 1 = j
    BY <1>0 DEF Msgs
  <2>2. CASE j + 1 = k BY <2>2
  <2>3. CASE j + 1 # k
    <3>1. e[j] = e[k] /\ j + 1 > k BY <1>0, <2>1, <2>3
    <3>2. Length(j + 1, c[j + 1]) = 0 BY <2>1, <3>1 DEF Length
    <3>3. e[j + 1] = e[j] + Length(j + 1, c[j + 1]) BY <1>1, <2>1
    <3>. QED BY <1>2, <2>1, <3>1, <3>2, <3>3
  <2>. QED BY <2>2, <2>3
<1>5. T = Nat
  <2>1. T \in SUBSET Nat OBVIOUS
  <2> HIDE DEF T
  <2>. QED BY <1>3, <1>4, <2>1, AllNat
<1>6. N \in T /\ N >= k BY <1>0, <1>5
<1>. QED BY <1>6 DEF e, WholeSize

-----------------------------------------------------------------------------
(* The inductive invariants *)

(* Whole messages do not overlap with what comes after them. *)
Apart(c, at) ==
  \A m, n \in Msgs :
    m < n /\ c[m] \in Full /\ c[n] # "none" => at[m] + Length(m, c[m]) <= at[n]

(* They end where the file does, at the latest. *)
Inside(f) == \A m \in Msgs : f.has[m] \in Full => f.at[m] + Length(m, f.has[m]) <= f.size

(* There is nothing in c but what has been delivered. *)
Known(c, n) == \A m \in Msgs : c[m] # "none" => m <= n

FileInv ==
  /\ path <= inodes
  /\ \A i \in Inode : i > inodes => file[i] = NoFile
  /\ \A i \in Inode :
       Known(file[i].has, delivered) /\ Apart(file[i].has, file[i].at) /\ Inside(file[i])

(* A view v with changed flags dt and deletions dl differs from what has     *)
(* been read, b, in changed flags of whole messages.                         *)
ViewOK(b, v, dt, dl) ==
  \A m \in Msgs :
    /\ m \in dt \cup dl => b[m] # "none"
    /\ v[m] = b[m] \/ (m \in dt /\ v[m] \in Full /\ b[m] \in Full)

(* A session that writes has the folder locked, and the file it writes is    *)
(* the folder or has been removed.                                           *)
PlaceOK(s) ==
  /\ pc[s] = "closed" => dirty[s] = {} /\ del[s] = {}
  /\ pc[s] # "closed" => fp[s] \in 1..inodes
  /\ pc[s] \in {"commit", "truncated"} <=> owner = s
  /\ owner = s => dirty[s] \cup del[s] # {} /\ (path = 0 \/ fp[s] = path)

SessionInv ==
  \A s \in Sessions :
    /\ PlaceOK(s) /\ Known(base[s], delivered)
    /\ ViewOK(base[s], view[s], dirty[s], del[s])

(* In the middle of a rewrite what is still in the file is as it was, and    *)
(* nothing before the first change has gone.                                 *)
RewriteOK(s) ==
  /\ del[s] \subseteq removed
  /\ Apart(base[s], file[fp[s]].at)
  /\ \A m \in Msgs :
       /\ file[fp[s]].has[m] \in Full => base[s][m] = file[fp[s]].has[m]
       /\ m < First(s) /\ base[s][m] \in Full => file[fp[s]].has[m] \in Full

RewriteInv == \A s \in Sessions : pc[s] = "truncated" => RewriteOK(s)

(* Message m is going to be written by s, whole. *)
Written(s, m) ==
  pc[s] = "truncated" /\ fp[s] = path /\ m \in InTemp(s) /\ Kept(s)[m] \in Full

(* NoMailLost, where what is in the folder is whole or is going to be. *)
MailInv ==
  \A m \in 1..delivered :
    \/ m \in removed \cup rescue \cup unlinked \cup clobbered
    \/ path # 0 /\ (file[path].has[m] \in Full \/ \E s \in Sessions : Written(s, m))

ShapeInv == MboxTypeOK /\ FileInv /\ SessionInv
LossInv == ShapeInv /\ RewriteInv /\ MailInv

(* Messages with contents c lie one after the other. *)
Lined(c, at) == \A m \in Msgs : c[m] # "none" => at[m] = Ends(c, 1, 0)[m - 1]
Exact(f) == f.has \in Whole /\ f.size = WholeSize(f.has) /\ Lined(f.has, f.at)

(* What has been read is a whole folder, and its size is known. *)
ReadOK(s) ==
  /\ pc[s] \in {"open", "grown", "commit"} => base[s] \in Whole /\ size[s] = WholeSize(base[s])
  /\ pc[s] = "commit" => base[s] = file[fp[s]].has
  /\ pc[s] = "truncated" => base[s] \in Whole /\ Lined(base[s], file[fp[s]].at)
  /\ pc[s] = "finish" => Kept(s) \in Whole /\ size[s] = WholeSize(Kept(s))

Rewriting == \E s \in Sessions : pc[s] = "truncated"
ExactInv ==
  torn = "no" => /\ path # 0 /\ ~Rewriting => Exact(file[path])
                 /\ \A s \in Sessions : ReadOK(s)

-----------------------------------------------------------------------------
(* What the operators return *)

Folder == [has : Contents, at : [Msgs -> Nat], size : Nat]

(* Sums and comparisons of what SMT must know to be numbers *)
LEMMA Numbers ==
  /\ N \in Nat /\ MaxInode \in Nat \ {0} /\ Msgs \subseteq Nat \ {0} /\ 0 \notin Inode
  /\ None \notin Sessions /\ Stale \notin Sessions /\ None # Stale
  /\ Inode \subseteq Nat
BY MboxAssumption DEF Msgs, Inode

(* The first message that is changed or deleted *)
LEMMA FirstIsFirst ==
  ASSUME MboxTypeOK, NEW s \in Sessions, dirty[s] \cup del[s] # {}
  PROVE  /\ First(s) \in dirty[s] \cup del[s] /\ First(s) \in Msgs
         /\ \A n \in dirty[s] \cup del[s] : First(s) <= n
<1>1. dirty[s] \cup del[s] \subseteq Msgs BY DEF MboxTypeOK
<1>2. dirty[s] \cup del[s] \in SUBSET Nat BY <1>1, Numbers
<1>3. \E m \in dirty[s] \cup del[s] : \A n \in dirty[s] \cup del[s] : m <= n BY <1>2, LeastNat
<1>4. First(s) \in dirty[s] \cup del[s] /\ \A n \in dirty[s] \cup del[s] : First(s) <= n
  BY <1>3 DEF First
<1>. QED BY <1>1, <1>4

LEMMA KeptType ==
  ASSUME MboxTypeOK, NEW s \in Sessions
  PROVE  Kept(s) \in Contents
BY DEF MboxTypeOK, Kept, Contents, Marks

(* The file as it is going to be *)
LEMMA RewrittenType ==
  ASSUME MboxTypeOK, NEW s \in Sessions, dirty[s] \cup del[s] # {}, fp[s] \in Inode
  PROVE  /\ Rewritten(s) \in Folder
         /\ Rewritten(s).has = Kept(s)
         /\ Rewritten(s).size = Ends(Kept(s), First(s), file[fp[s]].at[First(s)])[N]
         /\ \A m \in Msgs :
              Rewritten(s).at[m] =
                IF m < First(s) THEN file[fp[s]].at[m]
                ELSE Ends(Kept(s), First(s), file[fp[s]].at[First(s)])[m - 1]
<1>1. First(s) \in Msgs /\ First(s) \in Nat \ {0} BY FirstIsFirst, Numbers
<1>2. file[fp[s]].at \in [Msgs -> Nat] BY DEF MboxTypeOK
<1> DEFINE e == Ends(Kept(s), First(s), file[fp[s]].at[First(s)])
<1>3. \A m \in 0..N : e[m] \in Nat BY <1>1, <1>2, KeptType, EndsGrow
<1>4. N \in 0..N /\ \A m \in Msgs : m - 1 \in 0..N BY MboxAssumption DEF Msgs
<1>5. Rewritten(s) =
        [has |-> Kept(s),
         at |-> [m \in Msgs |-> IF m < First(s) THEN file[fp[s]].at[m] ELSE e[m - 1]],
         size |-> e[N]]
  BY DEF Rewritten
<1> HIDE DEF e
<1>. QED BY <1>2, <1>3, <1>4, <1>5, KeptType DEF e, Folder

(* What ftruncate() leaves *)
LEMMA CutType ==
  ASSUME NEW f \in Folder, NEW n \in Nat
  PROVE  /\ Cut(f, n) \in Folder /\ Cut(f, n).at = f.at /\ Cut(f, n).size = n
         /\ \A m \in Msgs :
              /\ Cut(f, n).has[m] # "none" => f.has[m] # "none"
              /\ Cut(f, n).has[m] \in Full => Cut(f, n).has[m] = f.has[m]
              /\ Cut(f, n).has[m] \in Full => f.at[m] + Length(m, f.has[m]) <= n
              /\ f.has[m] \in Full /\ f.at[m] + Length(m, f.has[m]) <= n => Cut(f, n).has[m] = f.has[m]
<1> DEFINE h == [m \in Msgs |-> IF f.has[m] = "none" \/ f.at[m] >= n THEN "none"
                                ELSE IF f.at[m] + Length(m, f.has[m]) > n THEN "partial" ELSE f.has[m]]
<1>1. h \in Contents BY DEF Folder, Contents, Marks
<1>2. Cut(f, n) = [f EXCEPT !.size = n, !.has = h] BY DEF Cut
<1>3. Cut(f, n) \in Folder /\ Cut(f, n).at = f.at /\ Cut(f, n).size = n /\ Cut(f, n).has = h
  <2> HIDE DEF h
  <2>. QED BY <1>1, <1>2 DEF Folder
<1>4. ASSUME NEW m \in Msgs
      PROVE  /\ h[m] # "none" => f.has[m] # "none"
             /\ h[m] \in Full => h[m] = f.has[m]
             /\ h[m] \in Full => f.at[m] + Length(m, f.has[m]) <= n
             /\ f.has[m] \in Full /\ f.at[m] + Length(m, f.has[m]) <= n => h[m] = f.has[m]
  <2>1. f.has[m] \in Marks /\ f.at[m] \in Nat BY DEF Folder, Contents
  <2>2. Length(m, f.has[m]) \in Nat /\ (Length(m, f.has[m]) = 0 <=> f.has[m] = "none")
    BY <2>1, Lengths
  <2> DEFINE l == Length(m, f.has[m])
  <2>3. h[m] = IF f.has[m] = "none" \/ f.at[m] >= n THEN "none"
               ELSE IF f.at[m] + l > n THEN "partial" ELSE f.has[m]
    OBVIOUS
  <2> HIDE DEF h, l
  <2>. QED BY <2>1, <2>2, <2>3 DEF Full, Marks, l
<1>. QED BY <1>3, <1>4

-----------------------------------------------------------------------------
(* The steps of a session by what they do *)

(* The mailbox is closed, one way or another. *)
Leaving(s) ==
  \/ Close(s) \/ Crash(s) \/ CheckGone(s) \/ SyncGone(s) \/ CommitGone(s) \/ TempFails(s)
  \/ WriteFails(s) \/ FinishGone(s) \/ (Finish(s) /\ why[s] = "close")
  \/ Unlink(s) \/ UnlinkEmpty(s)

Editing(s) == \E m \in Msgs : Mark(s, m) \/ Delete(s, m)

Reading(s) == Open(s) \/ CheckRead(s) \/ CheckSmaller(s) \/ SyncReads(s)

(* Nothing is read or written. *)
Passing(s) ==
  \/ CheckLarger(s) \/ CheckLocked(s) \/ SyncBails(s) \/ FinishEmpty(s)
  \/ \E w \in {"sync", "close"} : SyncCopies(s, w)

Refreshing(s) == Finish(s) /\ why[s] # "close"

LEMMA SessionSteps ==
  ASSUME NEW s, SessionNext(s)
  PROVE  \/ Leaving(s) \/ Editing(s) \/ Reading(s) \/ Passing(s) \/ Refreshing(s)
         \/ Truncate(s) \/ WriteOver(s) \/ Flush(s)
BY DEF SessionNext, Leaving, Editing, Reading, Passing, Refreshing

(* No other session notices. *)
Alone(s) ==
  \A t \in Sessions \ {s} :
    /\ pc'[t] = pc[t] /\ fp'[t] = fp[t] /\ base'[t] = base[t] /\ view'[t] = view[t]
    /\ dirty'[t] = dirty[t] /\ del'[t] = del[t] /\ size'[t] = size[t]

SessionTypes ==
  /\ pc \in [Sessions -> PCs] /\ why \in [Sessions -> {"sync", "close"}]
  /\ fp \in [Sessions -> 0..MaxInode]
  /\ base \in [Sessions -> Contents] /\ view \in [Sessions -> Contents]
  /\ dirty \in [Sessions -> SUBSET Msgs] /\ del \in [Sessions -> SUBSET Msgs]
  /\ size \in [Sessions -> Nat]

FolderTypes ==
  /\ path \in 0..MaxInode /\ inodes \in 0..MaxInode /\ file \in [Inode -> Folder]
  /\ owner \in Sessions \cup {None, Stale}

HistoryTypes ==
  /\ delivered \in 0..N /\ removed \subseteq Msgs /\ rescue \subseteq Msgs
  /\ unlinked \subseteq Msgs /\ clobbered \subseteq Msgs /\ torn \in {"no", "yes"}

LEMMA TypesApart == MboxTypeOK <=> SessionTypes /\ FolderTypes /\ HistoryTypes
BY DEF MboxTypeOK, SessionTypes, FolderTypes, HistoryTypes, Folder

(* Nothing of the folder but its lock changes, and nobody forgets anything. *)
FolderStays ==
  /\ file' = file /\ inodes' = inodes /\ delivered' = delivered /\ removed' = removed
  /\ clobbered' = clobbered

(* Closing leaves no trace of a session. *)
LEMMA Fastclosed ==
  ASSUME SessionTypes, NEW s \in Sessions, Fastclose(s)
  PROVE  /\ SessionTypes' /\ Alone(s) /\ pc'[s] = "closed"
         /\ base'[s] = Empty /\ view'[s] = Empty /\ dirty'[s] = {} /\ del'[s] = {}
<1>1. Empty \in Contents BY DEF Empty, Contents, Marks
<1>2. SessionTypes'
  <2>1. pc' \in [Sessions -> PCs] /\ why' \in [Sessions -> {"sync", "close"}]
    BY DEF SessionTypes, Fastclose, PCs
  <2>2. fp' \in [Sessions -> 0..MaxInode] /\ size' \in [Sessions -> Nat]
    BY MboxAssumption DEF SessionTypes, Fastclose
  <2>3. base' \in [Sessions -> Contents] /\ view' \in [Sessions -> Contents]
    <3> HIDE DEF Empty
    <3>. QED BY <1>1 DEF SessionTypes, Fastclose
  <2>4. dirty' \in [Sessions -> SUBSET Msgs] /\ del' \in [Sessions -> SUBSET Msgs]
    BY DEF SessionTypes, Fastclose
  <2>. QED BY <2>1, <2>2, <2>3, <2>4 DEF SessionTypes
<1>3. Alone(s) BY DEF SessionTypes, Fastclose, Alone
<1>. QED BY <1>2, <1>3 DEF SessionTypes, Fastclose

(* What happens to the folder when a session closes it *)
LEMMA LeavingDoes ==
  ASSUME ShapeInv, NEW s \in Sessions, Leaving(s)
  PROVE  /\ Fastclose(s) /\ FolderStays /\ path' \in {path, 0}
         /\ owner' = IF owner = s THEN owner' ELSE owner
         /\ owner' # s /\ owner' \in Sessions \cup {None, Stale}
<1>1. PlaceOK(s) /\ owner \in Sessions \cup {None, Stale} /\ Stale # s /\ None # s
  BY MboxAssumption DEF ShapeInv, SessionInv, MboxTypeOK
<1>2. CASE Close(s) \/ CheckGone(s) \/ SyncGone(s)
  BY <1>1, <1>2 DEF Close, CheckGone, SyncGone, HasChanges, FolderStays, folderVars, historyVars,
                    PlaceOK
<1>3. CASE Crash(s) BY <1>1, <1>3 DEF Crash, FolderStays
<1>4. CASE CommitGone(s) \/ TempFails(s) \/ WriteFails(s)
  BY <1>1, <1>4 DEF CommitGone, TempFails, WriteFails, Unlocked, FolderStays, historyVars, PlaceOK
<1>5. CASE FinishGone(s) \/ (Finish(s) /\ why[s] = "close")
  BY <1>1, <1>5 DEF FinishGone, Finish, FolderStays, folderVars, historyVars, PlaceOK
<1>6. CASE Unlink(s) \/ UnlinkEmpty(s)
  BY <1>1, <1>6 DEF Unlink, UnlinkEmpty, FolderStays, historyVars, PlaceOK
<1>. QED BY <1>2, <1>3, <1>4, <1>5, <1>6 DEF Leaving

(* What it leaves behind *)
LEMMA LeavingLeaves ==
  ASSUME ShapeInv, NEW s \in Sessions, Leaving(s)
  PROVE  /\ HistoryTypes' /\ rescue \subseteq rescue' /\ unlinked \subseteq unlinked'
         /\ torn' \in {torn, "yes"}
         /\ pc[s] = "truncated" => InTemp(s) \subseteq rescue' /\ torn' = "yes" /\ path' = path
         /\ path' # path => \/ owner = None /\ file[path].size = 0
                            \/ \A m \in Msgs : InFolder(m) => m \in unlinked'
<1>1. HistoryTypes /\ Saved(s) \subseteq Msgs /\ (pc[s] = "truncated" => Saved(s) = InTemp(s))
  BY TypesApart DEF ShapeInv, Saved, InTemp
<1>2. CASE Close(s) \/ CheckGone(s) \/ SyncGone(s)
  BY <1>1, <1>2 DEF Close, CheckGone, SyncGone, HasChanges, folderVars, historyVars, HistoryTypes
<1>3. CASE Crash(s)
  <2>1. pc[s] = "truncated" => owner = s BY DEF ShapeInv, SessionInv, PlaceOK
  <2>. QED BY <1>1, <1>3, <2>1 DEF Crash, HistoryTypes
<1>4. CASE CommitGone(s) \/ TempFails(s) \/ WriteFails(s)
  BY <1>1, <1>4 DEF CommitGone, TempFails, WriteFails, historyVars, HistoryTypes
<1>5. CASE FinishGone(s) \/ (Finish(s) /\ why[s] = "close")
  BY <1>1, <1>5 DEF FinishGone, Finish, folderVars, historyVars, HistoryTypes
<1>6. CASE Unlink(s) \/ UnlinkEmpty(s)
  BY <1>1, <1>6 DEF Unlink, UnlinkEmpty, historyVars, HistoryTypes
<1>. QED BY <1>2, <1>3, <1>4, <1>5, <1>6 DEF Leaving

(* The user's changes *)
LEMMA EditingDoes ==
  ASSUME ShapeInv, NEW s \in Sessions, Editing(s)
  PROVE  /\ SessionTypes' /\ Alone(s) /\ UNCHANGED <<folderVars, historyVars, pc, fp, base, size>>
         /\ pc[s] = "open" /\ ViewOK(base'[s], view'[s], dirty'[s], del'[s])
<1>1. PICK m \in Msgs : Mark(s, m) \/ Delete(s, m) BY DEF Editing
<1>2. SessionTypes /\ ViewOK(base[s], view[s], dirty[s], del[s])
  BY TypesApart DEF ShapeInv, SessionInv
<1>3. CASE Mark(s, m)
  <2>1. view' \in [Sessions -> Contents] /\ \A n \in Msgs : n # m => view'[s][n] = view[s][n]
    BY <1>2, <1>3 DEF Mark, SessionTypes, Contents, Marks
  <2>2. view'[s][m] \in Full BY <1>2, <1>3 DEF Mark, SessionTypes, Contents, Full
  <2>3. dirty' \in [Sessions -> SUBSET Msgs] /\ dirty'[s] = dirty[s] \cup {m} /\ del' = del
        /\ base' = base /\ pc[s] = "open" /\ view[s][m] \in Full
    BY <1>2, <1>3 DEF Mark, SessionTypes, Full
  <2>4. SessionTypes' BY <1>2, <1>3, <2>1, <2>3 DEF Mark, SessionTypes
  <2>5. Alone(s) BY <1>2, <1>3 DEF Mark, SessionTypes, Alone
  <2>6. ViewOK(base'[s], view'[s], dirty'[s], del'[s])
    BY <1>2, <2>1, <2>2, <2>3 DEF ViewOK, Full
  <2>. QED BY <1>3, <2>3, <2>4, <2>5, <2>6 DEF Mark
<1>4. CASE Delete(s, m)
  <2>1. del' \in [Sessions -> SUBSET Msgs] /\ del'[s] \subseteq del[s] \cup {m} /\ dirty' = dirty
        /\ base' = base /\ view' = view /\ view[s][m] # "none"
    BY <1>2, <1>4 DEF Delete, SessionTypes
  <2>2. SessionTypes' BY <1>2, <1>4, <2>1 DEF Delete, SessionTypes
  <2>3. Alone(s) BY <1>2, <1>4 DEF Delete, SessionTypes, Alone
  <2>4. ViewOK(base'[s], view'[s], dirty'[s], del'[s]) BY <1>2, <2>1 DEF ViewOK, Full
  <2>. QED BY <1>4, <2>2, <2>3, <2>4 DEF Delete
<1>. QED BY <1>1, <1>3, <1>4

(* What a session has read is in the file, and its user's changes are those  *)
(* of messages that are.                                                     *)
ReadWell(s) ==
  /\ base' \in [Sessions -> Contents] /\ view' \in [Sessions -> Contents]
  /\ dirty' \in [Sessions -> SUBSET Msgs] /\ del' \in [Sessions -> SUBSET Msgs]
  /\ size' \in [Sessions -> Nat]
  /\ \A t \in Sessions \ {s} :
       /\ base'[t] = base[t] /\ view'[t] = view[t] /\ dirty'[t] = dirty[t] /\ del'[t] = del[t]
       /\ size'[t] = size[t]
  /\ ViewOK(base'[s], view'[s], dirty'[s], del'[s])
  /\ \A n \in Nat : Known(base[s], n) /\ (\A i \in Inode : Known(file[i].has, n))
                      => Known(base'[s], n)

LEMMA ReopenReads ==
  ASSUME ShapeInv, NEW s \in Sessions, NEW i \in Inode, path # 0, Reopen(s, file[i])
  PROVE  /\ ReadWell(s) /\ base'[s] = file[i].has /\ size'[s] = file[path].size
         /\ \A m \in Msgs :
              (file[i].has[m] # "none" /\ (file[i].has[m] = "partial" <=> view[s][m] = "partial"))
              => (m \in dirty[s] => view'[s][m] = view[s][m]) /\ (m \in del[s] => m \in del'[s])
         /\ \A m \in Msgs : file[i].has[m] = "none" => view'[s][m] = "none"
<1> DEFINE c == file[i].has
           Found(m) == c[m] # "none" /\ (c[m] = "partial" <=> view[s][m] = "partial")
           v == [m \in Msgs |-> IF m \in dirty[s] /\ Found(m) THEN view[s][m] ELSE c[m]]
<1>1. SessionTypes /\ ViewOK(base[s], view[s], dirty[s], del[s]) /\ file \in [Inode -> Folder]
      /\ path \in Inode
  BY TypesApart DEF ShapeInv, SessionInv, FolderTypes, Inode
<1>2. c \in Contents /\ view[s] \in Contents /\ file[path].size \in Nat
  BY <1>1 DEF SessionTypes, Folder
<1>3. v \in Contents BY <1>2 DEF Contents
<1>4. /\ base' = [base EXCEPT ![s] = c] /\ view' = [view EXCEPT ![s] = v]
      /\ dirty' = [dirty EXCEPT ![s] = {m \in dirty[s] : v[m] # c[m]}]
      /\ del' = [del EXCEPT ![s] = {m \in del[s] : Found(m)}]
      /\ size' = [size EXCEPT ![s] = file[path].size]
  BY <1>1 DEF Reopen, SessionTypes
<1>5. \A m \in Msgs : v[m] = IF m \in dirty[s] /\ Found(m) THEN view[s][m] ELSE c[m] OBVIOUS
<1> HIDE DEF v, c
<1>6. /\ base'[s] = c /\ view'[s] = v /\ size'[s] = file[path].size
      /\ dirty'[s] = {m \in dirty[s] : v[m] # c[m]} /\ del'[s] = {m \in del[s] : Found(m)}
  BY <1>1, <1>4 DEF SessionTypes
<1>7. ViewOK(c, v, dirty'[s], del'[s])
  <2> SUFFICES ASSUME NEW m \in Msgs
               PROVE  /\ m \in dirty'[s] \cup del'[s] => c[m] # "none"
                      /\ v[m] = c[m] \/ (m \in dirty'[s] /\ v[m] \in Full /\ c[m] \in Full)
    BY DEF ViewOK
  <2>1. c[m] \in Marks /\ view[s][m] \in Marks BY <1>2 DEF Contents
  <2>2. m \in dirty[s] => view[s][m] # "none" BY <1>1 DEF ViewOK, Full
  <2>. QED BY <1>5, <1>6, <2>1, <2>2 DEF Marks, Full
<1>8. base' \in [Sessions -> Contents] /\ view' \in [Sessions -> Contents]
      /\ dirty' \in [Sessions -> SUBSET Msgs] /\ del' \in [Sessions -> SUBSET Msgs]
      /\ size' \in [Sessions -> Nat]
  BY <1>1, <1>2, <1>3, <1>4 DEF SessionTypes
<1>9. \A t \in Sessions \ {s} :
        /\ base'[t] = base[t] /\ view'[t] = view[t] /\ dirty'[t] = dirty[t] /\ del'[t] = del[t]
        /\ size'[t] = size[t]
  BY <1>1, <1>4 DEF SessionTypes
<1>10. ReadWell(s) BY <1>6, <1>7, <1>8, <1>9 DEF ReadWell, c
<1>11. base'[s] = file[i].has /\ size'[s] = file[path].size BY <1>6 DEF c
<1>12. \A m \in Msgs :
         (file[i].has[m] # "none" /\ (file[i].has[m] = "partial" <=> view[s][m] = "partial"))
           => (m \in dirty[s] => view'[s][m] = view[s][m]) /\ (m \in del[s] => m \in del'[s])
  BY <1>5, <1>6 DEF c
<1>13. \A m \in Msgs : file[i].has[m] = "none" => view'[s][m] = "none" BY <1>5, <1>6 DEF c
<1>. QED BY <1>10, <1>11, <1>12, <1>13

LEMMA ParseReads ==
  ASSUME ShapeInv, NEW s \in Sessions, NEW i \in Inode, NEW n \in Nat, ParseFrom(s, file[i], n)
  PROVE  /\ ReadWell(s) /\ size'[s] = file[i].size
         /\ dirty' = dirty /\ del' = del
         /\ \A m \in Msgs :
              /\ base'[s][m] = IF file[i].has[m] # "none" /\ file[i].at[m] >= n
                               THEN file[i].has[m] ELSE base[s][m]
              /\ view'[s][m] = IF file[i].has[m] # "none" /\ file[i].at[m] >= n
                               THEN file[i].has[m] ELSE view[s][m]
<1> DEFINE f == file[i]
           Added(c) == [m \in Msgs |-> IF f.has[m] # "none" /\ f.at[m] >= n THEN f.has[m] ELSE c[m]]
           b == Added(base[s])
           v == Added(view[s])
<1>1. SessionTypes /\ ViewOK(base[s], view[s], dirty[s], del[s]) /\ f \in Folder
  BY TypesApart DEF ShapeInv, SessionInv, FolderTypes
<1>2. f.has \in Contents /\ base[s] \in Contents /\ view[s] \in Contents /\ f.size \in Nat
  BY <1>1 DEF SessionTypes, Folder
<1>3. b \in Contents /\ v \in Contents BY <1>2 DEF Contents
<1>4. /\ base' = [base EXCEPT ![s] = b] /\ view' = [view EXCEPT ![s] = v]
      /\ size' = [size EXCEPT ![s] = f.size] /\ dirty' = dirty /\ del' = del
  BY <1>1 DEF ParseFrom, SessionTypes
<1>5. \A m \in Msgs :
        /\ b[m] = IF f.has[m] # "none" /\ f.at[m] >= n THEN f.has[m] ELSE base[s][m]
        /\ v[m] = IF f.has[m] # "none" /\ f.at[m] >= n THEN f.has[m] ELSE view[s][m]
  OBVIOUS
<1> HIDE DEF b, v, f
<1>6. base'[s] = b /\ view'[s] = v /\ size'[s] = f.size BY <1>1, <1>4 DEF SessionTypes
<1>7. ViewOK(b, v, dirty[s], del[s]) BY <1>1, <1>5 DEF ViewOK
<1>8. base' \in [Sessions -> Contents] /\ view' \in [Sessions -> Contents]
      /\ dirty' \in [Sessions -> SUBSET Msgs] /\ del' \in [Sessions -> SUBSET Msgs]
      /\ size' \in [Sessions -> Nat]
  BY <1>1, <1>2, <1>3, <1>4 DEF SessionTypes
<1>9. \A t \in Sessions \ {s} :
        /\ base'[t] = base[t] /\ view'[t] = view[t] /\ dirty'[t] = dirty[t] /\ del'[t] = del[t]
        /\ size'[t] = size[t]
  BY <1>1, <1>4 DEF SessionTypes
<1>10. ReadWell(s)
  <2>1. \A k \in Nat : Known(base[s], k) /\ (\A j \in Inode : Known(file[j].has, k))
                         => Known(b, k)
    BY <1>5 DEF Known, f
  <2>. QED BY <1>4, <1>6, <1>7, <1>8, <1>9, <2>1 DEF ReadWell
<1>. QED BY <1>4, <1>5, <1>6, <1>10 DEF f

(* Reading the folder changes nothing but what the session knows. *)
LEMMA ReadingDoes ==
  ASSUME ShapeInv, NEW s \in Sessions, Reading(s)
  PROVE  /\ SessionTypes' /\ Alone(s) /\ ReadWell(s) /\ pc'[s] = "open" /\ fp'[s] \in {fp[s], path}
         /\ path # 0 /\ pc[s] \in {"closed", "open", "grown"} /\ (pc[s] = "closed" => fp'[s] = path)
         /\ UNCHANGED <<folderVars, delivered, removed, rescue, unlinked, clobbered>>
         /\ torn' \in {torn, "yes"}
<1>1. SessionTypes /\ file \in [Inode -> Folder] /\ path \in 0..MaxInode
      /\ ViewOK(base[s], view[s], dirty[s], del[s]) /\ PlaceOK(s) /\ inodes \in 0..MaxInode
  BY TypesApart DEF ShapeInv, FolderTypes, SessionInv
<1>2. path # 0 => path \in Inode BY <1>1, Numbers DEF Inode
<1>3. CASE Open(s)
  <2> DEFINE c == file[path].has
  <2>1. path # 0 /\ Fresh(s, c) /\ size' = [size EXCEPT ![s] = file[path].size] BY <1>3 DEF Open
  <2>2. c \in Contents /\ file[path].size \in Nat BY <1>1, <1>2, <2>1 DEF Folder
  <2>3. base' \in [Sessions -> Contents] /\ view' \in [Sessions -> Contents]
        /\ dirty' \in [Sessions -> SUBSET Msgs] /\ del' \in [Sessions -> SUBSET Msgs]
        /\ size' \in [Sessions -> Nat]
    BY <1>1, <2>1, <2>2 DEF Fresh, SessionTypes
  <2>4. base'[s] = c /\ view'[s] = c /\ dirty'[s] = {} /\ del'[s] = {}
    BY <1>1, <2>1 DEF Fresh, SessionTypes
  <2>5. ReadWell(s)
    <3>1. ViewOK(base'[s], view'[s], dirty'[s], del'[s]) BY <2>4 DEF ViewOK
    <3>2. \A t \in Sessions \ {s} :
            /\ base'[t] = base[t] /\ view'[t] = view[t] /\ dirty'[t] = dirty[t] /\ del'[t] = del[t]
            /\ size'[t] = size[t]
      BY <1>1, <2>1 DEF Fresh, SessionTypes
    <3>. QED BY <1>2, <2>1, <2>3, <2>4, <3>1, <3>2 DEF ReadWell
  <2>6. pc' \in [Sessions -> PCs] /\ fp' \in [Sessions -> 0..MaxInode] /\ why' = why
        /\ pc'[s] = "open" /\ fp'[s] = path
    BY <1>1, <1>3 DEF Open, SessionTypes, PCs
  <2>7. Alone(s) BY <1>1, <1>3, <2>5 DEF Open, SessionTypes, Alone, ReadWell
  <2>8. SessionTypes' BY <1>1, <2>3, <2>6 DEF SessionTypes
  <2>. QED BY <1>3, <2>5, <2>6, <2>7, <2>8 DEF Open, historyVars
<1>4. CASE CheckRead(s) \/ SyncReads(s)
  <2>1. path # 0 /\ ReadChanges(s, file[path]) BY <1>4 DEF CheckRead, SyncReads
  <2>2. ReadWell(s)
    BY <1>1, <1>2, <2>1, ReopenReads, ParseReads DEF ReadChanges, SessionTypes
  <2>3. pc' \in [Sessions -> PCs] /\ fp' \in [Sessions -> 0..MaxInode] /\ why' = why
        /\ pc'[s] = "open" /\ fp'[s] \in {fp[s], path} /\ pc[s] \in {"open", "grown"}
        /\ \A t \in Sessions \ {s} : pc'[t] = pc[t] /\ fp'[t] = fp[t]
    BY <1>1, <1>4 DEF CheckRead, SyncReads, HasChanges, SessionTypes, PCs
  <2>4. Alone(s) BY <2>2, <2>3 DEF Alone, ReadWell
  <2>5. SessionTypes' BY <1>1, <2>2, <2>3 DEF SessionTypes, ReadWell
  <2>. QED BY <1>4, <2>1, <2>2, <2>3, <2>4, <2>5 DEF CheckRead, SyncReads, historyVars
<1>5. CASE CheckSmaller(s)
  <2>1. fp[s] \in Inode BY <1>1, <1>5, Numbers DEF CheckSmaller, PlaceOK, Inode
  <2>2. ReadWell(s) BY <1>5, <2>1, ReopenReads DEF CheckSmaller
  <2>3. Alone(s) BY <1>5, <2>2 DEF CheckSmaller, Alone, ReadWell
  <2>4. SessionTypes' BY <1>1, <1>5, <2>2 DEF CheckSmaller, SessionTypes, ReadWell
  <2>. QED BY <1>5, <2>2, <2>3, <2>4 DEF CheckSmaller
<1>. QED BY <1>3, <1>4, <1>5 DEF Reading

(* A session that neither reads nor writes *)
LEMMA PassingDoes ==
  ASSUME ShapeInv, NEW s \in Sessions, Passing(s)
  PROVE  /\ SessionTypes' /\ Alone(s)
         /\ UNCHANGED <<base, view, dirty, del, size, path, inodes, file, historyVars>>
         /\ pc[s] \in {"open", "grown", "finish"}
         /\ pc'[s] \in {"open", "grown", "commit", "unlink", "unlink_empty"}
         /\ pc'[s] \in {"open", "grown"} => pc[s] \in {"open", "grown"}
         /\ fp'[s] = fp[s] \/ (fp'[s] = path /\ path # 0)
         /\ IF pc'[s] = "commit"
            THEN /\ owner = None /\ owner' = s /\ path # 0 /\ fp'[s] = path
                 /\ size[s] = file[path].size /\ dirty[s] \cup del[s] # {} /\ pc[s] = "open"
            ELSE owner' = owner
<1>1. SessionTypes BY TypesApart DEF ShapeInv
<1>2. path \in 0..MaxInode BY TypesApart DEF ShapeInv, FolderTypes
<1>3. CASE CheckLarger(s) \/ CheckLocked(s)
  BY <1>1, <1>3 DEF CheckLarger, CheckLocked, SessionTypes, PCs, Alone, folderVars
<1>4. CASE SyncBails(s)
  BY <1>1, <1>2, <1>4 DEF SyncBails, HasChanges, SessionTypes, Alone, folderVars
<1>5. CASE FinishEmpty(s)
  BY <1>1, <1>5 DEF FinishEmpty, SessionTypes, PCs, Alone, folderVars
<1>6. CASE \E w \in {"sync", "close"} : SyncCopies(s, w)
  <2>1. PICK w \in {"sync", "close"} : SyncCopies(s, w) BY <1>6
  <2>2. SessionTypes' BY <1>1, <1>2, <2>1 DEF SyncCopies, SessionTypes, PCs
  <2>3. Alone(s) BY <1>1, <2>1 DEF SyncCopies, SessionTypes, Alone
  <2>4. pc'[s] = "commit" /\ fp'[s] = path BY <1>1, <2>1 DEF SyncCopies, SessionTypes
  <2>. QED BY <2>1, <2>2, <2>3, <2>4 DEF SyncCopies, HasChanges
<1>. QED BY <1>3, <1>4, <1>5, <1>6 DEF Passing


(* The mailbox stays open, with what has been written. *)
LEMMA RefreshingDoes ==
  ASSUME ShapeInv, NEW s \in Sessions, Refreshing(s)
  PROVE  /\ SessionTypes' /\ Alone(s) /\ UNCHANGED <<folderVars, historyVars, size>>
         /\ path # 0 /\ pc[s] = "finish" /\ pc'[s] = "open" /\ fp'[s] = path
         /\ base'[s] = Kept(s) /\ view'[s] = Kept(s) /\ dirty'[s] = {} /\ del'[s] = {}
<1>1. SessionTypes /\ path \in 0..MaxInode BY TypesApart DEF ShapeInv, FolderTypes
<1>2. Kept(s) \in Contents BY KeptType DEF ShapeInv
<1>3. /\ pc[s] = "finish" /\ path # 0
      /\ pc' = [pc EXCEPT ![s] = "open"] /\ fp' = [fp EXCEPT ![s] = path]
      /\ Fresh(s, Kept(s)) /\ UNCHANGED <<why, size, folderVars, historyVars>>
  BY DEF Refreshing, Finish
<1>4. SessionTypes' BY <1>1, <1>2, <1>3 DEF Fresh, SessionTypes, PCs
<1>5. Alone(s) BY <1>1, <1>3 DEF Fresh, SessionTypes, Alone
<1>. QED BY <1>1, <1>3, <1>4, <1>5 DEF Fresh, SessionTypes

(* A session that writes is alone with the folder. *)
LEMMA Writer ==
  ASSUME ShapeInv, NEW s \in Sessions, pc[s] \in {"commit", "truncated"}
  PROVE  /\ owner = s /\ dirty[s] \cup del[s] # {} /\ fp[s] \in Inode /\ fp[s] <= inodes
         /\ path = 0 \/ fp[s] = path
         /\ \A t \in Sessions \ {s} : pc[t] \notin {"commit", "truncated"}
<1>1. \A t \in Sessions : PlaceOK(t) BY DEF ShapeInv, SessionInv
<1>2. inodes \in 0..MaxInode BY TypesApart DEF ShapeInv, FolderTypes
<1>3. fp[s] \in 1..inodes BY <1>1 DEF PlaceOK
<1>. QED BY <1>1, <1>2, <1>3, Numbers DEF PlaceOK, Inode

(* ftruncate() *)
LEMMA TruncateDoes ==
  ASSUME ShapeInv, NEW s \in Sessions, Truncate(s)
  PROVE  /\ SessionTypes' /\ FolderTypes' /\ HistoryTypes' /\ Alone(s)
         /\ UNCHANGED <<fp, base, view, dirty, del, size, path, inodes, owner,
                        delivered, rescue, unlinked, clobbered, torn>>
         /\ pc[s] = "commit" /\ pc'[s] = "truncated" /\ fp[s] = path /\ path \in Inode
         /\ base[s] = file[path].has
         /\ Rewritten(s).size \in Nat /\ file[path] \in Folder
         /\ file'[path] = Cut(file[path], Rewritten(s).size)
         /\ \A i \in Inode \ {path} : file'[i] = file[i]
         /\ removed' = removed \cup del[s]
<1>1. SessionTypes /\ FolderTypes /\ HistoryTypes /\ MboxTypeOK BY TypesApart DEF ShapeInv
<1>2. pc[s] = "commit" /\ path # 0 /\ base[s] = file[fp[s]].has BY DEF Truncate
<1>3. fp[s] = path /\ path \in Inode /\ dirty[s] \cup del[s] # {} BY <1>2, Writer
<1>4. Rewritten(s).size \in Nat BY <1>1, <1>3, RewrittenType DEF Folder
<1>5. file[path] \in Folder BY <1>1, <1>3 DEF FolderTypes
<1>6. Cut(file[path], Rewritten(s).size) \in Folder BY <1>4, <1>5, CutType
<1>7. file' = [file EXCEPT ![path] = Cut(file[path], Rewritten(s).size)]
  BY <1>1, <1>3 DEF Truncate, FolderTypes
<1>8. FolderTypes' BY <1>1, <1>6, <1>7 DEF FolderTypes, Truncate
<1>9. SessionTypes' BY <1>1 DEF SessionTypes, Truncate, PCs
<1>10. HistoryTypes' BY <1>1 DEF SessionTypes, HistoryTypes, Truncate
<1>11. Alone(s) BY <1>1 DEF SessionTypes, Truncate, Alone
<1>12. file'[path] = Cut(file[path], Rewritten(s).size)
       /\ \A i \in Inode \ {path} : file'[i] = file[i]
  BY <1>1, <1>3, <1>7 DEF FolderTypes
<1>13. pc'[s] = "truncated" BY <1>1 DEF SessionTypes, Truncate
<1>. QED BY <1>2, <1>3, <1>4, <1>5, <1>8, <1>9, <1>10, <1>11, <1>12, <1>13 DEF Truncate

(* The file as a session leaves it that had read something else: what is     *)
(* left of it and what has been written do not overlap.                      *)
LEMMA OverwrittenIs ==
  ASSUME MboxTypeOK, NEW s \in Sessions, NEW f \in Folder, Apart(f.has, f.at), NEW k \in Msgs,
         NEW W \in SUBSET {m \in Msgs : f.has[m] \in Full /\ f.at[m] >= f.at[k]}
  PROVE  LET g == Overwritten(s, f, k, W)
         IN  /\ g \in Folder /\ Apart(g.has, g.at) /\ Inside(g)
             /\ \A m \in Msgs : g.has[m] # "none" => f.has[m] # "none"
<1> DEFINE c == [m \in Msgs |-> IF m \in W THEN Kept(s)[m] ELSE "none"]
           h == Cut(f, f.at[k]).has
           e == Ends(c, 1, f.at[k])
           g == Overwritten(s, f, k, W)
<1>1. /\ N \in Nat /\ 1 \in Nat \ {0} /\ N \in 0..N
      /\ \A m \in Msgs : m \in 0..N /\ m - 1 \in 0..N /\ m \in Nat /\ ~(m < 1)
  BY Numbers DEF Msgs
<1>2. f.at \in [Msgs -> Nat] /\ f.has \in Contents /\ f.at[k] \in Nat BY DEF Folder
<1>3. /\ h \in Contents
      /\ \A m \in Msgs :
           /\ h[m] # "none" => f.has[m] # "none" /\ f.at[m] < f.at[k]
           /\ h[m] \in Full => h[m] = f.has[m] /\ f.at[m] + Length(m, h[m]) <= f.at[k]
  <2>1. h = [m \in Msgs |-> IF f.has[m] = "none" \/ f.at[m] >= f.at[k] THEN "none"
                            ELSE IF f.at[m] + Length(m, f.has[m]) > f.at[k] THEN "partial"
                            ELSE f.has[m]]
    BY DEF Cut, Folder
  <2>2. h \in Contents BY <1>2, CutType DEF Folder
  <2>3. \A m \in Msgs : h[m] \in Full => h[m] = f.has[m] /\ f.at[m] + Length(m, f.has[m]) <= f.at[k]
    BY <1>2, CutType
  <2>4. \A m \in Msgs : h[m] # "none" => f.has[m] # "none" /\ ~(f.at[m] >= f.at[k]) BY <2>1
  <2> HIDE DEF h
  <2>5. \A m \in Msgs : f.at[m] \in Nat BY <1>2
  <2>. QED BY <1>2, <2>2, <2>3, <2>4, <2>5
<1>4. c \in Contents
  <2>1. Kept(s) \in Contents BY KeptType
  <2>. QED BY <2>1 DEF Contents, Marks
<1>5. /\ \A m \in 0..N : e[m] \in Nat
      /\ \A i, j \in 0..N : i <= j => e[i] <= e[j]
  <2> HIDE DEF c
  <2>. QED BY <1>1, <1>2, <1>4, EndsGrow
<1>6. \A m \in 0..N : e[m] = IF m < 1 THEN f.at[k] ELSE e[m - 1] + Length(m, c[m])
  BY <1>1, EndFollows
<1>7. g = [has |-> [m \in Msgs |-> IF m \in W THEN c[m] ELSE h[m]],
           at |-> [m \in Msgs |-> IF m \in W THEN e[m - 1] ELSE f.at[m]], size |-> e[N]]
  BY DEF Overwritten
<1>8. \A m \in Msgs : c[m] = IF m \in W THEN Kept(s)[m] ELSE "none" OBVIOUS
<1>a. \A m \in W : m \in Msgs /\ f.has[m] \in Full /\ f.at[m] >= f.at[k] OBVIOUS
<1> HIDE DEF c, h, e, g
<1>9. g \in Folder
  <2>1. [m \in Msgs |-> IF m \in W THEN c[m] ELSE h[m]] \in Contents BY <1>3, <1>4 DEF Contents
  <2>2. [m \in Msgs |-> IF m \in W THEN e[m - 1] ELSE f.at[m]] \in [Msgs -> Nat]
    BY <1>1, <1>2, <1>5
  <2>3. e[N] \in Nat BY <1>1, <1>5
  <2>. QED BY <1>7, <2>1, <2>2, <2>3 DEF Folder
<1>10. /\ g.size = e[N]
       /\ \A m \in Msgs : g.has[m] = (IF m \in W THEN c[m] ELSE h[m])
                          /\ g.at[m] = (IF m \in W THEN e[m - 1] ELSE f.at[m])
  BY <1>7
<1>11. \A j \in 0..N : f.at[k] <= e[j]
  <2>1. e[0] = f.at[k] /\ 0 \in 0..N BY <1>1, <1>6
  <2>. QED BY <1>5, <2>1
<1>12. \A m \in Msgs : Length(m, g.has[m]) \in Nat BY <1>9, Lengths DEF Folder, Contents
<1>13. \A m \in W : g.at[m] + Length(m, g.has[m]) = e[m] /\ g.at[m] = e[m - 1]
  BY <1>1, <1>6, <1>10, <1>a
<1>14. ASSUME NEW m \in Msgs \ W, g.has[m] \in Full PROVE g.at[m] + Length(m, g.has[m]) <= f.at[k]
  BY <1>3, <1>10, <1>14
<1>15. Apart(g.has, g.at)
  <2> SUFFICES ASSUME NEW m \in Msgs, NEW n \in Msgs, m < n, g.has[m] \in Full, g.has[n] # "none"
               PROVE  g.at[m] + Length(m, g.has[m]) <= g.at[n]
    BY DEF Apart
  <2>0. g.at[m] \in Nat /\ g.at[n] \in Nat /\ m <= n - 1 BY <1>1, <1>9 DEF Folder
  <2>1. CASE m \in W /\ n \in W
    <3>1. e[m] <= e[n - 1] BY <1>1, <1>5, <2>0
    <3>. QED BY <1>13, <2>1, <3>1
  <2>2. CASE m \notin W /\ n \in W
    <3>1. g.at[m] + Length(m, g.has[m]) <= f.at[k] BY <1>14, <2>2
    <3>2. f.at[k] <= e[n - 1] /\ g.at[n] = e[n - 1] BY <1>1, <1>11, <1>13, <2>2
    <3>. QED BY <1>2, <1>12, <2>0, <3>1, <3>2
  <2>3. CASE m \in W /\ n \notin W
    <3>1. f.has[n] # "none" /\ f.at[n] < f.at[k] BY <1>3, <1>10, <2>3
    <3>2. f.has[m] \in Full /\ f.at[m] >= f.at[k] BY <1>a, <2>3
    <3>3. f.at[m] + Length(m, f.has[m]) <= f.at[n] BY <3>1, <3>2 DEF Apart
    <3>4. Length(m, f.has[m]) \in Nat BY <1>2, Lengths DEF Contents
    <3>5. f.at[m] \in Nat /\ f.at[n] \in Nat BY <1>2
    <3>. QED BY <1>2, <3>1, <3>2, <3>3, <3>4, <3>5
  <2>4. CASE m \notin W /\ n \notin W
    <3>1. f.has[n] # "none" /\ g.at[n] = f.at[n] /\ g.at[m] = f.at[m] BY <1>3, <1>10, <2>4
    <3>2. g.has[m] = f.has[m] BY <1>3, <1>10, <2>4
    <3>3. f.at[m] + Length(m, f.has[m]) <= f.at[n] BY <3>1, <3>2 DEF Apart
    <3>. QED BY <3>1, <3>2, <3>3
  <2>. QED BY <2>1, <2>2, <2>3, <2>4
<1>16. Inside(g)
  <2> SUFFICES ASSUME NEW m \in Msgs, g.has[m] \in Full
               PROVE  g.at[m] + Length(m, g.has[m]) <= g.size
    BY DEF Inside
  <2>0. g.at[m] \in Nat BY <1>9 DEF Folder
  <2>1. CASE m \in W
    <3>1. e[m] <= e[N] BY <1>1, <1>5
    <3>. QED BY <1>10, <1>13, <2>1, <3>1
  <2>2. CASE m \notin W
    <3>1. g.at[m] + Length(m, g.has[m]) <= f.at[k] /\ f.at[k] <= e[N] /\ e[N] \in Nat
      BY <1>1, <1>5, <1>11, <1>14, <2>2
    <3>. QED BY <1>2, <1>10, <1>12, <2>0, <3>1
  <2>. QED BY <2>1, <2>2
<1>17. ASSUME NEW m \in Msgs, g.has[m] # "none" PROVE f.has[m] # "none"
  BY <1>3, <1>10, <1>17, <1>a DEF Full
<1>. QED BY <1>9, <1>15, <1>16, <1>17 DEF g

(* A write over what the session has not read *)
LEMMA WriteOverDoes ==
  ASSUME ShapeInv, NEW s \in Sessions, WriteOver(s)
  PROVE  /\ SessionTypes' /\ FolderTypes' /\ HistoryTypes' /\ Alone(s)
         /\ UNCHANGED <<fp, base, view, dirty, del, path, inodes, delivered, rescue, unlinked, torn>>
         /\ pc[s] = "commit" /\ base[s] # file[fp[s]].has
         /\ pc'[s] = "finish" /\ owner' \in {None, Stale} /\ fp[s] = path /\ path \in Inode
         /\ \A i \in Inode \ {path} : file'[i] = file[i]
         /\ Apart(file'[path].has, file'[path].at) /\ Inside(file'[path])
         /\ \A m \in Msgs : file'[path].has[m] # "none" => file[path].has[m] # "none"
         /\ \A m \in Msgs : file[path].has[m] \in Full => file'[path].has[m] \in Full \/ m \in clobbered'
         /\ removed \subseteq removed' /\ clobbered \subseteq clobbered'
<1>1. SessionTypes /\ FolderTypes /\ HistoryTypes /\ MboxTypeOK BY TypesApart DEF ShapeInv
<1>2. pc[s] = "commit" /\ path # 0 /\ base[s] # file[fp[s]].has BY DEF WriteOver
<1>3. fp[s] = path /\ path \in Inode BY <1>2, Writer
<1>4. file[path] \in Folder /\ Apart(file[path].has, file[path].at)
  BY <1>1, <1>3 DEF FolderTypes, ShapeInv, FileInv
<1> DEFINE f == file[path]
           whole == {m \in Msgs : f.has[m] \in Full}
<1> DEFINE Sub(k) == {m \in Msgs : f.has[m] \in Full /\ f.at[m] >= f.at[k]}
           Done(k, W) == /\ file' = [file EXCEPT ![path] = Overwritten(s, f, k, W)]
                         /\ size' = [size EXCEPT ![s] = Overwritten(s, f, k, W).size]
                         /\ clobbered' = clobbered
                              \cup {m \in whole : Overwritten(s, f, k, W).has[m] \notin Full}
<1>b. \E k \in Msgs : \E W \in SUBSET Sub(k) : Done(k, W)
  BY <1>3 DEF WriteOver, InTemp, Full
<1>c. PICK k \in Msgs : \E W \in SUBSET Sub(k) : Done(k, W) BY <1>b
<1>5. PICK W \in SUBSET Sub(k) : Done(k, W) BY <1>c
<1> DEFINE g == Overwritten(s, f, k, W)
<1>6. /\ g \in Folder /\ Apart(g.has, g.at) /\ Inside(g)
      /\ \A m \in Msgs : g.has[m] # "none" => f.has[m] # "none"
  <2> HIDE DEF f
  <2>. QED BY <1>1, <1>4, OverwrittenIs DEF f
<1>7. whole \subseteq Msgs OBVIOUS
<1>8. /\ file' = [file EXCEPT ![path] = g] /\ size' = [size EXCEPT ![s] = g.size]
      /\ clobbered' = clobbered \cup {m \in whole : g.has[m] \notin Full}
  BY <1>5
<1>9. \A m \in Msgs : f.has[m] \in Full => m \in whole OBVIOUS
<1> HIDE DEF f, g, whole
<1>10. owner' \in {None, Stale} BY DEF WriteOver, Unlocked
<1>11. FolderTypes' BY <1>1, <1>6, <1>8, <1>10 DEF FolderTypes, WriteOver
<1>12. g.size \in Nat BY <1>6 DEF Folder
<1>13. SessionTypes' BY <1>1, <1>8, <1>12 DEF SessionTypes, WriteOver, PCs
<1>14. HistoryTypes' BY <1>1, <1>7, <1>8 DEF SessionTypes, HistoryTypes, WriteOver
<1>15. Alone(s) BY <1>1, <1>8 DEF SessionTypes, WriteOver, Alone
<1>16. file'[path] = g /\ \A i \in Inode \ {path} : file'[i] = file[i]
  BY <1>1, <1>3, <1>8 DEF FolderTypes
<1>17. pc'[s] = "finish" BY <1>1 DEF SessionTypes, WriteOver
<1>18. removed \subseteq removed' BY DEF WriteOver
<1>19. \A m \in Msgs : f.has[m] \in Full => g.has[m] \in Full \/ m \in clobbered' BY <1>8, <1>9
<1>20. UNCHANGED <<fp, base, view, dirty, del, path, inodes, delivered, rescue, unlinked, torn>>
  BY DEF WriteOver
<1>. QED BY <1>2, <1>3, <1>6, <1>8, <1>10, <1>11, <1>13, <1>14, <1>15, <1>16, <1>17, <1>18, <1>19,
            <1>20 DEF f

(* The flush of the buffer *)
LEMMA FlushDoes ==
  ASSUME ShapeInv, NEW s \in Sessions, Flush(s)
  PROVE  /\ SessionTypes' /\ FolderTypes' /\ HistoryTypes' /\ Alone(s)
         /\ UNCHANGED <<fp, base, view, dirty, del, path, inodes, historyVars>>
         /\ pc[s] = "truncated" /\ pc'[s] = "finish" /\ owner' \in {None, Stale}
         /\ fp[s] \in Inode
         /\ file'[fp[s]] = Rewritten(s) /\ size'[s] = Rewritten(s).size
         /\ \A i \in Inode \ {fp[s]} : file'[i] = file[i]
<1>1. SessionTypes /\ FolderTypes /\ HistoryTypes /\ MboxTypeOK BY TypesApart DEF ShapeInv
<1>2. pc[s] = "truncated" BY DEF Flush
<1>3. fp[s] \in Inode /\ dirty[s] \cup del[s] # {} BY <1>2, Writer
<1>4. Rewritten(s) \in Folder BY <1>1, <1>3, RewrittenType
<1>5. Rewritten(s).size \in Nat BY <1>4 DEF Folder
<1>6. owner' \in {None, Stale} BY DEF Flush, Unlocked
<1>7. FolderTypes' BY <1>1, <1>4, <1>6 DEF FolderTypes, Flush
<1>8. SessionTypes' BY <1>1, <1>5 DEF SessionTypes, Flush, PCs
<1>9. HistoryTypes' BY <1>1 DEF HistoryTypes, Flush, historyVars
<1>10. Alone(s) BY <1>1 DEF SessionTypes, Flush, Alone
<1>11. file'[fp[s]] = Rewritten(s) /\ \A i \in Inode \ {fp[s]} : file'[i] = file[i]
  BY <1>1, <1>3 DEF FolderTypes, Flush
<1>12. size'[s] = Rewritten(s).size /\ pc'[s] = "finish" BY <1>1 DEF SessionTypes, Flush
<1>. QED BY <1>2, <1>3, <1>6, <1>7, <1>8, <1>9, <1>10, <1>11, <1>12 DEF Flush

(* The file new mail is appended to, and what it is then *)
Target == IF path = 0 THEN inodes + 1 ELSE path
Longer(f, m) == [has |-> [f.has EXCEPT ![m] = "plain"], at |-> [f.at EXCEPT ![m] = f.size],
                 size |-> f.size + Length(m, "plain")]

LEMMA DeliverDoes ==
  ASSUME ShapeInv, Deliver
  PROVE  /\ FolderTypes' /\ HistoryTypes' /\ owner = None
         /\ UNCHANGED <<sessionVars, owner, removed, rescue, unlinked, clobbered, torn>>
         /\ delivered + 1 \in Msgs /\ delivered' = delivered + 1
         /\ Target \in Inode /\ path' = Target /\ path' <= inodes' /\ inodes <= inodes'
         /\ file[Target] \in Folder
         /\ file'[Target] = Longer(file[Target], delivered + 1)
         /\ file'[Target] \in Folder
         /\ \A i \in Inode \ {Target} : file'[i] = file[i]
         /\ \A i \in Inode : i > inodes' => i > inodes /\ i # Target
         /\ path = 0 => file[Target] = NoFile
<1>1. FolderTypes /\ HistoryTypes BY TypesApart DEF ShapeInv
<1>2. delivered + 1 \in Msgs BY <1>1, Numbers DEF Deliver, HistoryTypes, Msgs
<1>3. path \in Nat /\ inodes \in Nat /\ path <= inodes /\ inodes <= MaxInode
      /\ \A i \in Inode : i > inodes => file[i] = NoFile
  BY <1>1, Numbers DEF ShapeInv, FileInv, FolderTypes
<1>4. Target \in Inode BY <1>3, Numbers DEF Deliver, Target, Inode
<1>5. file' = [file EXCEPT ![Target] = Longer(file[Target], delivered + 1)]
  BY <1>1, <1>4 DEF Deliver, Longer, Target, FolderTypes
<1>6. file[Target] \in Folder BY <1>1, <1>4 DEF FolderTypes
<1>7. Longer(file[Target], delivered + 1) \in Folder
  <2>1. Length(delivered + 1, "plain") \in Nat BY <1>2, Lengths DEF Marks
  <2>. QED BY <1>2, <1>6, <2>1 DEF Folder, Longer, Contents, Marks
<1>8. /\ file'[Target] = Longer(file[Target], delivered + 1)
      /\ \A i \in Inode \ {Target} : file'[i] = file[i]
  BY <1>1, <1>4, <1>5 DEF FolderTypes
<1>9. /\ path' = Target /\ inodes' = IF path = 0 THEN inodes + 1 ELSE inodes
      /\ delivered' = delivered + 1 /\ owner = None
      /\ UNCHANGED <<sessionVars, owner, removed, rescue, unlinked, clobbered, torn>>
  BY DEF Deliver, Target
<1>10. path' <= inodes' /\ inodes <= inodes' /\ inodes' <= MaxInode /\ inodes' \in Nat
  BY <1>3, <1>4, <1>9, Numbers DEF Target, Inode
<1>11. FolderTypes'
  <2>1. file' \in [Inode -> Folder] BY <1>1, <1>5, <1>7 DEF FolderTypes
  <2>2. path' \in 0..MaxInode BY <1>4, <1>9, Numbers DEF Inode
  <2>3. inodes' \in 0..MaxInode BY <1>10, Numbers
  <2>. QED BY <1>1, <1>9, <2>1, <2>2, <2>3 DEF FolderTypes
<1>12. HistoryTypes' BY <1>1, <1>2, <1>9, Numbers DEF HistoryTypes, Msgs
<1>13. \A i \in Inode : i > inodes' => i > inodes /\ i # Target
  BY <1>3, <1>9, <1>10, Numbers DEF Target
<1>14. path = 0 => file[Target] = NoFile BY <1>3, <1>4, Numbers DEF Target
<1>. QED BY <1>2, <1>4, <1>6, <1>7, <1>8, <1>9, <1>10, <1>11, <1>12, <1>13, <1>14


-----------------------------------------------------------------------------
(* What a rewritten file is like *)

(* Nothing before the first change differs, or reaches beyond where it is.   *)
LEMMA BeforeFirst ==
  ASSUME MboxTypeOK, NEW s \in Sessions, dirty[s] \cup del[s] # {}, fp[s] \in Inode,
         ViewOK(base[s], view[s], dirty[s], del[s]), Apart(base[s], file[fp[s]].at)
  PROVE  /\ First(s) \in Msgs /\ base[s][First(s)] # "none"
         /\ \A m \in Msgs : m < First(s) => Kept(s)[m] = base[s][m]
         /\ \A m \in Msgs : m < First(s) /\ base[s][m] \in Full =>
              file[fp[s]].at[m] + Length(m, base[s][m]) <= file[fp[s]].at[First(s)]
<1>1. First(s) \in Msgs /\ First(s) \in dirty[s] \cup del[s]
      /\ \A n \in dirty[s] \cup del[s] : First(s) <= n
  BY FirstIsFirst
<1>2. base[s][First(s)] # "none" BY <1>1 DEF ViewOK
<1>3. ASSUME NEW m \in Msgs, m < First(s) PROVE Kept(s)[m] = base[s][m]
  <2>1. First(s) \in Nat /\ m \in Nat BY <1>1, Numbers
  <2>2. m \notin dirty[s] \cup del[s]
    BY <1>1, <1>3, <2>1
  <2>. QED BY <2>2 DEF Kept, ViewOK
<1>. QED BY <1>1, <1>2, <1>3 DEF Apart

(* Kept messages are whole, or were not when they were read. *)
LEMMA KeptIs ==
  ASSUME NEW s \in Sessions, ViewOK(base[s], view[s], dirty[s], del[s]), NEW m \in Msgs
  PROVE  /\ Kept(s)[m] # "none" => base[s][m] # "none"
         /\ Kept(s)[m] = "none" \/ Kept(s)[m] = base[s][m] \/ (m \in dirty[s] /\ Kept(s)[m] = view[s][m])
         /\ base[s][m] \in Full => Kept(s)[m] \in Full \/ m \in del[s]
         /\ Kept(s)[m] \in Full \/ Kept(s)[m] = "none" \/ Kept(s)[m] = base[s][m]
BY DEF Kept, ViewOK, Full

LEMMA RewrittenApart ==
  ASSUME MboxTypeOK, NEW s \in Sessions, dirty[s] \cup del[s] # {}, fp[s] \in Inode,
         ViewOK(base[s], view[s], dirty[s], del[s]), Apart(base[s], file[fp[s]].at)
  PROVE  /\ Apart(Rewritten(s).has, Rewritten(s).at) /\ Inside(Rewritten(s))
         /\ file[fp[s]].at[First(s)] <= Rewritten(s).size
<1> DEFINE k == Kept(s)
           p == First(s)
           at == file[fp[s]].at
           e == Ends(k, p, at[p])
           r == Rewritten(s)
<1>1. p \in Msgs /\ p \in Nat \ {0} BY FirstIsFirst, Numbers
<1>2. k \in Contents /\ at \in [Msgs -> Nat] BY KeptType DEF MboxTypeOK
<1>3. /\ \A m \in Msgs : m < p => k[m] = base[s][m]
      /\ \A m \in Msgs : m < p /\ base[s][m] \in Full => at[m] + Length(m, base[s][m]) <= at[p]
  BY BeforeFirst
<1>4. /\ \A m \in 0..N : e[m] \in Nat
      /\ \A i, j \in 0..N : i <= j => e[i] <= e[j]
  BY <1>1, <1>2, EndsGrow
<1>5. \A m \in 0..N : e[m] = IF m < p THEN at[p] ELSE e[m - 1] + Length(m, k[m])
  BY <1>1, EndFollows
<1>6. /\ r.has = k /\ r.size = e[N]
      /\ \A m \in Msgs : r.at[m] = IF m < p THEN at[m] ELSE e[m - 1]
  BY RewrittenType
<1>7. \A m \in Msgs : Length(m, k[m]) \in Nat BY <1>2, Lengths DEF Contents
<1>a. Apart(base[s], at) OBVIOUS
<1>8. \A m \in Msgs : m \in 0..N /\ m - 1 \in 0..N /\ m \in Nat BY Numbers DEF Msgs
<1>9. N \in 0..N /\ e[p - 1] = at[p] BY <1>1, <1>5, <1>8, Numbers
<1> HIDE DEF k, p, at, e, r
<1>10. ASSUME NEW m \in Msgs, k[m] \in Full
       PROVE  IF m < p THEN r.at[m] + Length(m, k[m]) <= at[p]
              ELSE r.at[m] + Length(m, k[m]) = e[m]
  BY <1>3, <1>5, <1>6, <1>8, <1>10
<1>11. ASSUME NEW m \in Msgs, NEW n \in Msgs, m < n, k[m] \in Full, k[n] # "none"
       PROVE  r.at[m] + Length(m, k[m]) <= r.at[n]
  <2>1. CASE n < p
    <3>1. m < p BY <1>1, <1>8, <1>11, <2>1
    <3>2. k[m] = base[s][m] /\ k[n] = base[s][n] BY <1>3, <2>1, <3>1
    <3>3. at[m] + Length(m, base[s][m]) <= at[n] BY <1>a, <1>11, <3>2 DEF Apart
    <3>. QED BY <1>6, <2>1, <3>1, <3>2, <3>3
  <2>2. CASE ~(n < p) /\ m < p
    <3>1. r.at[n] = e[n - 1] /\ p - 1 <= n - 1 /\ p - 1 \in 0..N BY <1>1, <1>6, <1>8, <2>2
    <3>2. at[p] <= e[n - 1] BY <1>4, <1>8, <1>9, <3>1
    <3>3. r.at[m] + Length(m, k[m]) <= at[p] /\ r.at[m] \in Nat
      BY <1>2, <1>6, <1>10, <1>11, <2>2
    <3>. QED BY <1>1, <1>2, <1>4, <1>7, <1>8, <3>1, <3>2, <3>3
  <2>3. CASE ~(n < p) /\ ~(m < p)
    <3>1. r.at[n] = e[n - 1] /\ m <= n - 1 BY <1>6, <1>8, <1>11, <2>3
    <3>2. r.at[m] + Length(m, k[m]) = e[m] BY <1>10, <1>11, <2>3
    <3>. QED BY <1>4, <1>8, <3>1, <3>2
  <2>4. n < p => m < p BY <1>1, <1>8, <1>11
  <2>. QED BY <2>1, <2>2, <2>3
<1>12. at[p] <= e[N] BY <1>1, <1>4, <1>8, <1>9, Numbers DEF Msgs
<1>13. ASSUME NEW m \in Msgs, k[m] \in Full PROVE r.at[m] + Length(m, k[m]) <= e[N]
  <2>1. CASE m < p
    <3>1. r.at[m] \in Nat BY <1>2, <1>6, <2>1
    <3>. QED BY <1>1, <1>2, <1>4, <1>7, <1>9, <1>10, <1>12, <1>13, <2>1, <3>1
  <2>2. CASE ~(m < p) BY <1>4, <1>8, <1>9, <1>10, <1>13, <2>2, Numbers DEF Msgs
  <2>. QED BY <2>1, <2>2
<1>14. Apart(r.has, r.at) BY <1>6, <1>11 DEF Apart
<1>15. Inside(r) BY <1>6, <1>13 DEF Inside
<1>. QED BY <1>6, <1>12, <1>14, <1>15 DEF r, at, p

(* What a session will write depends on nothing else. *)
LEMMA SameTemp ==
  ASSUME NEW t \in Sessions, view'[t] = view[t], dirty'[t] = dirty[t], del'[t] = del[t]
  PROVE  Kept(t)' = Kept(t) /\ First(t)' = First(t) /\ InTemp(t)' = InTemp(t)
BY DEF Kept, First, InTemp

-----------------------------------------------------------------------------
(* Steps that leave the files alone *)

(* The step of session s of which others notice at most the lock it takes or *)
(* gives back, or that the folder is gone.                                   *)
Quiet(s) ==
  /\ Alone(s) /\ FolderStays /\ path' \in {path, 0}
  /\ owner' = owner \/ (owner \in {None, Stale, s} /\ owner' \in {None, Stale, s})
  /\ pc'[s] # "truncated"

LEMMA QuietKeeps ==
  ASSUME ShapeInv, RewriteInv, NEW s \in Sessions, Quiet(s),
         PlaceOK(s)', Known(base'[s], delivered), ViewOK(base'[s], view'[s], dirty'[s], del'[s])
  PROVE  FileInv' /\ SessionInv' /\ RewriteInv'
<1>1. FileInv'
  <2>1. path' <= inodes' BY Numbers DEF ShapeInv, FileInv, Quiet, FolderStays, MboxTypeOK
  <2>2. file' = file /\ inodes' = inodes /\ delivered' = delivered BY DEF Quiet, FolderStays
  <2>. QED BY <2>1, <2>2 DEF ShapeInv, FileInv
<1>2. ASSUME NEW t \in Sessions
      PROVE  PlaceOK(t)' /\ Known(base'[t], delivered') /\ ViewOK(base'[t], view'[t], dirty'[t], del'[t])
  <2>1. CASE t = s BY <2>1 DEF Quiet, FolderStays
  <2>2. CASE t # s
    <3>1. owner' = t <=> owner = t BY <2>2, Numbers DEF Quiet
    <3>. QED BY <2>2, <3>1 DEF Quiet, Alone, FolderStays, ShapeInv, SessionInv, PlaceOK
  <2>. QED BY <2>1, <2>2
<1>3. ASSUME NEW t \in Sessions, pc'[t] = "truncated" PROVE RewriteOK(t)'
  <2>1. t # s /\ pc[t] = "truncated" BY <1>3 DEF Quiet, Alone
  <2>2. RewriteOK(t) BY <2>1 DEF RewriteInv
  <2>3. First(t)' = First(t) BY <2>1, SameTemp DEF Quiet, Alone
  <2>. QED BY <2>1, <2>2, <2>3 DEF RewriteOK, Quiet, Alone, FolderStays
<1>. QED BY <1>1, <1>2, <1>3 DEF SessionInv, RewriteInv

(* What is going to be written stays so, unless its writer moves. *)
LEMMA WrittenStays ==
  ASSUME NEW s \in Sessions, Alone(s), path' = path, NEW t \in Sessions \ {s}, NEW m, Written(t, m)
  PROVE  Written(t, m)'
<1>1. Kept(t)' = Kept(t) /\ InTemp(t)' = InTemp(t) BY SameTemp DEF Alone
<1>. QED BY <1>1 DEF Alone, Written

LEMMA QuietLosesNothing ==
  ASSUME ShapeInv, MailInv, NEW s \in Sessions, Quiet(s), path' = path, pc[s] # "truncated",
         rescue \subseteq rescue', unlinked \subseteq unlinked'
  PROVE  MailInv'
<1> SUFFICES ASSUME NEW m \in 1..delivered',
                    ~(m \in removed' \cup rescue' \cup unlinked' \cup clobbered')
             PROVE  path' # 0 /\ (file'[path'].has[m] \in Full \/ \E t \in Sessions : Written(t, m)')
  BY DEF MailInv
<1>1. m \in 1..delivered /\ file' = file /\ removed' = removed /\ clobbered' = clobbered
  BY DEF Quiet, FolderStays
<1>2. path # 0 /\ (file[path].has[m] \in Full \/ \E t \in Sessions : Written(t, m))
  BY <1>1 DEF MailInv
<1>3. ASSUME NEW t \in Sessions, Written(t, m) PROVE Written(t, m)'
  <2>1. t # s BY <1>3 DEF Written
  <2>. QED BY <1>3, <2>1, WrittenStays DEF Quiet
<1>. QED BY <1>1, <1>2, <1>3

(* Closing the mailbox in the middle of a rewrite leaves the temporary file, *)
(* and removing the folder an account of what was in it.                     *)
LEMMA LeavingLosesNothing ==
  ASSUME ShapeInv, MailInv, NEW s \in Sessions, Leaving(s)
  PROVE  MailInv'
<1> SUFFICES ASSUME NEW m \in 1..delivered',
                    ~(m \in removed' \cup rescue' \cup unlinked' \cup clobbered')
             PROVE  path' # 0 /\ (file'[path'].has[m] \in Full \/ \E t \in Sessions : Written(t, m)')
  BY DEF MailInv
<1>1. /\ Fastclose(s) /\ file' = file /\ delivered' = delivered /\ removed' = removed
      /\ clobbered' = clobbered /\ path' \in {path, 0}
  BY LeavingDoes DEF FolderStays
<1>2. /\ rescue \subseteq rescue' /\ unlinked \subseteq unlinked'
      /\ pc[s] = "truncated" => InTemp(s) \subseteq rescue' /\ path' = path
      /\ path' # path => \/ owner = None /\ file[path].size = 0
                         \/ \A n \in Msgs : InFolder(n) => n \in unlinked'
  BY LeavingLeaves
<1>3. Alone(s) BY <1>1, TypesApart, Fastclosed DEF ShapeInv
<1>4. path # 0 /\ (file[path].has[m] \in Full \/ \E t \in Sessions : Written(t, m))
  BY <1>1, <1>2 DEF MailInv
<1>5. m \in Msgs BY <1>1, TypesApart, Numbers DEF ShapeInv, HistoryTypes, Msgs
<1>6. path' = path
  <2>1. InFolder(m) BY <1>4 DEF InFolder, Full, Written
  <2>2. SUFFICES ASSUME path' # path, owner = None, file[path].size = 0 PROVE FALSE
    BY <1>2, <1>5, <2>1
  <2>3. \A t \in Sessions : ~Written(t, m)
    BY <2>2, Numbers DEF Written, ShapeInv, SessionInv, PlaceOK
  <2>4. path \in Inode /\ file[path].has[m] \in Full
    BY <1>4, <2>3, TypesApart, Numbers DEF ShapeInv, FolderTypes, Inode
  <2>5. file[path].at[m] + Length(m, file[path].has[m]) <= 0
    BY <1>5, <2>2, <2>4 DEF ShapeInv, FileInv, Inside
  <2>6. file[path].at[m] \in Nat BY <1>5, <2>4 DEF ShapeInv, MboxTypeOK
  <2>7. Length(m, file[path].has[m]) \in Nat /\ Length(m, file[path].has[m]) # 0
    <3>1. file[path].has[m] \in Marks /\ file[path].has[m] # "none" BY <2>4 DEF Full, Marks
    <3>. QED BY <1>5, <3>1, Lengths
  <2>. QED BY <2>5, <2>6, <2>7
<1>7. ASSUME NEW t \in Sessions, Written(t, m) PROVE Written(t, m)'
  <2>1. t # s BY <1>2, <1>7 DEF Written
  <2>. QED BY <1>3, <1>6, <1>7, <2>1, WrittenStays
<1>. QED BY <1>1, <1>4, <1>6, <1>7


-----------------------------------------------------------------------------
(* Steps that change a file *)

(* ftruncate() takes away what the session is going to write, no more.       *)
LEMMA TruncateKeeps ==
  ASSUME LossInv, NEW s \in Sessions, Truncate(s)
  PROVE  LossInv'
<1> DEFINE f == file[path]
           g == Cut(f, Rewritten(s).size)
<1>1. /\ MboxTypeOK /\ FileInv /\ SessionInv /\ RewriteInv /\ MailInv /\ ShapeInv
  BY DEF LossInv, ShapeInv
<1>2. /\ SessionTypes' /\ FolderTypes' /\ HistoryTypes' /\ Alone(s)
      /\ UNCHANGED <<fp, base, view, dirty, del, size, path, inodes, owner,
                     delivered, rescue, unlinked, clobbered, torn>>
      /\ pc[s] = "commit" /\ pc'[s] = "truncated" /\ fp[s] = path /\ path \in Inode
      /\ base[s] = f.has
      /\ Rewritten(s).size \in Nat /\ f \in Folder
      /\ file'[path] = g
      /\ \A i \in Inode \ {path} : file'[i] = file[i]
      /\ removed' = removed \cup del[s]
  BY <1>1, TruncateDoes
<1>3. /\ g.at = f.at /\ g.size = Rewritten(s).size
      /\ \A m \in Msgs :
           /\ g.has[m] # "none" => f.has[m] # "none"
           /\ g.has[m] \in Full => g.has[m] = f.has[m]
           /\ g.has[m] \in Full => f.at[m] + Length(m, f.has[m]) <= Rewritten(s).size
           /\ f.has[m] \in Full /\ f.at[m] + Length(m, f.has[m]) <= Rewritten(s).size
                => g.has[m] = f.has[m]
  BY <1>2, CutType
<1>4. owner = s /\ dirty[s] \cup del[s] # {} /\ path # 0 /\ path <= inodes
      /\ \A t \in Sessions \ {s} : pc[t] \notin {"commit", "truncated"}
  BY <1>1, <1>2, Writer, Numbers
<1>5. Known(f.has, delivered) /\ Apart(f.has, f.at) /\ Inside(f)
      /\ \A i \in Inode : i > inodes => file[i] = NoFile
  BY <1>1, <1>2 DEF FileInv
<1>a. \A i \in Inode : Known(file[i].has, delivered) /\ Apart(file[i].has, file[i].at) /\ Inside(file[i])
  BY <1>1 DEF FileInv
<1>6. Known(g.has, delivered) /\ Apart(g.has, g.at) /\ Inside(g)
  <2> HIDE DEF f, g
  <2>1. Known(g.has, delivered) BY <1>3, <1>5 DEF Known
  <2>2. Apart(g.has, g.at)
    <3> SUFFICES ASSUME NEW m \in Msgs, NEW n \in Msgs, m < n, g.has[m] \in Full, g.has[n] # "none"
                 PROVE  g.at[m] + Length(m, g.has[m]) <= g.at[n]
      BY DEF Apart
    <3>1. g.has[m] = f.has[m] /\ f.has[n] # "none" /\ f.has[m] \in Full BY <1>3
    <3>2. f.at[m] + Length(m, f.has[m]) <= f.at[n] BY <1>5, <3>1 DEF Apart
    <3>. QED BY <1>3, <3>1, <3>2
  <2>3. Inside(g)
    <3> SUFFICES ASSUME NEW m \in Msgs, g.has[m] \in Full
                 PROVE  g.at[m] + Length(m, g.has[m]) <= g.size
      BY DEF Inside
    <3>1. g.has[m] = f.has[m] /\ f.at[m] + Length(m, f.has[m]) <= Rewritten(s).size BY <1>3
    <3>. QED BY <1>3, <3>1
  <2>. QED BY <2>1, <2>2, <2>3
<1>7. FileInv'
  <2> HIDE DEF f, g
  <2>1. path' = path /\ inodes' = inodes /\ delivered' = delivered /\ path <= inodes
    BY <1>2, <1>4
  <2>2. ASSUME NEW i \in Inode, i > inodes PROVE file'[i] = NoFile
    <3>1. i # path BY <1>2, <1>4, <2>2, Numbers, TypesApart, <1>1 DEF FolderTypes
    <3>. QED BY <1>2, <1>5, <2>2, <3>1
  <2>3. ASSUME NEW i \in Inode
        PROVE  Known(file'[i].has, delivered) /\ Apart(file'[i].has, file'[i].at) /\ Inside(file'[i])
    <3>1. CASE i = path BY <1>2, <1>6, <3>1
    <3>2. CASE i # path
      <4>1. file'[i] = file[i] BY <1>2, <3>2
      <4>2. Known(file[i].has, delivered) /\ Apart(file[i].has, file[i].at) /\ Inside(file[i])
        BY <1>a
      <4>. QED BY <4>1, <4>2
    <3>. QED BY <3>1, <3>2
  <2>. QED BY <2>1, <2>2, <2>3 DEF FileInv
<1>8. SessionInv'
  <2> SUFFICES ASSUME NEW t \in Sessions
               PROVE  PlaceOK(t)' /\ Known(base'[t], delivered') /\ ViewOK(base'[t], view'[t], dirty'[t], del'[t])
    BY DEF SessionInv
  <2>1. PlaceOK(t) /\ Known(base[t], delivered) /\ ViewOK(base[t], view[t], dirty[t], del[t])
    BY <1>1 DEF SessionInv
  <2>2. CASE t = s BY <1>2, <1>4, <2>1, <2>2 DEF PlaceOK
  <2>3. CASE t # s BY <1>2, <2>1, <2>3 DEF PlaceOK, Alone
  <2>. QED BY <2>2, <2>3
<1>9. /\ First(s) \in Msgs
      /\ \A m \in Msgs : m < First(s) /\ f.has[m] \in Full => f.at[m] + Length(m, f.has[m]) <= f.at[First(s)]
      /\ f.at[First(s)] <= Rewritten(s).size /\ ViewOK(base[s], view[s], dirty[s], del[s])
  <2>1. ViewOK(base[s], view[s], dirty[s], del[s]) /\ Apart(base[s], file[fp[s]].at)
        /\ fp[s] \in Inode
    BY <1>1, <1>2, <1>5 DEF SessionInv
  <2>2. /\ First(s) \in Msgs
        /\ \A m \in Msgs : m < First(s) /\ base[s][m] \in Full =>
             file[fp[s]].at[m] + Length(m, base[s][m]) <= file[fp[s]].at[First(s)]
    BY <1>1, <1>4, <2>1, BeforeFirst
  <2>3. file[fp[s]].at[First(s)] <= Rewritten(s).size BY <1>1, <1>4, <2>1, RewrittenApart
  <2>. QED BY <1>2, <2>1, <2>2, <2>3
<1>10. \A m \in Msgs : m < First(s) /\ f.has[m] \in Full => g.has[m] = f.has[m]
  <2> SUFFICES ASSUME NEW m \in Msgs, m < First(s), f.has[m] \in Full PROVE g.has[m] = f.has[m]
    OBVIOUS
  <2>1. f.at \in [Msgs -> Nat] /\ f.has \in Contents BY <1>2 DEF Folder
  <2>2. Length(m, f.has[m]) \in Nat BY <2>1, Lengths DEF Contents
  <2> HIDE DEF f, g
  <2>3. f.at[m] \in Nat /\ f.at[First(s)] \in Nat BY <1>9, <2>1
  <2>4. f.at[m] + Length(m, f.has[m]) <= Rewritten(s).size BY <1>2, <1>9, <2>2, <2>3
  <2>. QED BY <1>3, <2>4
<1>11. First(s)' = First(s) /\ Kept(s)' = Kept(s) /\ InTemp(s)' = InTemp(s)
  BY <1>2, SameTemp
<1>12. RewriteInv'
  <2>1. RewriteOK(s)'
    <3>1. del'[s] \subseteq removed' BY <1>2
    <3>2. Apart(base'[s], file'[fp'[s]].at) BY <1>2, <1>3, <1>5
    <3>3. ASSUME NEW m \in Msgs
          PROVE  /\ file'[fp'[s]].has[m] \in Full => base'[s][m] = file'[fp'[s]].has[m]
                 /\ m < First(s)' /\ base'[s][m] \in Full => file'[fp'[s]].has[m] \in Full
      <4> HIDE DEF f, g
      <4>. QED BY <1>2, <1>3, <1>10, <1>11
    <3>. QED BY <3>1, <3>2, <3>3 DEF RewriteOK
  <2>2. \A t \in Sessions \ {s} : pc'[t] # "truncated" BY <1>2, <1>4 DEF Alone
  <2>. QED BY <2>1, <2>2 DEF RewriteInv
<1>13. MailInv'
  <2> SUFFICES ASSUME NEW m \in 1..delivered, ~(m \in removed' \cup rescue' \cup unlinked' \cup clobbered')
               PROVE  file'[path].has[m] \in Full \/ Written(s, m)'
    BY <1>2, <1>4 DEF MailInv
  <2>1. f.has[m] \in Full
    <3>1. f.has[m] \in Full \/ \E t \in Sessions : Written(t, m) BY <1>1, <1>2 DEF MailInv
    <3>. QED BY <1>2, <1>4, <3>1 DEF Written
  <2>2. m \in Msgs BY <1>1, TypesApart, Numbers DEF HistoryTypes, Msgs
  <2>3. CASE m < First(s)
    <3> HIDE DEF f, g
    <3>. QED BY <1>2, <1>10, <2>1, <2>2, <2>3
  <2>4. CASE ~(m < First(s))
    <3>1. m \notin del[s] BY <1>2
    <3>2. Kept(s)[m] \in Full BY <1>2, <1>9, <2>1, <2>2, <3>1, KeptIs
    <3>3. First(s) \in Nat /\ m \in Nat BY <1>9, <2>2, Numbers
    <3>4. m \in InTemp(s) BY <2>2, <2>4, <3>2, <3>3 DEF InTemp, Full
    <3>. QED BY <1>2, <1>11, <3>2, <3>4 DEF Written
  <2>. QED BY <2>3, <2>4
<1>14. MboxTypeOK' BY <1>2 DEF SessionTypes, FolderTypes, HistoryTypes, MboxTypeOK, Folder
<1>. QED BY <1>7, <1>8, <1>12, <1>13, <1>14 DEF LossInv, ShapeInv

(* What the flush brings to the file is all that was to be kept of it. *)
LEMMA FlushKeeps ==
  ASSUME LossInv, NEW s \in Sessions, Flush(s)
  PROVE  LossInv'
<1> DEFINE f == file[fp[s]]
           r == Rewritten(s)
<1>1. /\ MboxTypeOK /\ FileInv /\ SessionInv /\ RewriteInv /\ MailInv /\ ShapeInv
  BY DEF LossInv, ShapeInv
<1>2. /\ SessionTypes' /\ FolderTypes' /\ HistoryTypes' /\ Alone(s)
      /\ UNCHANGED <<fp, base, view, dirty, del, path, inodes, delivered, removed, rescue, unlinked, clobbered, torn>>
      /\ pc[s] = "truncated" /\ pc'[s] = "finish" /\ owner' \in {None, Stale}
      /\ fp[s] \in Inode
      /\ file'[fp[s]] = r
      /\ \A i \in Inode \ {fp[s]} : file'[i] = file[i]
  BY <1>1, FlushDoes DEF historyVars
<1>3. /\ owner = s /\ dirty[s] \cup del[s] # {} /\ fp[s] <= inodes
      /\ path = 0 \/ fp[s] = path
      /\ \A t \in Sessions \ {s} : pc[t] \notin {"commit", "truncated"}
  BY <1>1, <1>2, Writer
<1>4. RewriteOK(s) BY <1>1, <1>2 DEF RewriteInv
<1>5. ViewOK(base[s], view[s], dirty[s], del[s]) /\ Known(base[s], delivered)
  BY <1>1 DEF SessionInv
<1>6. Apart(r.has, r.at) /\ Inside(r) /\ r.has = Kept(s)
  BY <1>1, <1>2, <1>3, <1>4, <1>5, RewrittenApart, RewrittenType DEF RewriteOK
<1>7. Known(r.has, delivered) BY <1>5, <1>6, KeptIs DEF Known
<1>a. \A i \in Inode : Known(file[i].has, delivered) /\ Apart(file[i].has, file[i].at) /\ Inside(file[i])
  BY <1>1 DEF FileInv
<1>8. FileInv'
  <2> HIDE DEF f, r
  <2>1. path' = path /\ inodes' = inodes /\ delivered' = delivered /\ path <= inodes
        /\ \A i \in Inode : i > inodes => file[i] = NoFile
    BY <1>1, <1>2 DEF FileInv
  <2>2. ASSUME NEW i \in Inode, i > inodes PROVE file'[i] = NoFile
    <3>1. i # fp[s] BY <1>2, <1>3, <2>2, Numbers, TypesApart, <1>1 DEF FolderTypes
    <3>. QED BY <1>2, <2>1, <2>2, <3>1
  <2>3. ASSUME NEW i \in Inode
        PROVE  Known(file'[i].has, delivered) /\ Apart(file'[i].has, file'[i].at) /\ Inside(file'[i])
    <3>1. CASE i = fp[s] BY <1>2, <1>6, <1>7, <3>1
    <3>2. CASE i # fp[s]
      <4>1. file'[i] = file[i] BY <1>2, <3>2
      <4>2. Known(file[i].has, delivered) /\ Apart(file[i].has, file[i].at) /\ Inside(file[i])
        BY <1>a
      <4>. QED BY <4>1, <4>2
    <3>. QED BY <3>1, <3>2
  <2>. QED BY <2>1, <2>2, <2>3 DEF FileInv
<1>9. SessionInv'
  <2> SUFFICES ASSUME NEW t \in Sessions
               PROVE  PlaceOK(t)' /\ Known(base'[t], delivered') /\ ViewOK(base'[t], view'[t], dirty'[t], del'[t])
    BY DEF SessionInv
  <2>1. PlaceOK(t) /\ Known(base[t], delivered) /\ ViewOK(base[t], view[t], dirty[t], del[t])
    BY <1>1 DEF SessionInv
  <2>2. owner' # t BY <1>2, Numbers
  <2>3. CASE t = s BY <1>2, <2>1, <2>2, <2>3 DEF PlaceOK
  <2>4. CASE t # s BY <1>2, <1>3, <2>1, <2>2, <2>4 DEF PlaceOK, Alone
  <2>. QED BY <2>3, <2>4
<1>10. \A t \in Sessions : pc'[t] # "truncated" BY <1>2, <1>3 DEF Alone
<1>11. MailInv'
  <2> SUFFICES ASSUME NEW m \in 1..delivered, ~(m \in removed \cup rescue \cup unlinked \cup clobbered)
               PROVE  path # 0 /\ file'[path].has[m] \in Full
    BY <1>2 DEF MailInv
  <2>1. path # 0 /\ (file[path].has[m] \in Full \/ \E t \in Sessions : Written(t, m))
    BY <1>1 DEF MailInv
  <2>2. fp[s] = path /\ file'[path].has = Kept(s) BY <1>2, <1>3, <1>6, <2>1
  <2>3. m \in Msgs BY <1>1, TypesApart, Numbers DEF HistoryTypes, Msgs
  <2>4. CASE file[path].has[m] \in Full
    <3>1. base[s][m] \in Full /\ m \notin del[s] BY <1>4, <2>2, <2>3, <2>4 DEF RewriteOK
    <3>. QED BY <1>5, <2>1, <2>2, <2>3, <3>1, KeptIs
  <2>5. CASE \E t \in Sessions : Written(t, m)
    <3>1. Written(s, m) BY <1>3, <2>5 DEF Written
    <3>. QED BY <2>1, <2>2, <3>1 DEF Written
  <2>. QED BY <2>1, <2>4, <2>5
<1>12. MboxTypeOK' BY <1>2 DEF SessionTypes, FolderTypes, HistoryTypes, MboxTypeOK, Folder
<1>. QED BY <1>8, <1>9, <1>10, <1>11, <1>12 DEF LossInv, ShapeInv, RewriteInv

(* What is overwritten by mistake is accounted for. *)
LEMMA WriteOverKeeps ==
  ASSUME LossInv, NEW s \in Sessions, WriteOver(s)
  PROVE  LossInv'
<1>1. /\ MboxTypeOK /\ FileInv /\ SessionInv /\ RewriteInv /\ MailInv /\ ShapeInv
  BY DEF LossInv, ShapeInv
<1>2. /\ SessionTypes' /\ FolderTypes' /\ HistoryTypes' /\ Alone(s)
      /\ UNCHANGED <<fp, base, view, dirty, del, path, inodes, delivered, rescue, unlinked, torn>>
      /\ pc[s] = "commit"
      /\ pc'[s] = "finish" /\ owner' \in {None, Stale} /\ fp[s] = path /\ path \in Inode
      /\ \A i \in Inode \ {path} : file'[i] = file[i]
      /\ Apart(file'[path].has, file'[path].at) /\ Inside(file'[path])
      /\ \A m \in Msgs : file'[path].has[m] # "none" => file[path].has[m] # "none"
      /\ \A m \in Msgs : file[path].has[m] \in Full => file'[path].has[m] \in Full \/ m \in clobbered'
      /\ removed \subseteq removed' /\ clobbered \subseteq clobbered'
  BY <1>1, WriteOverDoes
<1>3. /\ owner = s /\ path <= inodes /\ path # 0
      /\ \A t \in Sessions \ {s} : pc[t] \notin {"commit", "truncated"}
  BY <1>1, <1>2, Writer, Numbers
<1>4. \A i \in Inode : Known(file[i].has, delivered) /\ Apart(file[i].has, file[i].at) /\ Inside(file[i])
  BY <1>1 DEF FileInv
<1>5. Known(file'[path].has, delivered) BY <1>2, <1>4 DEF Known
<1>6. FileInv'
  <2>1. path' = path /\ inodes' = inodes /\ delivered' = delivered /\ path <= inodes
        /\ \A i \in Inode : i > inodes => file[i] = NoFile
    BY <1>1, <1>2 DEF FileInv
  <2>2. ASSUME NEW i \in Inode, i > inodes PROVE file'[i] = NoFile
    <3>1. i # path BY <1>1, <1>2, <1>3, <2>2, Numbers, TypesApart DEF FolderTypes
    <3>. QED BY <1>2, <2>1, <2>2, <3>1
  <2>3. ASSUME NEW i \in Inode
        PROVE  Known(file'[i].has, delivered) /\ Apart(file'[i].has, file'[i].at) /\ Inside(file'[i])
    <3>1. CASE i = path BY <1>2, <1>5, <3>1
    <3>2. CASE i # path BY <1>2, <1>4, <3>2
    <3>. QED BY <3>1, <3>2
  <2>. QED BY <2>1, <2>2, <2>3 DEF FileInv
<1>7. SessionInv'
  <2> SUFFICES ASSUME NEW t \in Sessions
               PROVE  PlaceOK(t)' /\ Known(base'[t], delivered') /\ ViewOK(base'[t], view'[t], dirty'[t], del'[t])
    BY DEF SessionInv
  <2>1. PlaceOK(t) /\ Known(base[t], delivered) /\ ViewOK(base[t], view[t], dirty[t], del[t])
    BY <1>1 DEF SessionInv
  <2>2. owner' # t BY <1>2, Numbers
  <2>3. CASE t = s BY <1>2, <2>1, <2>2, <2>3 DEF PlaceOK
  <2>4. CASE t # s BY <1>2, <1>3, <2>1, <2>2, <2>4 DEF PlaceOK, Alone
  <2>. QED BY <2>3, <2>4
<1>8. \A t \in Sessions : pc[t] # "truncated" /\ pc'[t] # "truncated" BY <1>2, <1>3 DEF Alone
<1>9. MailInv'
  <2> SUFFICES ASSUME NEW m \in 1..delivered,
                      ~(m \in removed' \cup rescue' \cup unlinked' \cup clobbered')
               PROVE  path # 0 /\ file'[path].has[m] \in Full
    BY <1>2 DEF MailInv
  <2>1. file[path].has[m] \in Full BY <1>1, <1>2, <1>8 DEF MailInv, Written
  <2>2. m \in Msgs BY <1>1, TypesApart, Numbers DEF HistoryTypes, Msgs
  <2>. QED BY <1>2, <1>3, <2>1, <2>2
<1>10. MboxTypeOK' BY <1>2 DEF SessionTypes, FolderTypes, HistoryTypes, MboxTypeOK, Folder
<1>. QED BY <1>6, <1>7, <1>8, <1>9, <1>10 DEF LossInv, ShapeInv, RewriteInv

(* A message is appended to a whole folder. *)
LEMMA DeliverKeeps ==
  ASSUME LossInv, Deliver
  PROVE  LossInv'
<1> DEFINE m == delivered + 1
           f == file[Target]
           g == Longer(f, m)
<1>1. /\ MboxTypeOK /\ FileInv /\ SessionInv /\ RewriteInv /\ MailInv /\ ShapeInv
      /\ delivered \in Nat
  BY TypesApart, Numbers DEF LossInv, ShapeInv, HistoryTypes
<1>2. /\ FolderTypes' /\ HistoryTypes' /\ owner = None
      /\ UNCHANGED <<sessionVars, owner, removed, rescue, unlinked, clobbered, torn>>
      /\ m \in Msgs /\ delivered' = m
      /\ Target \in Inode /\ path' = Target /\ path' <= inodes' /\ inodes <= inodes'
      /\ f \in Folder /\ file'[Target] = g /\ g \in Folder
      /\ \A i \in Inode \ {Target} : file'[i] = file[i]
      /\ \A i \in Inode : i > inodes' => i > inodes /\ i # Target
  BY <1>1, DeliverDoes
<1>3. \A i \in Inode : Known(file[i].has, delivered) /\ Apart(file[i].has, file[i].at) /\ Inside(file[i])
  BY <1>1 DEF FileInv
<1>4. Known(f.has, delivered) /\ Apart(f.has, f.at) /\ Inside(f) BY <1>2, <1>3
<1>5. f.has \in Contents /\ f.at \in [Msgs -> Nat] /\ f.size \in Nat BY <1>2 DEF Folder
<1>6. \A i \in Msgs : g.has[i] = (IF i = m THEN "plain" ELSE f.has[i])
                      /\ g.at[i] = (IF i = m THEN f.size ELSE f.at[i])
  <2> HIDE DEF f, m
  <2>. QED BY <1>5 DEF Longer, Contents
<1>7. g.size = f.size + Length(m, "plain") BY DEF Longer
<1>8. Length(m, "plain") \in Nat BY <1>2, Lengths DEF Marks
<1>9. \A i \in Msgs : f.has[i] # "none" => i <= delivered BY <1>4 DEF Known
<1>a. \A i \in Msgs : f.has[i] \in Full => i < m /\ f.has[i] # "none"
  <2> SUFFICES ASSUME NEW i \in Msgs, f.has[i] \in Full PROVE i < m /\ f.has[i] # "none" OBVIOUS
  <2>1. f.has[i] # "none" BY DEF Full
  <2>2. i <= delivered /\ i \in Nat BY <1>9, <2>1, Numbers
  <2>. QED BY <1>1, <2>1, <2>2
<1>b. \A i \in Msgs : Length(i, f.has[i]) \in Nat BY <1>5, Lengths DEF Contents
<1>10. Known(g.has, m) /\ Apart(g.has, g.at) /\ Inside(g)
  <2> HIDE DEF f, g
  <2>1. Known(g.has, m)
    <3> SUFFICES ASSUME NEW i \in Msgs, g.has[i] # "none" PROVE i <= m BY DEF Known
    <3>1. i \in Nat BY Numbers
    <3>2. CASE i = m BY <3>1, <3>2
    <3>3. CASE i # m BY <1>1, <1>6, <1>9, <3>1, <3>3
    <3>. QED BY <3>2, <3>3
  <2>2. Apart(g.has, g.at)
    <3> SUFFICES ASSUME NEW i \in Msgs, NEW n \in Msgs, i < n, g.has[i] \in Full, g.has[n] # "none"
                 PROVE  g.at[i] + Length(i, g.has[i]) <= g.at[n]
      BY DEF Apart
    <3>0. i \in Nat /\ n \in Nat BY Numbers
    <3>1. n <= m BY <2>1 DEF Known
    <3>2. i # m /\ f.has[i] \in Full /\ g.has[i] = f.has[i] /\ g.at[i] = f.at[i]
      BY <1>1, <1>6, <3>0, <3>1
    <3>3. CASE n = m
      <4>1. f.at[i] + Length(i, f.has[i]) <= f.size BY <1>4, <3>2 DEF Inside
      <4>. QED BY <1>6, <3>2, <3>3, <4>1
    <3>4. CASE n # m
      <4>1. f.has[n] # "none" /\ g.at[n] = f.at[n] BY <1>6, <3>4
      <4>2. f.at[i] + Length(i, f.has[i]) <= f.at[n] BY <1>4, <3>2, <4>1 DEF Apart
      <4>. QED BY <3>2, <4>1, <4>2
    <3>. QED BY <3>3, <3>4
  <2>3. Inside(g)
    <3> SUFFICES ASSUME NEW i \in Msgs, g.has[i] \in Full
                 PROVE  g.at[i] + Length(i, g.has[i]) <= g.size
      BY DEF Inside
    <3>1. CASE i = m BY <1>5, <1>6, <1>7, <1>8, <3>1
    <3>2. CASE i # m
      <4>1. f.has[i] \in Full /\ g.has[i] = f.has[i] /\ g.at[i] = f.at[i] BY <1>6, <3>2
      <4>2. f.at[i] + Length(i, f.has[i]) <= f.size BY <1>4, <4>1 DEF Inside
      <4>3. f.at[i] \in Nat BY <1>5
      <4>. QED BY <1>5, <1>7, <1>8, <1>b, <4>1, <4>2, <4>3
    <3>. QED BY <3>1, <3>2
  <2>. QED BY <2>1, <2>2, <2>3
<1>11. \A c : Known(c, delivered) => Known(c, m) BY <1>1, Numbers DEF Known
<1>12. FileInv'
  <2> HIDE DEF f, g, m
  <2>1. ASSUME NEW i \in Inode, i > inodes' PROVE file'[i] = NoFile
    <3>1. i > inodes /\ i # Target BY <1>2, <2>1
    <3>. QED BY <1>1, <1>2, <3>1 DEF FileInv
  <2>2. ASSUME NEW i \in Inode
        PROVE  Known(file'[i].has, delivered') /\ Apart(file'[i].has, file'[i].at) /\ Inside(file'[i])
    <3>1. CASE i = Target BY <1>2, <1>10, <3>1
    <3>2. CASE i # Target BY <1>2, <1>3, <1>11, <3>2
    <3>. QED BY <3>1, <3>2
  <2>. QED BY <1>2, <2>1, <2>2 DEF FileInv
<1>13. SessionInv'
  <2> SUFFICES ASSUME NEW t \in Sessions
               PROVE  PlaceOK(t)' /\ Known(base'[t], delivered') /\ ViewOK(base'[t], view'[t], dirty'[t], del'[t])
    BY DEF SessionInv
  <2> HIDE DEF f, g, m
  <2>1. PlaceOK(t) /\ Known(base[t], delivered) /\ ViewOK(base[t], view[t], dirty[t], del[t])
    BY <1>1 DEF SessionInv
  <2>2. owner' # t /\ owner # t BY <1>2, Numbers
  <2>3. inodes \in Nat /\ inodes' \in Nat /\ 1..inodes \subseteq 1..inodes'
    BY <1>1, <1>2, TypesApart, Numbers DEF FolderTypes
  <2>. QED BY <1>2, <1>11, <2>1, <2>2, <2>3 DEF PlaceOK, sessionVars
<1>14. \A t \in Sessions : pc[t] # "truncated" /\ pc'[t] # "truncated"
  BY <1>1, <1>2, Numbers DEF SessionInv, PlaceOK, sessionVars
<1>15. MailInv'
  <2> SUFFICES ASSUME NEW n \in 1..delivered', ~(n \in removed \cup rescue \cup unlinked \cup clobbered)
               PROVE  path' # 0 /\ file'[path'].has[n] \in Full
    BY <1>2 DEF MailInv
  <2>1. path' = Target /\ path' # 0 BY <1>2, Numbers
  <2>2. n \in Msgs BY <1>2, Numbers DEF Msgs
  <2>3. CASE n = m
    <3> HIDE DEF m, f, g
    <3>. QED BY <1>2, <1>6, <2>1, <2>3 DEF Full
  <2>4. CASE n # m
    <3>1. n \in 1..delivered BY <1>1, <1>2, <2>4
    <3>2. path # 0 /\ file[path].has[n] \in Full BY <1>1, <1>14, <3>1 DEF MailInv, Written
    <3>3. f.has[n] \in Full BY <3>2 DEF Target
    <3> HIDE DEF m, f, g
    <3>. QED BY <1>2, <1>6, <2>1, <2>2, <2>4, <3>3
  <2>. QED BY <2>3, <2>4
<1>16. MboxTypeOK'
  BY <1>1, <1>2, TypesApart
     DEF SessionTypes, FolderTypes, HistoryTypes, MboxTypeOK, Folder, sessionVars
<1>. QED BY <1>12, <1>13, <1>14, <1>15, <1>16 DEF LossInv, ShapeInv, RewriteInv


-----------------------------------------------------------------------------
(* No mail is lost *)

LEMMA LossInit == Init => LossInv
<1> SUFFICES ASSUME Init PROVE LossInv OBVIOUS
<1>1. Empty \in Contents /\ \A m \in Msgs : Empty[m] = "none" BY DEF Empty, Contents, Marks
<1>2. NoFile \in Folder /\ NoFile.has = Empty
  <2> HIDE DEF Empty
  <2>. QED BY <1>1 DEF NoFile, Folder
<1>3. MboxTypeOK
  <2> HIDE DEF Empty, NoFile
  <2>1. path \in 0..MaxInode /\ inodes \in 0..MaxInode /\ owner \in Sessions \cup {None, Stale}
    BY Numbers DEF Init
  <2>2. file \in [Inode -> [has : Contents, at : [Msgs -> Nat], size : Nat]]
    BY <1>2 DEF Init, Folder
  <2>3. delivered \in 0..N /\ removed \subseteq Msgs /\ rescue \subseteq Msgs /\ unlinked \subseteq Msgs
        /\ clobbered \subseteq Msgs /\ torn \in {"no", "yes"}
    BY Numbers DEF Init
  <2>4. base \in [Sessions -> Contents] /\ view \in [Sessions -> Contents] BY <1>1 DEF Init
  <2>5. /\ pc \in [Sessions -> PCs] /\ why \in [Sessions -> {"sync", "close"}]
        /\ fp \in [Sessions -> 0..MaxInode] /\ size \in [Sessions -> Nat]
        /\ dirty \in [Sessions -> SUBSET Msgs] /\ del \in [Sessions -> SUBSET Msgs]
    BY Numbers DEF Init, PCs
  <2>. QED BY <2>1, <2>2, <2>3, <2>4, <2>5 DEF MboxTypeOK
<1>4. FileInv
  <2> HIDE DEF Empty, NoFile
  <2>1. Known(NoFile.has, delivered) /\ Apart(NoFile.has, NoFile.at) /\ Inside(NoFile)
    BY <1>1, <1>2 DEF Known, Apart, Inside, Full
  <2>. QED BY <2>1 DEF Init, FileInv
<1>5. SessionInv
  <2> HIDE DEF Empty
  <2>1. ASSUME NEW s \in Sessions
        PROVE  PlaceOK(s) /\ Known(base[s], delivered) /\ ViewOK(base[s], view[s], dirty[s], del[s])
    BY <1>1, Numbers DEF Init, PlaceOK, Known, ViewOK
  <2>. QED BY <2>1 DEF SessionInv
<1>6. RewriteInv /\ MailInv BY DEF Init, RewriteInv, MailInv
<1>. QED BY <1>3, <1>4, <1>5, <1>6 DEF LossInv, ShapeInv

(* A step of a session that changes no file *)
LEMMA SessionQuiet ==
  ASSUME LossInv, NEW s \in Sessions,
         Leaving(s) \/ Editing(s) \/ Reading(s) \/ Passing(s) \/ Refreshing(s)
  PROVE  /\ SessionTypes' /\ FolderTypes' /\ HistoryTypes'
         /\ Quiet(s) /\ PlaceOK(s)' /\ Known(base'[s], delivered)
         /\ ViewOK(base'[s], view'[s], dirty'[s], del'[s])
         /\ Leaving(s) \/ (path' = path /\ pc[s] # "truncated" /\ rescue' = rescue /\ unlinked' = unlinked)
<1>1. /\ ShapeInv /\ RewriteInv /\ MailInv /\ MboxTypeOK /\ FileInv
      /\ SessionTypes /\ FolderTypes /\ HistoryTypes
  BY TypesApart DEF LossInv, ShapeInv
<1>2. PlaceOK(s) /\ Known(base[s], delivered) /\ ViewOK(base[s], view[s], dirty[s], del[s])
  BY <1>1 DEF ShapeInv, SessionInv
<1>3. path \in Nat /\ inodes \in Nat /\ path <= inodes
      /\ \A i \in Inode : Known(file[i].has, delivered)
  BY <1>1, Numbers DEF FolderTypes, FileInv
<1>4. CASE Leaving(s)
  <2>1. /\ Fastclose(s) /\ FolderStays /\ path' \in {path, 0}
        /\ owner' = IF owner = s THEN owner' ELSE owner
        /\ owner' # s /\ owner' \in Sessions \cup {None, Stale}
        /\ HistoryTypes'
    BY <1>1, <1>4, LeavingDoes, LeavingLeaves
  <2>2. /\ SessionTypes' /\ Alone(s) /\ pc'[s] = "closed"
        /\ base'[s] = Empty /\ view'[s] = Empty /\ dirty'[s] = {} /\ del'[s] = {}
    BY <1>1, <2>1, Fastclosed
  <2>3. FolderTypes' BY <1>1, <2>1, Numbers DEF FolderTypes, FolderStays
  <2>7. owner' = owner \/ (owner = s /\ owner' \in {None, Stale})
    <3>1. ASSUME owner = s PROVE owner' \in {None, Stale}
      BY <3>1, <1>2, <1>4, Numbers
         DEF Leaving, Close, Crash, CheckGone, SyncGone, CommitGone, TempFails, WriteFails,
             FinishGone, Finish, Unlink, UnlinkEmpty, Unlocked, PlaceOK, HasChanges, folderVars
    <3>. QED BY <2>1, <3>1
  <2>4. Quiet(s) BY <2>1, <2>2, <2>7 DEF Quiet
  <2>5. PlaceOK(s)' BY <2>1, <2>2 DEF PlaceOK
  <2>6. Known(base'[s], delivered) /\ ViewOK(base'[s], view'[s], dirty'[s], del'[s])
    BY <2>2 DEF Known, ViewOK, Empty
  <2>. QED BY <1>4, <2>1, <2>2, <2>3, <2>4, <2>5, <2>6
<1>5. CASE Editing(s)
  <2>1. /\ SessionTypes' /\ Alone(s) /\ UNCHANGED <<folderVars, historyVars, pc, fp, base, size>>
        /\ pc[s] = "open" /\ ViewOK(base'[s], view'[s], dirty'[s], del'[s])
    BY <1>1, <1>5, EditingDoes
  <2>2. FolderTypes' /\ HistoryTypes'
    BY <1>1, <2>1 DEF FolderTypes, HistoryTypes, folderVars, historyVars
  <2>3. Quiet(s) BY <2>1 DEF Quiet, FolderStays, folderVars, historyVars
  <2>4. PlaceOK(s)' BY <1>2, <2>1 DEF PlaceOK, folderVars
  <2>. QED BY <1>2, <2>1, <2>2, <2>3, <2>4 DEF folderVars, historyVars
<1>6. CASE Reading(s)
  <2>1. /\ SessionTypes' /\ Alone(s) /\ ReadWell(s) /\ pc'[s] = "open" /\ fp'[s] \in {fp[s], path}
        /\ path # 0 /\ pc[s] \in {"closed", "open", "grown"} /\ (pc[s] = "closed" => fp'[s] = path)
        /\ UNCHANGED <<folderVars, delivered, removed, rescue, unlinked, clobbered>>
        /\ torn' \in {torn, "yes"}
    BY <1>1, <1>6, ReadingDoes
  <2>2. FolderTypes' /\ HistoryTypes' BY <1>1, <2>1 DEF FolderTypes, HistoryTypes, folderVars
  <2>3. Quiet(s) BY <2>1 DEF Quiet, FolderStays, folderVars
  <2>4. PlaceOK(s)' BY <1>2, <1>3, <2>1 DEF PlaceOK, folderVars
  <2>5. delivered \in Nat BY <1>1, Numbers DEF HistoryTypes
  <2>6. Known(base'[s], delivered) /\ ViewOK(base'[s], view'[s], dirty'[s], del'[s])
    BY <1>2, <1>3, <2>1, <2>5 DEF ReadWell
  <2>. QED BY <2>1, <2>2, <2>3, <2>4, <2>6 DEF folderVars
<1>7. CASE Passing(s)
  <2>1. /\ SessionTypes' /\ Alone(s)
        /\ UNCHANGED <<base, view, dirty, del, size, path, inodes, file, historyVars>>
        /\ pc[s] \in {"open", "grown", "finish"}
        /\ pc'[s] \in {"open", "grown", "commit", "unlink", "unlink_empty"}
        /\ fp'[s] = fp[s] \/ (fp'[s] = path /\ path # 0)
        /\ IF pc'[s] = "commit"
           THEN /\ owner = None /\ owner' = s /\ path # 0 /\ fp'[s] = path
                /\ dirty[s] \cup del[s] # {}
           ELSE owner' = owner
    BY <1>1, <1>7, PassingDoes
  <2>2. FolderTypes' /\ HistoryTypes'
    BY <1>1, <2>1 DEF FolderTypes, HistoryTypes, historyVars
  <2>3. Quiet(s) BY <2>1 DEF Quiet, FolderStays, historyVars
  <2>4. PlaceOK(s)' BY <1>2, <1>3, <2>1 DEF PlaceOK
  <2>. QED BY <1>2, <2>1, <2>2, <2>3, <2>4 DEF historyVars
<1>8. CASE Refreshing(s)
  <2>1. /\ SessionTypes' /\ Alone(s) /\ UNCHANGED <<folderVars, historyVars, size>>
        /\ path # 0 /\ pc[s] = "finish" /\ pc'[s] = "open" /\ fp'[s] = path
        /\ base'[s] = Kept(s) /\ view'[s] = Kept(s) /\ dirty'[s] = {} /\ del'[s] = {}
    BY <1>1, <1>8, RefreshingDoes
  <2>2. FolderTypes' /\ HistoryTypes'
    BY <1>1, <2>1 DEF FolderTypes, HistoryTypes, folderVars, historyVars
  <2>3. Quiet(s) BY <2>1 DEF Quiet, FolderStays, folderVars, historyVars
  <2>4. PlaceOK(s)' BY <1>2, <1>3, <2>1 DEF PlaceOK, folderVars
  <2>5. Known(base'[s], delivered) BY <1>2, <2>1, KeptIs DEF Known
  <2>6. ViewOK(base'[s], view'[s], dirty'[s], del'[s]) BY <2>1 DEF ViewOK
  <2>. QED BY <2>1, <2>2, <2>3, <2>4, <2>5, <2>6 DEF folderVars, historyVars
<1>. QED BY <1>4, <1>5, <1>6, <1>7, <1>8

LEMMA SessionKeeps ==
  ASSUME LossInv, NEW s \in Sessions,
         Leaving(s) \/ Editing(s) \/ Reading(s) \/ Passing(s) \/ Refreshing(s)
  PROVE  LossInv'
<1>1. ShapeInv /\ RewriteInv /\ MailInv BY DEF LossInv
<1>2. /\ SessionTypes' /\ FolderTypes' /\ HistoryTypes'
      /\ Quiet(s) /\ PlaceOK(s)' /\ Known(base'[s], delivered)
      /\ ViewOK(base'[s], view'[s], dirty'[s], del'[s])
      /\ Leaving(s) \/ (path' = path /\ pc[s] # "truncated" /\ rescue' = rescue /\ unlinked' = unlinked)
  BY SessionQuiet
<1>3. FileInv' /\ SessionInv' /\ RewriteInv' BY <1>1, <1>2, QuietKeeps
<1>4. MailInv'
  <2>1. CASE Leaving(s) BY <1>1, <2>1, LeavingLosesNothing
  <2>2. CASE ~Leaving(s) BY <1>1, <1>2, <2>2, QuietLosesNothing
  <2>. QED BY <2>1, <2>2
<1>5. MboxTypeOK' BY <1>2 DEF SessionTypes, FolderTypes, HistoryTypes, MboxTypeOK, Folder
<1>. QED BY <1>3, <1>4, <1>5 DEF LossInv, ShapeInv

(* Removing a lock nobody needs touches nothing. *)
LEMMA RemoveKeeps ==
  ASSUME LossInv, RemoveStaleLock
  PROVE  LossInv'
<1>1. /\ owner = Stale /\ owner' = None
      /\ UNCHANGED <<sessionVars, path, inodes, file, historyVars>>
  BY DEF RemoveStaleLock
<1>2. MboxTypeOK' BY <1>1 DEF LossInv, ShapeInv, MboxTypeOK, sessionVars, historyVars
<1>3. FileInv' BY <1>1 DEF LossInv, ShapeInv, FileInv, historyVars
<1>4. SessionInv'
  <2> SUFFICES ASSUME NEW t \in Sessions
               PROVE  PlaceOK(t)' /\ Known(base'[t], delivered') /\ ViewOK(base'[t], view'[t], dirty'[t], del'[t])
    BY DEF SessionInv
  <2>1. PlaceOK(t) /\ Known(base[t], delivered) /\ ViewOK(base[t], view[t], dirty[t], del[t])
    BY DEF LossInv, ShapeInv, SessionInv
  <2>2. owner # t /\ owner' # t BY <1>1, Numbers
  <2>. QED BY <1>1, <2>1, <2>2 DEF PlaceOK, sessionVars, historyVars
<1>5. \A t \in Sessions : Kept(t)' = Kept(t) /\ First(t)' = First(t) /\ InTemp(t)' = InTemp(t)
  BY <1>1, SameTemp DEF sessionVars
<1>6. RewriteInv'
  BY <1>1, <1>5 DEF LossInv, RewriteInv, RewriteOK, sessionVars, historyVars
<1>7. MailInv' BY <1>1, <1>5 DEF LossInv, MailInv, Written, sessionVars, historyVars
<1>. QED BY <1>2, <1>3, <1>4, <1>6, <1>7 DEF LossInv, ShapeInv

LEMMA LossStutter ==
  ASSUME LossInv, UNCHANGED vars
  PROVE  LossInv'
<1>1. UNCHANGED <<sessionVars, folderVars, historyVars>> BY DEF vars
<1>2. MboxTypeOK'
  BY <1>1 DEF LossInv, ShapeInv, MboxTypeOK, sessionVars, folderVars, historyVars
<1>3. FileInv' /\ SessionInv'
  BY <1>1 DEF LossInv, ShapeInv, FileInv, SessionInv, PlaceOK, sessionVars, folderVars, historyVars
<1>4. \A t \in Sessions : Kept(t)' = Kept(t) /\ First(t)' = First(t) /\ InTemp(t)' = InTemp(t)
  BY <1>1, SameTemp DEF sessionVars
<1>5. RewriteInv' /\ MailInv'
  BY <1>1, <1>4 DEF LossInv, RewriteInv, RewriteOK, MailInv, Written,
                    sessionVars, folderVars, historyVars
<1>. QED BY <1>2, <1>3, <1>5 DEF LossInv, ShapeInv

LEMMA LossStep == LossInv /\ [Next]_vars => LossInv'
<1> SUFFICES ASSUME LossInv, [Next]_vars PROVE LossInv' OBVIOUS
<1>1. CASE Deliver BY <1>1, DeliverKeeps
<1>2. CASE RemoveStaleLock BY <1>2, RemoveKeeps
<1>3. ASSUME NEW s \in Sessions, SessionNext(s) PROVE LossInv'
  <2>1. CASE Truncate(s) BY <2>1, TruncateKeeps
  <2>2. CASE Flush(s) BY <2>2, FlushKeeps
  <2>3. CASE WriteOver(s) BY <2>3, WriteOverKeeps
  <2>. QED BY <1>3, <2>1, <2>2, <2>3, SessionSteps, SessionKeeps
<1>4. CASE UNCHANGED vars BY <1>4, LossStutter
<1>. QED BY <1>1, <1>2, <1>3, <1>4 DEF Next

LEMMA LossAlways == Spec => []LossInv
BY LossInit, LossStep, PTL DEF Spec

(* The state has the types of the code's variables.                          *)
THEOREM MboxTypeCorrect == Spec => []MboxTypeOK
<1>1. LossInv => MboxTypeOK BY DEF LossInv, ShapeInv
<1>. QED BY <1>1, LossAlways, PTL

-----------------------------------------------------------------------------
(* Nobody's changes are undone *)

(* Session by session, a step changes flags in the folder as NoLostUpdate    *)
(* says.                                                                     *)
OwnFlags(s) ==
  \A m \in Msgs :
    /\ path # 0 /\ path' = path
    /\ file[path].has[m] \in Full /\ file'[path].has[m] \in Full \ {file[path].has[m]}
    => m \in dirty[s] /\ view[s][m] = file'[path].has[m]

LEMMA OwnFlagsOnly ==
  ASSUME LossInv, NEW s \in Sessions, SessionNext(s), ~WriteOver(s)
  PROVE  OwnFlags(s)
<1>1. ShapeInv /\ RewriteInv /\ MboxTypeOK /\ FolderTypes BY TypesApart DEF LossInv, ShapeInv
<1>2. ViewOK(base[s], view[s], dirty[s], del[s]) BY <1>1 DEF ShapeInv, SessionInv
<1> SUFFICES ASSUME NEW m \in Msgs, path # 0, path' = path, file[path].has[m] \in Full,
                    file'[path].has[m] \in Full, file'[path].has[m] # file[path].has[m]
             PROVE  m \in dirty[s] /\ view[s][m] = file'[path].has[m]
  BY DEF OwnFlags
<1>3. path \in Inode BY <1>1, Numbers DEF FolderTypes, Inode
<1>4. CASE Leaving(s) BY <1>1, <1>4, LeavingDoes DEF FolderStays
<1>5. CASE Editing(s) BY <1>1, <1>5, EditingDoes DEF folderVars
<1>6. CASE Reading(s) BY <1>1, <1>6, ReadingDoes DEF folderVars
<1>7. CASE Passing(s) BY <1>1, <1>7, PassingDoes
<1>8. CASE Refreshing(s) BY <1>1, <1>8, RefreshingDoes DEF folderVars
<1>9. CASE Truncate(s)
  <2>1. /\ Rewritten(s).size \in Nat /\ file[path] \in Folder
        /\ file'[path] = Cut(file[path], Rewritten(s).size)
    BY <1>1, <1>9, TruncateDoes
  <2>2. Cut(file[path], Rewritten(s).size).has[m] \in Full
          => Cut(file[path], Rewritten(s).size).has[m] = file[path].has[m]
    BY <2>1, CutType
  <2>. QED BY <2>1, <2>2
<1>10. CASE Flush(s)
  <2>1. /\ pc[s] = "truncated" /\ fp[s] \in Inode /\ file'[fp[s]] = Rewritten(s)
    BY <1>1, <1>10, FlushDoes
  <2>2. fp[s] = path /\ dirty[s] \cup del[s] # {} BY <1>1, <2>1, Writer
  <2>3. file'[path].has[m] = Kept(s)[m] BY <1>1, <2>1, <2>2, RewrittenType
  <2>4. base[s][m] = file[path].has[m] BY <1>1, <2>1, <2>2 DEF RewriteInv, RewriteOK
  <2>5. Kept(s)[m] = "none" \/ Kept(s)[m] = base[s][m] \/ (m \in dirty[s] /\ Kept(s)[m] = view[s][m])
    BY <1>2, KeptIs
  <2>6. Kept(s)[m] # "none" BY <2>3 DEF Full
  <2>. QED BY <2>3, <2>4, <2>5, <2>6
<1>. QED BY <1>4, <1>5, <1>6, <1>7, <1>8, <1>9, <1>10, SessionSteps

-----------------------------------------------------------------------------
(* A session that finds the folder of the size it knows has read what is in it *)

(* Messages are whole or not there, and lie where the others end. *)
LEMMA WholeIs ==
  /\ Whole \subseteq Contents /\ Whole = [Msgs -> {"none", "plain", "marked"}]
  /\ Empty \in Whole
BY DEF Whole, Full, Contents, Marks, Empty

(* What has been appended to the folder that was read is all that is new. *)
LEMMA AppendedIsNew ==
  ASSUME UniqueSizes, NEW f \in Folder, Exact(f), NEW b \in Whole, NEW n \in Nat,
         n = WholeSize(b), NEW a \in Msgs, f.has[a] # "none", f.at[a] = n
  PROVE  /\ \A m \in Msgs : b[m] = IF m < a THEN f.has[m] ELSE "none"
         /\ \A m \in Msgs : f.has[m] # "none" => (f.at[m] >= n <=> m >= a)
<1> DEFINE c == f.has
           d == [m \in Msgs |-> IF m < a THEN c[m] ELSE "none"]
           e == Ends(c, 1, 0)
<1>1. c \in Contents /\ c \in Whole /\ 1 \in Nat \ {0} /\ a \in Nat /\ a \in 1..N /\ N \in Nat
      /\ f.at[a] = e[a - 1]
  BY WholeIs, Numbers DEF Exact, Lined, Msgs
<1>2. d \in Whole BY <1>1 DEF Whole, Full
<1>3. a - 1 \in 0..N BY <1>1
<1>4. d \in Contents /\ \A i \in Msgs : i > a - 1 => d[i] = "none"
  <2>1. \A i \in Msgs : i > a - 1 => ~(i < a) BY <1>1, Numbers
  <2>. QED BY <1>2, <2>1, WholeIs
<1>5. \A i \in 1..(a - 1) : d[i] = c[i]
  <2>1. \A i \in 1..(a - 1) : i \in Msgs /\ i < a BY <1>1 DEF Msgs
  <2>. QED BY <2>1
<1>6. WholeSize(d) = n
  <2> HIDE DEF c, d
  <2>1. WholeSize(d) = Ends(d, 1, 0)[a - 1] BY <1>3, <1>4, EndsStay
  <2>2. Ends(d, 1, 0)[a - 1] = Ends(c, 1, 0)[a - 1] BY <1>3, <1>5, EndsAgree
  <2>. QED BY <1>1, <2>1, <2>2
<1>7. d = b
  <2> HIDE DEF d
  <2>. QED BY <1>2, <1>6, WholeIs DEF UniqueSizes
<1>8. \A m \in Msgs : d[m] = IF m < a THEN f.has[m] ELSE "none" OBVIOUS
<1>9. ASSUME NEW m \in Msgs, f.has[m] # "none" PROVE f.at[m] >= n <=> m >= a
  <2> HIDE DEF d
  <2>1. f.at[m] = e[m - 1] /\ n = e[a - 1] BY <1>1, <1>9 DEF Exact, Lined
  <2>2. m \in Nat /\ m \in 0..N /\ m - 1 \in 0..N BY Numbers DEF Msgs
  <2>3. e[m] = e[m - 1] + Length(m, c[m]) /\ Length(m, c[m]) \in Nat \ {0}
    <3>1. e[m] = IF m < 1 THEN 0 ELSE e[m - 1] + Length(m, c[m]) BY <1>1, <2>2, EndFollows
    <3>2. c[m] \in Marks BY <1>1 DEF Contents
    <3>3. Length(m, c[m]) \in Nat /\ Length(m, c[m]) # 0 BY <1>9, <3>2, Lengths
    <3>4. ~(m < 1) BY Numbers
    <3>. QED BY <3>1, <3>3, <3>4
  <2>4. /\ \A j \in 0..N : e[j] \in Nat
        /\ \A j, k \in 0..N : j <= k => e[j] <= e[k]
    BY <1>1, EndsGrow
  <2> HIDE DEF e
  <2>5. CASE m >= a
    <3>1. a - 1 <= m - 1 BY <1>1, <2>2, <2>5
    <3>. QED BY <1>3, <2>1, <2>2, <2>4, <2>5, <3>1
  <2>6. CASE ~(m >= a)
    <3>1. m <= a - 1 BY <1>1, <2>2, <2>6
    <3>2. e[m] <= e[a - 1] /\ e[m - 1] \in Nat /\ e[a - 1] \in Nat BY <1>3, <2>2, <2>4, <3>1
    <3>. QED BY <2>1, <2>3, <2>6, <3>2
  <2>. QED BY <2>5, <2>6
<1>. QED BY <1>7, <1>8, <1>9

(* The folder with a message appended *)
LEMMA LongerExact ==
  ASSUME NEW f \in Folder, Exact(f), NEW m \in Msgs, \A i \in Msgs : f.has[i] # "none" => i < m
  PROVE  Exact(Longer(f, m))
<1> DEFINE g == Longer(f, m)
           c == f.has
           d == g.has
<1>1. c \in Contents /\ c \in Whole /\ f.at \in [Msgs -> Nat] /\ m \in Nat /\ N \in Nat
      /\ 1 \in Nat \ {0} /\ m \in 0..N /\ m - 1 \in 0..N
  BY WholeIs, Numbers DEF Exact, Folder, Msgs
<1>2. \A i \in Msgs : d[i] = (IF i = m THEN "plain" ELSE c[i])
                      /\ g.at[i] = (IF i = m THEN f.size ELSE f.at[i])
  BY <1>1 DEF Longer, Contents
<1>3. d \in Whole /\ d \in Contents
  <2>1. d \in Whole BY <1>1 DEF Longer, Whole, Full
  <2>. QED BY <2>1, WholeIs
<1>4. \A i \in 1..(m - 1) : c[i] = d[i]
  <2>1. \A i \in 1..(m - 1) : i \in Msgs /\ i # m BY <1>1 DEF Msgs
  <2> HIDE DEF c, d, g
  <2>. QED BY <1>2, <2>1
<1>5. (\A i \in Msgs : i > m - 1 => c[i] = "none") /\ (\A i \in Msgs : i > m => d[i] = "none")
  <2>1. \A i \in Msgs : i \in Nat BY Numbers
  <2> HIDE DEF d, g
  <2>2. \A i \in Msgs : i > m - 1 => c[i] = "none" BY <1>1, <2>1
  <2>3. \A i \in Msgs : i > m => i > m - 1 /\ i # m BY <1>1, <2>1
  <2>. QED BY <1>2, <2>2, <2>3
<1>6. f.size = Ends(c, 1, 0)[m - 1]
  <2>1. WholeSize(c) = Ends(c, 1, 0)[m - 1] BY <1>1, <1>5, EndsStay
  <2>. QED BY <2>1 DEF Exact
<1>7. Ends(d, 1, 0)[m - 1] = f.size
  <2> HIDE DEF c, d, g
  <2>1. Ends(c, 1, 0)[m - 1] = Ends(d, 1, 0)[m - 1] BY <1>1, <1>4, EndsAgree
  <2>. QED BY <1>6, <2>1
<1>8. g.size = WholeSize(d)
  <2>1. g.size = f.size + Length(m, "plain") /\ d[m] = "plain" BY <1>2 DEF Longer
  <2> HIDE DEF c, d, g
  <2>2. WholeSize(d) = Ends(d, 1, 0)[m] BY <1>1, <1>3, <1>5, EndsStay
  <2>3. Ends(d, 1, 0)[m] = IF m < 1 THEN 0 ELSE Ends(d, 1, 0)[m - 1] + Length(m, d[m])
    BY <1>1, EndFollows
  <2>4. ~(m < 1) BY Numbers
  <2>. QED BY <1>7, <2>1, <2>2, <2>3, <2>4
<1>9. Lined(d, g.at)
  <2> SUFFICES ASSUME NEW i \in Msgs, d[i] # "none" PROVE g.at[i] = Ends(d, 1, 0)[i - 1]
    BY DEF Lined
  <2>1. CASE i = m BY <1>2, <1>7, <2>1
  <2>2. CASE i # m
    <3>1. c[i] # "none" /\ g.at[i] = f.at[i] /\ i < m BY <1>2, <2>2
    <3>2. f.at[i] = Ends(c, 1, 0)[i - 1] BY <3>1 DEF Exact, Lined
    <3>3. i - 1 \in 0..N /\ \A j \in 1..(i - 1) : j \in 1..(m - 1) BY <1>1, <3>1, Numbers DEF Msgs
    <3> HIDE DEF c, d, g
    <3>4. Ends(c, 1, 0)[i - 1] = Ends(d, 1, 0)[i - 1] BY <1>4, <3>3, EndsAgree
    <3>. QED BY <3>1, <3>2, <3>4
  <2>. QED BY <2>1, <2>2
<1>. QED BY <1>3, <1>8, <1>9 DEF Exact

(* The folder as it is written back *)
LEMMA RewrittenExact ==
  ASSUME MboxTypeOK, NEW s \in Sessions, dirty[s] \cup del[s] # {}, fp[s] \in Inode,
         ViewOK(base[s], view[s], dirty[s], del[s]), Apart(base[s], file[fp[s]].at),
         base[s] \in Whole, Lined(base[s], file[fp[s]].at)
  PROVE  Exact(Rewritten(s))
<1> DEFINE k == Kept(s)
           p == First(s)
           at == file[fp[s]].at
           r == Rewritten(s)
<1>1. p \in Msgs /\ p \in Nat \ {0} /\ p \in 1..N /\ p - 1 \in 0..N /\ N \in Nat /\ 1 \in Nat \ {0}
      /\ N \in 0..N
  BY FirstIsFirst, Numbers DEF Msgs
<1>2. base[s][p] # "none" /\ \A m \in Msgs : m < p => k[m] = base[s][m] BY BeforeFirst
<1>3. k \in Whole
  <2>1. \A m \in Msgs : k[m] \in Full \cup {"none"} BY KeptIs DEF Whole
  <2>2. k \in Contents BY KeptType
  <2>. QED BY <2>1, <2>2 DEF Whole, Contents
<1>4. /\ r.has = k /\ r.size = Ends(k, p, at[p])[N]
      /\ \A m \in Msgs : r.at[m] = IF m < p THEN at[m] ELSE Ends(k, p, at[p])[m - 1]
  BY RewrittenType
<1> HIDE DEF k, r
<1>5. ASSUME NEW j \in 0..N, j <= p - 1 PROVE Ends(base[s], 1, 0)[j] = Ends(k, 1, 0)[j]
  <2>1. \A i \in 1..j : i \in Msgs /\ i < p BY <1>1, <1>5 DEF Msgs
  <2>2. \A i \in 1..j : base[s][i] = k[i] BY <1>2, <2>1
  <2>. QED BY <2>2, EndsAgree
<1>6. at[p] = Ends(k, 1, 0)[p - 1]
  <2>1. at[p] = Ends(base[s], 1, 0)[p - 1] BY <1>1, <1>2 DEF Lined
  <2>. QED BY <1>1, <1>5, <2>1
<1>7. ASSUME NEW j \in 0..N, j >= p - 1 PROVE Ends(k, p, at[p])[j] = Ends(k, 1, 0)[j]
  BY <1>1, <1>6, <1>7, EndsMeet
<1>8. r.size = WholeSize(r.has) BY <1>1, <1>4, <1>7 DEF WholeSize
<1>9. Lined(r.has, r.at)
  <2> SUFFICES ASSUME NEW m \in Msgs, k[m] # "none" PROVE r.at[m] = Ends(k, 1, 0)[m - 1]
    BY <1>4 DEF Lined
  <2>1. m \in Nat /\ m - 1 \in 0..N BY Numbers DEF Msgs
  <2>2. CASE m < p
    <3>1. base[s][m] # "none" BY <1>2, <2>2
    <3>2. at[m] = Ends(base[s], 1, 0)[m - 1] BY <3>1 DEF Lined
    <3>. QED BY <1>1, <1>4, <1>5, <2>1, <2>2, <3>2
  <2>3. CASE ~(m < p) BY <1>1, <1>4, <1>7, <2>1, <2>3
  <2>. QED BY <2>2, <2>3
<1>. QED BY <1>3, <1>4, <1>8, <1>9 DEF Exact, r


(* A file that has just been created *)
LEMMA NoFileExact == Exact(NoFile)
<1>1. Empty \in Contents /\ Empty \in Whole /\ \A m \in Msgs : Empty[m] = "none"
  BY DEF Empty, Contents, Whole, Marks
<1>2. NoFile.has = Empty /\ NoFile.size = 0 BY DEF NoFile
<1>3. N \in Nat /\ 0 \in 0..N /\ 1 \in Nat \ {0} BY Numbers
<1> HIDE DEF Empty, NoFile
<1>4. WholeSize(Empty) = Ends(Empty, 1, 0)[0]
  <2>1. \A i \in Msgs : i > 0 => Empty[i] = "none" BY <1>1
  <2>. QED BY <1>1, <1>3, <2>1, EndsStay
<1>5. Ends(Empty, 1, 0)[0] = IF 0 < 1 THEN 0 ELSE Ends(Empty, 1, 0)[0 - 1] + Length(0, Empty[0])
  BY <1>3, EndFollows
<1>6. WholeSize(Empty) = 0 BY <1>4, <1>5
<1>. QED BY <1>1, <1>2, <1>6 DEF Exact, Lined

LEMMA ExactInit == Init => ExactInv
<1> SUFFICES ASSUME Init PROVE ExactInv OBVIOUS
<1>1. file[path] = NoFile BY Numbers DEF Init, Inode
<1>2. \A s \in Sessions : ReadOK(s) BY DEF Init, ReadOK
<1>. QED BY <1>1, <1>2, NoFileExact DEF ExactInv

(* What is whole for a session stays so while others write other files. *)
LEMMA OthersRead ==
  ASSUME NEW s \in Sessions, Alone(s), NEW t \in Sessions \ {s}, ReadOK(t),
         pc[t] \in {"commit", "truncated"} => file'[fp[t]] = file[fp[t]]
  PROVE  ReadOK(t)'
<1>1. Kept(t)' = Kept(t) BY SameTemp DEF Alone
<1>. QED BY <1>1 DEF ReadOK, Alone

LEMMA QuietExact ==
  ASSUME ExactInv, NEW s \in Sessions, Quiet(s), torn' = "no" => torn = "no",
         pc[s] = "truncated" => torn' # "no", torn' = "no" => ReadOK(s)'
  PROVE  ExactInv'
<1> SUFFICES ASSUME torn' = "no"
             PROVE  /\ path' # 0 /\ ~Rewriting' => Exact(file'[path'])
                    /\ \A t \in Sessions : ReadOK(t)'
  BY DEF ExactInv, Exact
<1>1. /\ path # 0 /\ ~Rewriting => Exact(file[path])
      /\ \A t \in Sessions : ReadOK(t)
  BY DEF ExactInv
<1>2. ~Rewriting' => ~Rewriting
  <2>1. pc[s] # "truncated" /\ \A t \in Sessions \ {s} : pc'[t] = pc[t] BY DEF Quiet, Alone
  <2>. QED BY <2>1 DEF Rewriting
<1>3. ASSUME NEW t \in Sessions PROVE ReadOK(t)'
  <2>1. CASE t = s BY <2>1
  <2>2. CASE t # s
    <3>1. Alone(s) /\ file' = file BY DEF Quiet, FolderStays
    <3>. QED BY <1>1, <2>2, <3>1, OthersRead
  <2>. QED BY <2>1, <2>2
<1>4. file' = file /\ path' \in {path, 0} BY DEF Quiet, FolderStays
<1>. QED BY <1>1, <1>2, <1>3, <1>4

(* Reading a folder that is whole, all of it or what is new *)
LEMMA ReadingExact ==
  ASSUME UniqueSizes, LossInv, ExactInv, NEW s \in Sessions, Reading(s), torn' = "no"
  PROVE  base'[s] \in Whole /\ size'[s] = WholeSize(base'[s])
<1>1. /\ ShapeInv /\ SessionTypes /\ FolderTypes /\ PlaceOK(s)
      /\ \A t \in Sessions : pc[t] = "truncated" => owner = t
  BY TypesApart DEF LossInv, ShapeInv, SessionInv, PlaceOK
<1>2. /\ path # 0 /\ torn = "no" /\ pc[s] \in {"closed", "open", "grown"}
  BY <1>1, ReadingDoes
<1>3. path \in Inode BY <1>1, <1>2, Numbers DEF FolderTypes, Inode
<1>4. ReadOK(s) /\ (~Rewriting => Exact(file[path])) BY <1>2 DEF ExactInv
<1>5. CASE Open(s)
  <2>1. ~Rewriting BY <1>1, <1>5, Numbers DEF Open, Rewriting
  <2>2. base'[s] = file[path].has /\ size'[s] = file[path].size
    BY <1>1, <1>5 DEF Open, Fresh, SessionTypes
  <2>. QED BY <1>4, <2>1, <2>2 DEF Exact
<1>6. CASE CheckRead(s) \/ SyncReads(s)
  <2>1. owner = None /\ ReadChanges(s, file[path]) BY <1>6 DEF CheckRead, SyncReads
  <2>2. Exact(file[path]) BY <1>1, <1>4, <2>1, Numbers DEF Rewriting
  <2>3. CASE Reopen(s, file[path])
    <3>1. base'[s] = file[path].has /\ size'[s] = file[path].size
      BY <1>1, <1>2, <1>3, <2>3, ReopenReads
    <3>. QED BY <2>2, <3>1 DEF Exact
  <2>4. CASE Appended(s, file[path]) /\ ParseFrom(s, file[path], size[s])
    <3>1. size[s] \in Nat /\ file[path] \in Folder BY <1>1, <1>3 DEF SessionTypes, FolderTypes
    <3>2. base[s] \in Whole /\ size[s] = WholeSize(base[s])
      BY <1>4, <1>6 DEF ReadOK, CheckRead, SyncReads, HasChanges
    <3>3. PICK a \in Msgs : file[path].has[a] # "none" /\ file[path].at[a] = size[s]
      BY <2>4 DEF Appended
    <3>4. /\ \A m \in Msgs : base[s][m] = IF m < a THEN file[path].has[m] ELSE "none"
          /\ \A m \in Msgs : file[path].has[m] # "none" => (file[path].at[m] >= size[s] <=> m >= a)
      BY <2>2, <3>1, <3>2, <3>3, AppendedIsNew
    <3>5. /\ size'[s] = file[path].size /\ base' \in [Sessions -> Contents]
          /\ \A m \in Msgs :
               base'[s][m] = IF file[path].has[m] # "none" /\ file[path].at[m] >= size[s]
                             THEN file[path].has[m] ELSE base[s][m]
      BY <1>1, <1>3, <2>4, <3>1, ParseReads DEF ReadWell
    <3>6. ASSUME NEW m \in Msgs PROVE base'[s][m] = file[path].has[m]
      <4>1. m < a \/ m >= a BY Numbers
      <4>2. base[s][m] = IF m < a THEN file[path].has[m] ELSE "none" BY <3>4
      <4>3. file[path].has[m] # "none" => (file[path].at[m] >= size[s] <=> m >= a) BY <3>4
      <4>4. base'[s][m] = IF file[path].has[m] # "none" /\ file[path].at[m] >= size[s]
                          THEN file[path].has[m] ELSE base[s][m]
        BY <3>5
      <4>. QED BY <4>1, <4>2, <4>3, <4>4
    <3>7. base'[s] = file[path].has
      <4>1. base'[s] \in Contents /\ file[path].has \in Contents BY <3>1, <3>5 DEF Folder
      <4>. QED BY <3>6, <4>1 DEF Contents
    <3>. QED BY <2>2, <3>5, <3>7 DEF Exact
  <2>. QED BY <2>1, <2>3, <2>4 DEF ReadChanges
<1>7. CASE CheckSmaller(s)
  <2>1. fp[s] = path /\ ~Rewriting BY <1>7 DEF CheckSmaller, Rewriting
  <2>2. Reopen(s, file[path]) BY <1>7, <2>1 DEF CheckSmaller
  <2>3. base'[s] = file[path].has /\ size'[s] = file[path].size
    BY <1>1, <1>2, <1>3, <2>2, ReopenReads
  <2>. QED BY <1>4, <2>1, <2>3 DEF Exact
<1>. QED BY <1>5, <1>6, <1>7 DEF Reading

LEMMA SessionExact ==
  ASSUME UniqueSizes, LossInv, ExactInv, NEW s \in Sessions,
         Leaving(s) \/ Editing(s) \/ Reading(s) \/ Passing(s) \/ Refreshing(s)
  PROVE  ExactInv'
<1>1. /\ ShapeInv /\ SessionTypes /\ FolderTypes /\ HistoryTypes /\ PlaceOK(s)
  BY TypesApart DEF LossInv, ShapeInv, SessionInv
<1>2. torn = "no" => ReadOK(s) /\ (path # 0 /\ ~Rewriting => Exact(file[path]))
  BY DEF ExactInv
<1>3. Quiet(s) BY SessionQuiet
<1>4. CASE Leaving(s)
  <2>1. pc'[s] = "closed" BY <1>1, <1>4, LeavingDoes, Fastclosed
  <2>2. torn' \in {torn, "yes"} /\ (pc[s] = "truncated" => torn' = "yes")
    BY <1>1, <1>4, LeavingLeaves
  <2>3. ReadOK(s)' BY <2>1 DEF ReadOK
  <2>. QED BY <1>3, <2>2, <2>3, QuietExact
<1>5. CASE Editing(s)
  <2>1. /\ UNCHANGED <<folderVars, historyVars, pc, fp, base, size>> /\ pc[s] = "open"
    BY <1>1, <1>5, EditingDoes
  <2>2. torn = "no" => ReadOK(s)' BY <1>2, <2>1 DEF ReadOK
  <2>. QED BY <1>3, <2>1, <2>2, QuietExact DEF historyVars
<1>6. CASE Reading(s)
  <2>1. /\ pc'[s] = "open" /\ pc[s] \in {"closed", "open", "grown"} /\ torn' \in {torn, "yes"}
    BY <1>1, <1>6, ReadingDoes
  <2>2. torn' = "no" => base'[s] \in Whole /\ size'[s] = WholeSize(base'[s])
    BY <1>6, ReadingExact
  <2>3. torn' = "no" => ReadOK(s)' BY <2>1, <2>2 DEF ReadOK
  <2>. QED BY <1>3, <2>1, <2>3, QuietExact
<1>7. CASE Passing(s)
  <2>1. /\ UNCHANGED <<base, view, dirty, del, size, path, inodes, file, historyVars>>
        /\ pc[s] \in {"open", "grown", "finish"}
        /\ pc'[s] \in {"open", "grown", "commit", "unlink", "unlink_empty"}
        /\ pc'[s] \in {"open", "grown"} => pc[s] \in {"open", "grown"}
        /\ pc'[s] = "commit" => /\ owner = None /\ path # 0 /\ fp'[s] = path
                                /\ size[s] = file[path].size /\ pc[s] = "open"
    BY <1>1, <1>7, PassingDoes
  <2>2. ASSUME torn = "no" PROVE ReadOK(s)'
    <3>1. CASE pc'[s] = "commit"
      <4>1. ~Rewriting
        BY <2>1, <3>1, <1>1, Numbers DEF Rewriting, ShapeInv, SessionInv, PlaceOK
      <4>2. Exact(file[path]) BY <1>2, <2>1, <2>2, <3>1, <4>1
      <4>3. base[s] \in Whole /\ size[s] = WholeSize(base[s]) BY <1>2, <2>1, <2>2, <3>1 DEF ReadOK
      <4>4. base[s] = file[path].has
        BY <2>1, <3>1, <4>2, <4>3, WholeIs DEF UniqueSizes, Exact
      <4>. QED BY <2>1, <3>1, <4>3, <4>4 DEF ReadOK
    <3>2. CASE pc'[s] # "commit" BY <1>2, <2>1, <2>2, <3>2 DEF ReadOK
    <3>. QED BY <3>1, <3>2
  <2>. QED BY <1>3, <2>1, <2>2, QuietExact DEF historyVars
<1>8. CASE Refreshing(s)
  <2>1. /\ UNCHANGED <<folderVars, historyVars, size>> /\ pc[s] = "finish" /\ pc'[s] = "open"
        /\ base'[s] = Kept(s)
    BY <1>1, <1>8, RefreshingDoes
  <2>2. torn = "no" => ReadOK(s)' BY <1>2, <2>1 DEF ReadOK
  <2>. QED BY <1>3, <2>1, <2>2, QuietExact DEF historyVars
<1>. QED BY <1>4, <1>5, <1>6, <1>7, <1>8

LEMMA TruncateExact ==
  ASSUME LossInv, ExactInv, NEW s \in Sessions, Truncate(s)
  PROVE  ExactInv'
<1>1. ShapeInv BY DEF LossInv
<1>2. /\ Alone(s)
      /\ UNCHANGED <<fp, base, view, dirty, del, size, path, inodes, owner,
                     delivered, rescue, unlinked, clobbered, torn>>
      /\ pc[s] = "commit" /\ pc'[s] = "truncated" /\ fp[s] = path /\ path \in Inode
      /\ base[s] = file[path].has
      /\ Rewritten(s).size \in Nat /\ file[path] \in Folder
      /\ file'[path] = Cut(file[path], Rewritten(s).size)
  BY <1>1, TruncateDoes
<1>3. \A t \in Sessions \ {s} : pc[t] \notin {"commit", "truncated"} BY <1>1, <1>2, Writer
<1> SUFFICES ASSUME torn = "no" PROVE Rewriting' /\ \A t \in Sessions : ReadOK(t)'
  BY <1>2 DEF ExactInv
<1>4. Rewriting' BY <1>2 DEF Rewriting
<1>5. ReadOK(s)'
  <2>1. path # 0 /\ ~Rewriting BY <1>2, <1>3, Numbers DEF Rewriting
  <2>2. Exact(file[path]) BY <2>1 DEF ExactInv
  <2>3. Cut(file[path], Rewritten(s).size).at = file[path].at BY <1>2, CutType
  <2>4. base'[s] \in Whole /\ Lined(base'[s], file'[fp'[s]].at) BY <1>2, <2>2, <2>3 DEF Exact
  <2>. QED BY <1>2, <2>4 DEF ReadOK
<1>6. ASSUME NEW t \in Sessions \ {s} PROVE ReadOK(t)'
  <2>1. ReadOK(t) BY DEF ExactInv
  <2>. QED BY <1>2, <1>3, <2>1, OthersRead
<1>. QED BY <1>4, <1>5, <1>6

LEMMA FlushExact ==
  ASSUME LossInv, ExactInv, NEW s \in Sessions, Flush(s)
  PROVE  ExactInv'
<1>1. ShapeInv /\ MboxTypeOK BY DEF LossInv, ShapeInv
<1>2. /\ Alone(s)
      /\ UNCHANGED <<fp, base, view, dirty, del, path, inodes, historyVars>>
      /\ pc[s] = "truncated" /\ pc'[s] = "finish" /\ fp[s] \in Inode
      /\ file'[fp[s]] = Rewritten(s) /\ size'[s] = Rewritten(s).size
  BY <1>1, FlushDoes
<1>3. /\ dirty[s] \cup del[s] # {} /\ (path = 0 \/ fp[s] = path)
      /\ \A t \in Sessions \ {s} : pc[t] \notin {"commit", "truncated"}
  BY <1>1, <1>2, Writer
<1> SUFFICES ASSUME torn = "no"
             PROVE  (path # 0 => Exact(file'[path])) /\ \A t \in Sessions : ReadOK(t)'
  BY <1>2 DEF ExactInv, historyVars, Exact
<1>4. base[s] \in Whole /\ Lined(base[s], file[fp[s]].at) BY <1>2 DEF ExactInv, ReadOK
<1>5. ViewOK(base[s], view[s], dirty[s], del[s]) /\ Apart(base[s], file[fp[s]].at)
  BY <1>1, <1>2 DEF ShapeInv, SessionInv, LossInv, RewriteInv, RewriteOK
<1>6. Exact(Rewritten(s)) BY <1>1, <1>2, <1>3, <1>4, <1>5, RewrittenExact
<1>7. Rewritten(s).has = Kept(s) BY <1>1, <1>2, <1>3, RewrittenType
<1>8. ReadOK(s)'
  <2>1. Kept(s)' = Kept(s) BY <1>2, SameTemp
  <2>. QED BY <1>2, <1>6, <1>7, <2>1 DEF ReadOK, Exact
<1>9. ASSUME NEW t \in Sessions \ {s} PROVE ReadOK(t)'
  <2>1. ReadOK(t) BY DEF ExactInv
  <2>. QED BY <1>2, <1>3, <2>1, OthersRead
<1>10. path # 0 => Exact(file'[path]) BY <1>2, <1>3, <1>6
<1>. QED BY <1>8, <1>9, <1>10

LEMMA WriteOverTorn ==
  ASSUME ExactInv, NEW s \in Sessions, WriteOver(s)
  PROVE  ExactInv'
<1>1. torn # "no" /\ torn' = torn BY DEF ExactInv, ReadOK, WriteOver
<1>. QED BY <1>1 DEF ExactInv

LEMMA DeliverExact ==
  ASSUME LossInv, ExactInv, Deliver
  PROVE  ExactInv'
<1>1. ShapeInv /\ delivered \in Nat BY TypesApart, Numbers DEF LossInv, ShapeInv, HistoryTypes
<1>2. /\ owner = None /\ UNCHANGED <<sessionVars, owner, torn>>
      /\ delivered + 1 \in Msgs /\ Target \in Inode /\ path' = Target
      /\ file[Target] \in Folder
      /\ file'[Target] = Longer(file[Target], delivered + 1)
      /\ path = 0 => file[Target] = NoFile
  BY <1>1, DeliverDoes
<1>3. \A t \in Sessions : pc[t] \notin {"commit", "truncated"}
  BY <1>1, <1>2, Numbers DEF ShapeInv, SessionInv, PlaceOK
<1> SUFFICES ASSUME torn = "no" PROVE Exact(file'[Target]) /\ \A t \in Sessions : ReadOK(t)'
  BY <1>2 DEF ExactInv, Exact
<1>4. Exact(file[Target])
  <2>1. CASE path = 0 BY <1>2, <2>1, NoFileExact
  <2>2. CASE path # 0 BY <1>3, <2>2 DEF ExactInv, Rewriting, Target
  <2>. QED BY <2>1, <2>2
<1>5. \A i \in Msgs : file[Target].has[i] # "none" => i < delivered + 1
  <2>1. Known(file[Target].has, delivered) BY <1>1, <1>2 DEF ShapeInv, FileInv
  <2>. QED BY <1>1, <2>1, Numbers DEF Known
<1>6. Exact(file'[Target]) BY <1>2, <1>4, <1>5, LongerExact
<1>7. ASSUME NEW t \in Sessions PROVE ReadOK(t)'
  <2>1. Kept(t)' = Kept(t) BY <1>2, SameTemp DEF sessionVars
  <2>2. ReadOK(t) BY DEF ExactInv
  <2>. QED BY <1>2, <1>3, <2>1, <2>2 DEF ReadOK, sessionVars
<1>. QED BY <1>6, <1>7

LEMMA ExactStep == UniqueSizes /\ LossInv /\ ExactInv /\ [Next]_vars => ExactInv'
<1> SUFFICES ASSUME UniqueSizes, LossInv, ExactInv, [Next]_vars PROVE ExactInv' OBVIOUS
<1>1. CASE Deliver BY <1>1, DeliverExact
<1>2. CASE RemoveStaleLock \/ UNCHANGED vars
  <2>1. UNCHANGED <<sessionVars, path, file, torn>>
    BY <1>2 DEF RemoveStaleLock, vars, folderVars, historyVars
  <2>2. \A t \in Sessions : Kept(t)' = Kept(t) BY <2>1, SameTemp DEF sessionVars
  <2>. QED BY <2>1, <2>2 DEF ExactInv, ReadOK, Rewriting, Exact, sessionVars
<1>3. ASSUME NEW s \in Sessions, SessionNext(s) PROVE ExactInv'
  <2>1. CASE Truncate(s) BY <2>1, TruncateExact
  <2>2. CASE Flush(s) BY <2>2, FlushExact
  <2>3. CASE WriteOver(s) BY <2>3, WriteOverTorn
  <2>. QED BY <1>3, <2>1, <2>2, <2>3, SessionSteps, SessionExact
<1>. QED BY <1>1, <1>2, <1>3 DEF Next

LEMMA ExactAlways ==
  ASSUME UniqueSizes
  PROVE  Spec => []ExactInv
<1>1. LossInv /\ ExactInv /\ [Next]_vars => ExactInv' BY ExactStep
<1>. QED BY <1>1, ExactInit, LossAlways, PTL DEF Spec

(* "Check to make sure that the file hasn't changed on disk"                 *)
(* (mbox.c:_mbox_sync_mailbox): if no two folders are of the same size, what *)
(* a session writes the folder from is what is in the file, in every         *)
(* interleaving of deliveries, checks and rewrites by any number of          *)
(* sessions, unless somebody has read the folder while it was not whole.     *)
THEOREM SyncSeesWhole ==
  ASSUME UniqueSizes
  PROVE  Spec => []SyncSeesWholeFolder
<1>1. ExactInv => SyncSeesWholeFolder
  BY DEF ExactInv, ReadOK, SyncSeesWholeFolder, SyncSeesFolder, SeesFolder
<1>. QED BY <1>1, ExactAlways, PTL

-----------------------------------------------------------------------------
(* What holds as long as the folder is read whole *)

(* Nobody writes who has read something else than what is in the file. *)
LEMMA NoWriteOver ==
  ASSUME ExactInv, torn = "no", NEW s \in Sessions
  PROVE  ~WriteOver(s)
BY DEF ExactInv, ReadOK, WriteOver

(* No other step loses anything that way, or makes a torn folder whole. *)
LEMMA OthersClobberNothing ==
  ASSUME LossInv, NEW s \in Sessions, SessionNext(s), ~WriteOver(s)
  PROVE  clobbered' = clobbered /\ torn' \in {torn, "yes"}
<1>1. ShapeInv /\ HistoryTypes BY TypesApart DEF LossInv, ShapeInv
<1>2. CASE Leaving(s) BY <1>1, <1>2, LeavingDoes, LeavingLeaves DEF FolderStays
<1>3. CASE Editing(s) BY <1>1, <1>3, EditingDoes DEF historyVars
<1>4. CASE Reading(s) BY <1>1, <1>4, ReadingDoes
<1>5. CASE Passing(s) BY <1>1, <1>5, PassingDoes DEF historyVars
<1>6. CASE Refreshing(s) BY <1>1, <1>6, RefreshingDoes DEF historyVars
<1>7. CASE Truncate(s) BY <1>7 DEF Truncate
<1>8. CASE Flush(s) BY <1>8 DEF Flush, historyVars
<1>. QED BY <1>2, <1>3, <1>4, <1>5, <1>6, <1>7, <1>8, SessionSteps

NothingClobbered == torn = "no" => clobbered = {}

LEMMA NothingClobberedAlways ==
  ASSUME UniqueSizes
  PROVE  Spec => []NothingClobbered
<1>1. Init => NothingClobbered BY DEF Init, NothingClobbered
<1>2. LossInv /\ ExactInv /\ NothingClobbered /\ [Next]_vars => NothingClobbered'
  <2> SUFFICES ASSUME LossInv, ExactInv, NothingClobbered, [Next]_vars, torn' = "no"
               PROVE  clobbered' = {}
    BY DEF NothingClobbered
  <2>1. CASE Deliver \/ RemoveStaleLock \/ UNCHANGED vars
    BY <2>1 DEF Deliver, RemoveStaleLock, vars, historyVars, NothingClobbered
  <2>2. ASSUME NEW s \in Sessions, SessionNext(s) PROVE clobbered' = {}
    <3>1. CASE WriteOver(s)
      <4>1. torn = "no" BY <3>1 DEF WriteOver
      <4>. QED BY <3>1, <4>1, NoWriteOver
    <3>2. CASE ~WriteOver(s)
      <4>1. clobbered' = clobbered /\ torn = "no" BY <2>2, <3>2, OthersClobberNothing
      <4>. QED BY <4>1 DEF NothingClobbered
    <3>. QED BY <3>1, <3>2
  <2>. QED BY <2>1, <2>2 DEF Next
<1>. QED BY <1>1, <1>2, LossAlways, ExactAlways, PTL DEF Spec

(* No mail is lost when sessions write an mbox (mbox.c:_mbox_sync_mailbox):  *)
(* a delivered message that no user has deleted is in the folder, or in the  *)
(* temporary file of the session that writes, or in one that is left behind, *)
(* however many sessions there are and wherever they fail or are killed.     *)
(* Two things are excepted: what mx_sync_mailbox() unlinks an emptied folder *)
(* with, and, once a folder has been read that was not whole, what a session *)
(* overwrites that had read something else.  Sessions tell by its size       *)
(* whether the folder has changed, so no two folders may be of one size.     *)
THEOREM NoMailIsLost ==
  ASSUME UniqueSizes
  PROVE  Spec => []NoMailLost
<1>1. LossInv /\ MboxTypeOK /\ NothingClobbered => NoMailLost
  <2> SUFFICES ASSUME LossInv, MboxTypeOK, NothingClobbered, NEW m \in 1..delivered,
                      ~(m \in removed \cup rescue \cup unlinked),
                      ~(torn = "yes" /\ m \in clobbered)
               PROVE  InFolder(m)
    BY DEF NoMailLost
  <2>1. m \notin clobbered BY DEF NothingClobbered, MboxTypeOK
  <2>2. path # 0 /\ (file[path].has[m] \in Full \/ \E s \in Sessions : Written(s, m))
    BY <2>1 DEF LossInv, MailInv
  <2>. QED BY <2>2 DEF InFolder, Written, Full
<1>. QED BY <1>1, LossAlways, MboxTypeCorrect, NothingClobberedAlways, PTL

(* A session writes a message with other flags than it has in the file only  *)
(* if its own user has changed them (mbox.c:_mbox_sync_mailbox, with         *)
(* mbox_reopen_mailbox): no session undoes what another one has written, as  *)
(* long as the folder is read whole and no two folders are of one size.      *)
THEOREM NoUpdateIsLost ==
  ASSUME UniqueSizes
  PROVE  Spec => NoLostUpdate
<1> DEFINE Step ==
      \A m \in Msgs :
       /\ torn = "no" /\ path # 0 /\ path' = path
       /\ file[path].has[m] \in {"plain", "marked"}
       /\ file'[path].has[m] \in {"plain", "marked"} \ {file[path].has[m]}
       => \E s \in Sessions : m \in dirty[s] /\ view[s][m] = file'[path].has[m]
<1>1. LossInv /\ ExactInv /\ [Next]_vars => [Step]_vars
  <2> SUFFICES ASSUME LossInv, ExactInv, Next, NEW m \in Msgs, torn = "no", path # 0, path' = path,
                      file[path].has[m] \in Full,
                      file'[path].has[m] \in Full, file'[path].has[m] # file[path].has[m]
               PROVE  \E s \in Sessions : m \in dirty[s] /\ view[s][m] = file'[path].has[m]
    BY DEF Full
  <2>1. CASE Deliver
    <3>1. /\ ShapeInv /\ Target = path /\ delivered \in Nat BY TypesApart, Numbers, <2>1
             DEF LossInv, ShapeInv, HistoryTypes, Target
    <3>2. /\ file[path] \in Folder /\ file'[path] = Longer(file[path], delivered + 1)
          /\ path \in Inode
      BY <2>1, <3>1, DeliverDoes
    <3>3. m # delivered + 1
      <4>1. file[path].has[m] # "none" BY DEF Full
      <4>2. m <= delivered BY <3>1, <3>2, <4>1 DEF ShapeInv, FileInv, Known
      <4>. QED BY <3>1, <4>2, Numbers
    <3>4. Longer(file[path], delivered + 1).has[m] = file[path].has[m]
      BY <3>2, <3>3 DEF Longer, Folder, Contents
    <3>. QED BY <3>2, <3>4
  <2>2. CASE RemoveStaleLock BY <2>2 DEF RemoveStaleLock
  <2>3. ASSUME NEW s \in Sessions, SessionNext(s)
        PROVE  m \in dirty[s] /\ view[s][m] = file'[path].has[m]
    BY <2>3, NoWriteOver, OwnFlagsOnly DEF OwnFlags
  <2>. QED BY <2>1, <2>2, <2>3 DEF Next
<1>. QED BY <1>1, LossAlways, ExactAlways, PTL DEF Spec, NoLostUpdate

-----------------------------------------------------------------------------
LEMMA SessionAlone ==
  ASSUME ShapeInv, NEW s \in Sessions, SessionNext(s)
  PROVE  Alone(s)
<1>1. SessionTypes BY TypesApart DEF ShapeInv
<1>2. Leaving(s) => Alone(s) BY <1>1, LeavingDoes, Fastclosed
<1>. QED
  BY <1>2, SessionSteps, EditingDoes, ReadingDoes, PassingDoes, RefreshingDoes, TruncateDoes,
     WriteOverDoes, FlushDoes

(* What a step does to the user's pending changes *)
KeepsPending(s) ==
  \A m \in Msgs : view'[s][m] # "none" =>
    /\ m \in dirty[s] => view'[s][m] = view[s][m]
    /\ m \in del[s] => m \in del'[s]

(* Reading a whole folder again finds every message that is still there. *)
LEMMA ReadingKeeps ==
  ASSUME UniqueSizes, LossInv, ExactInv, NEW s \in Sessions, Reading(s), torn' = "no"
  PROVE  KeepsPending(s)
<1>1. /\ ShapeInv /\ SessionTypes /\ FolderTypes /\ PlaceOK(s)
      /\ ViewOK(base[s], view[s], dirty[s], del[s])
      /\ \A t \in Sessions : pc[t] = "truncated" => owner = t
  BY TypesApart DEF LossInv, ShapeInv, SessionInv, PlaceOK
<1>2. /\ path # 0 /\ torn = "no" /\ pc[s] \in {"closed", "open", "grown"}
  BY <1>1, ReadingDoes
<1>3. path \in Inode BY <1>1, <1>2, Numbers DEF FolderTypes, Inode
<1>4. ReadOK(s) /\ (~Rewriting => Exact(file[path])) BY <1>2 DEF ExactInv
<1>5. base'[s] \in Whole BY ReadingExact
<1>6. ASSUME NEW i \in Inode, Reopen(s, file[i]), pc[s] \in {"open", "grown"} PROVE KeepsPending(s)
  <2>1. /\ base'[s] = file[i].has
        /\ \A m \in Msgs :
             (file[i].has[m] # "none" /\ (file[i].has[m] = "partial" <=> view[s][m] = "partial"))
               => (m \in dirty[s] => view'[s][m] = view[s][m]) /\ (m \in del[s] => m \in del'[s])
        /\ \A m \in Msgs : file[i].has[m] = "none" => view'[s][m] = "none"
    BY <1>1, <1>2, <1>6, ReopenReads
  <2>2. base[s] \in Whole BY <1>4, <1>6 DEF ReadOK
  <2>3. \A m \in Msgs : view[s][m] # "partial" /\ file[i].has[m] # "partial"
    BY <1>1, <1>5, <2>1, <2>2 DEF ViewOK, Whole, Full
  <2>. QED BY <2>1, <2>3 DEF KeepsPending
<1>7. CASE Open(s)
  <2>1. dirty[s] = {} /\ del[s] = {} BY <1>1, <1>7 DEF Open, PlaceOK
  <2>. QED BY <2>1 DEF KeepsPending
<1>8. CASE CheckRead(s) \/ SyncReads(s)
  <2>1. owner = None /\ ReadChanges(s, file[path]) /\ pc[s] \in {"open", "grown"}
    BY <1>8 DEF CheckRead, SyncReads, HasChanges
  <2>2. CASE Reopen(s, file[path]) BY <1>3, <1>6, <2>1, <2>2
  <2>3. CASE Appended(s, file[path]) /\ ParseFrom(s, file[path], size[s])
    <3>1. size[s] \in Nat /\ file[path] \in Folder BY <1>1, <1>3 DEF SessionTypes, FolderTypes
    <3>2. base[s] \in Whole /\ size[s] = WholeSize(base[s]) BY <1>4, <2>1 DEF ReadOK
    <3>3. PICK a \in Msgs : file[path].has[a] # "none" /\ file[path].at[a] = size[s]
      BY <2>3 DEF Appended
    <3>4. Exact(file[path]) BY <1>1, <1>4, <2>1, Numbers DEF Rewriting
    <3>5. /\ \A m \in Msgs : base[s][m] = IF m < a THEN file[path].has[m] ELSE "none"
          /\ \A m \in Msgs : file[path].has[m] # "none" => (file[path].at[m] >= size[s] <=> m >= a)
      BY <3>1, <3>2, <3>3, <3>4, AppendedIsNew
    <3>6. /\ dirty' = dirty /\ del' = del
          /\ \A m \in Msgs :
               view'[s][m] = IF file[path].has[m] # "none" /\ file[path].at[m] >= size[s]
                             THEN file[path].has[m] ELSE view[s][m]
      BY <1>1, <1>3, <2>3, <3>1, ParseReads
    <3>7. ASSUME NEW m \in Msgs, m \in dirty[s] PROVE view'[s][m] = view[s][m]
      <4>1. base[s][m] # "none" BY <1>1, <3>7 DEF ViewOK
      <4>2. m < a /\ file[path].has[m] # "none" BY <3>5, <4>1
      <4>3. ~(m >= a) BY <4>2, Numbers
      <4>. QED BY <3>5, <3>6, <4>2, <4>3
    <3>. QED BY <3>6, <3>7 DEF KeepsPending
  <2>. QED BY <2>1, <2>2, <2>3 DEF ReadChanges
<1>9. CASE CheckSmaller(s)
  <2>1. fp[s] = path /\ pc[s] = "open" BY <1>9 DEF CheckSmaller
  <2>. QED BY <1>3, <1>6, <1>9, <2>1 DEF CheckSmaller
<1>. QED BY <1>7, <1>8, <1>9 DEF Reading

(* A flag that the user has changed, or a deletion, survives until the       *)
(* session closes the folder: mbox_reopen_mailbox() finds every message that *)
(* is still there, and what is parsed from the end on is new.  It holds if   *)
(* no two folders are of the same size and the folder was read whole.        *)
THEOREM PendingIsKept ==
  ASSUME UniqueSizes
  PROVE  Spec => PendingKept
<1> DEFINE Step ==
      \A s \in Sessions, m \in Msgs :
       /\ torn' = "no" /\ pc'[s] # "closed" /\ view'[s][m] # "none"
       /\ ~\E n \in Msgs : Mark(s, n) \/ Delete(s, n)
       => /\ m \in dirty[s] => view'[s][m] = view[s][m]
          /\ m \in del[s] => m \in del'[s]
<1>1. LossInv /\ ExactInv /\ [Next]_vars => [Step]_vars
  <2> SUFFICES ASSUME LossInv, ExactInv, Next, NEW t \in Sessions, torn' = "no", pc'[t] # "closed",
                      ~Editing(t)
               PROVE  KeepsPending(t)
    BY DEF KeepsPending, Editing
  <2>0. ShapeInv BY DEF LossInv
  <2>1. CASE Deliver BY <2>1 DEF Deliver, sessionVars, KeepsPending
  <2>2. CASE RemoveStaleLock BY <2>2 DEF RemoveStaleLock, sessionVars, KeepsPending
  <2>3. ASSUME NEW s \in Sessions, SessionNext(s), t # s PROVE KeepsPending(t)
    <3>1. Alone(s) BY <2>0, <2>3, SessionAlone
    <3>. QED BY <2>3, <3>1 DEF Alone, KeepsPending
  <2>4. ASSUME SessionNext(t) PROVE KeepsPending(t)
    <3>1. ~Leaving(t)
      <4>1. Leaving(t) => pc'[t] = "closed"
        BY <2>0, LeavingDoes, Fastclosed, TypesApart DEF ShapeInv
      <4>. QED BY <4>1
    <3>2. CASE Reading(t) BY <3>2, ReadingKeeps
    <3>3. CASE Passing(t) BY <2>0, <3>3, PassingDoes DEF KeepsPending
    <3>4. CASE Refreshing(t)
      <4>1. view'[t] = Kept(t) BY <2>0, <3>4, RefreshingDoes
      <4>. QED BY <4>1 DEF KeepsPending, Kept
    <3>5. CASE Truncate(t) BY <3>5 DEF Truncate, KeepsPending
    <3>6. CASE Flush(t) BY <3>6 DEF Flush, KeepsPending
    <3>7. CASE WriteOver(t) BY <3>7 DEF WriteOver, KeepsPending
    <3>. QED BY <2>4, <3>1, <3>2, <3>3, <3>4, <3>5, <3>6, <3>7, SessionSteps
  <2>. QED BY <2>1, <2>2, <2>3, <2>4 DEF Next
<1>. QED BY <1>1, LossAlways, ExactAlways, PTL DEF Spec, PendingKept
=============================================================================
