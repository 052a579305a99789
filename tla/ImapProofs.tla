----------------------------- MODULE ImapProofs -----------------------------
(***************************************************************************)
(* Proofs about the IMAP client, for any number of messages and any bound  *)
(* on what other clients and the user do: the state stays well typed,      *)
(* headers have the numbers the server knows their messages by, new mail   *)
(* is not forgotten, the counters agree with the headers, the headers with *)
(* the flags on the server, a sync saves all that has been changed, and    *)
(* only what somebody has deleted is expunged.                             *)
(***************************************************************************)
EXTENDS Imap, FiniteSetTheorems, TLAPS

-----------------------------------------------------------------------------
(* Sets of numbers, and the places of their members.                         *)

LEMMA SubsetOfRange ==
  ASSUME NEW n \in Nat, NEW S \in SUBSET (1..n)
  PROVE  IsFiniteSet(S) /\ Cardinality(S) \in Nat /\ Cardinality(S) <= n /\ S \subseteq Int
<1>1. IsFiniteSet(1..n) /\ Cardinality(1..n) = n BY FS_Interval
<1>2. IsFiniteSet(S) /\ Cardinality(S) <= n BY <1>1, FS_Subset
<1>3. S \subseteq Int OBVIOUS
<1> QED BY <1>2, <1>3, FS_CardinalityType

LEMMA RankBounds ==
  ASSUME NEW n \in Nat, NEW S \in SUBSET (1..n), NEW x \in S
  PROVE  Rank(S, x) \in 1..Cardinality(S)
<1> DEFINE B == {y \in S : y <= x}
<1>1. IsFiniteSet(S) /\ B \subseteq S /\ x \in B BY SubsetOfRange
<1>2. IsFiniteSet(B) /\ Cardinality(B) <= Cardinality(S) BY <1>1, FS_Subset
<1>3. Cardinality(B) # 0 BY <1>1, <1>2, FS_EmptySet
<1>4. Cardinality(B) \in Nat /\ Cardinality(S) \in Nat BY <1>1, <1>2, FS_CardinalityType
<1> QED BY <1>2, <1>3, <1>4 DEF Rank

(* A larger member has a higher place. *)
LEMMA RankLess ==
  ASSUME NEW n \in Nat, NEW S \in SUBSET (1..n), NEW x \in S, NEW y \in S, x < y
  PROVE  Rank(S, x) < Rank(S, y)
<1> DEFINE A == {z \in S : z <= x}
           B == {z \in S : z <= y}
<1>1. IsFiniteSet(B) BY SubsetOfRange, FS_Subset
<1>2. A \subseteq B /\ y \in B /\ y \notin A
  <2>1. x \in Int /\ y \in Int BY SubsetOfRange
  <2>2. ASSUME NEW z \in S, z <= x PROVE z <= y
    <3>1. z \in Int BY SubsetOfRange
    <3> QED BY <2>1, <2>2, <3>1
  <2>3. y <= y /\ ~(y <= x) BY <2>1
  <2> QED BY <2>2, <2>3
<1>3. IsFiniteSet(A) /\ Cardinality(A) <= Cardinality(B) /\ Cardinality(A) # Cardinality(B)
  BY <1>1, <1>2, FS_Subset
<1>4. Cardinality(A) \in Nat /\ Cardinality(B) \in Nat BY <1>1, <1>3, FS_CardinalityType
<1> QED BY <1>3, <1>4 DEF Rank

LEMMA RankEqual ==
  ASSUME NEW n \in Nat, NEW S \in SUBSET (1..n), NEW x \in S, NEW y \in S,
         Rank(S, x) = Rank(S, y)
  PROVE  x = y
<1>1. Rank(S, x) \in Nat /\ Rank(S, y) \in Nat
  <2>1. Rank(S, x) \in 1..Cardinality(S) /\ Rank(S, y) \in 1..Cardinality(S) BY RankBounds
  <2> QED BY <2>1, SubsetOfRange
<1>0. x \in Int /\ y \in Int BY SubsetOfRange
<1>2. CASE x < y
  <2>1. Rank(S, x) < Rank(S, y) BY <1>2, RankLess
  <2> QED BY <1>1, <2>1
<1>3. CASE y < x
  <2>1. Rank(S, y) < Rank(S, x) BY <1>3, RankLess
  <2> QED BY <1>1, <2>1
<1> QED BY <1>0, <1>2, <1>3

(* Every place up to the number of members is some member's. *)
LEMMA NthRank ==
  ASSUME NEW n \in Nat, NEW S \in SUBSET (1..n), NEW k \in 1..Cardinality(S)
  PROVE  Nth(S, k) \in S /\ Rank(S, Nth(S, k)) = k
<1> DEFINE c == Cardinality(S)
           f == [x \in S |-> Rank(S, x)]
           T == (1..c) \ {k}
<1>1. IsFiniteSet(S) /\ c \in Nat BY SubsetOfRange
<1>2. \E x \in S : Rank(S, x) = k
  <2> SUFFICES ASSUME \A x \in S : Rank(S, x) # k PROVE FALSE OBVIOUS
  <2>1. f \in [S -> T] BY RankBounds
  <2>2. IsFiniteSet(1..c) /\ Cardinality(1..c) = c BY <1>1, FS_Interval
  <2>3. IsFiniteSet(T) /\ Cardinality(T) = c - 1 BY <2>2, FS_RemoveElement
  <2>4. Cardinality(T) < Cardinality(S) BY <2>3, <1>1
  <2>5. \E x, y \in S : x # y /\ f[x] = f[y]
    <3> HIDE DEF f, T
    <3> QED BY <1>1, <2>1, <2>3, <2>4, FS_PigeonHole
  <2> QED BY <2>5, RankEqual
<1> QED BY <1>2 DEF Nth

LEMMA NthLess ==
  ASSUME NEW n \in Nat, NEW S \in SUBSET (1..n),
         NEW j \in 1..Cardinality(S), NEW k \in 1..Cardinality(S), j < k
  PROVE  Nth(S, j) < Nth(S, k)
<1>1. Nth(S, j) \in S /\ Rank(S, Nth(S, j)) = j /\ Nth(S, k) \in S /\ Rank(S, Nth(S, k)) = k
  BY NthRank
<1>2. CASE Nth(S, k) < Nth(S, j)
  <2>1. k < j BY <1>1, <1>2, RankLess
  <2> QED BY <2>1, SubsetOfRange
<1>3. Nth(S, j) \in Int /\ Nth(S, k) \in Int BY <1>1, SubsetOfRange
<1>4. Nth(S, j) # Nth(S, k) BY <1>1
<1> QED BY <1>2, <1>3, <1>4

(* The place of a member is not changed by larger members, and goes down by  *)
(* one when a smaller member is taken away.                                  *)
LEMMA RankUnion ==
  ASSUME NEW S, NEW N, NEW x, \A y \in N : ~(y <= x)
  PROVE  Rank(S \cup N, x) = Rank(S, x)
<1>1. {y \in S \cup N : y <= x} = {y \in S : y <= x} OBVIOUS
<1> QED BY <1>1 DEF Rank

LEMMA RankRemove ==
  ASSUME NEW n \in Nat, NEW S \in SUBSET (1..n), NEW x \in S, NEW u \in S, x # u
  PROVE  Rank(S \ {u}, x) = IF u < x THEN Rank(S, x) - 1 ELSE Rank(S, x)
<1> DEFINE B == {y \in S : y <= x}
<1>1. {y \in S \ {u} : y <= x} = B \ {u} OBVIOUS
<1>2. IsFiniteSet(B) BY SubsetOfRange, FS_Subset
<1>3. CASE u < x
  <2>1. u \in B BY <1>3
  <2>2. Cardinality(B \ {u}) = Cardinality(B) - 1 BY <1>2, <2>1, FS_RemoveElement
  <2> QED BY <1>1, <1>3, <2>2 DEF Rank
<1>4. CASE ~(u < x)
  <2>1. B \ {u} = B BY <1>4
  <2> QED BY <1>1, <1>4, <2>1 DEF Rank
<1> QED BY <1>3, <1>4


-----------------------------------------------------------------------------
(* The type invariant in parts. *)
ServerTypes ==
  /\ mail \subseteq Uids /\ flags \in [Uids -> SUBSET Flags] /\ uidnext \in 1..(MaxUid + 1)
ToldTypes == told \subseteq Uids /\ toldFlags \in [Uids -> SUBSET Flags]
ViewTypes == view \in Seq(Header) /\ Len(view) <= MaxUid
ClientTypes ==
  /\ ctx \in [changed : 0..1, deleted : Int, vcount : Nat]
  /\ reopen \subseteq Bits /\ newCount \in 0..MaxUid
  /\ status \subseteq {"expunge", "newmail", "flags"}
StackTypes == stack \in Seq(Frame) /\ job \in Jobs
HistoryTypes ==
  /\ events \in 0..MaxEvents /\ gap \subseteq Gaps
  /\ off \subseteq Uids /\ swept \subseteq Uids /\ wanted \subseteq Uids /\ marked \subseteq Uids

(* The outermost command. *)
Sent(op) == stack # <<>> /\ stack[1].op = op

(* Commands nest only where one has ended; what is nested is a FETCH of      *)
(* headers.  What is done when a command is sent, and which header a command *)
(* is about.                                                                 *)
NestInv ==
  /\ \A i \in DOMAIN stack : i < Len(stack) => stack[i].stage = "done"
  /\ \A i \in DOMAIN stack : i > 1 => stack[i].op = "FETCH"
  /\ \A i \in DOMAIN stack : stack[i].op \notin {"EXPUNGE", "CLOSE"} => stack[i].stage # "sent"
JobInv ==
  /\ job.op \in {"idle", "closed"} => stack = <<>> /\ job.phase = "-"
  /\ job.op = "idle" => "allow" \notin reopen
  /\ job.op = "open" => Len(stack) = 1 /\ stack[1].op = "FETCH" /\ "allow" \notin reopen
  /\ job.phase # "-" => job.op \in {"check", "sync", "close"}
  /\ job.phase \in {"delete", "flags", "expunge"} => job.op # "check"
  /\ Sent("NOOP") => job.phase = "noop"
  /\ Sent("STORE deleted") => job.phase = "delete"
  /\ Sent("STORE") => job.phase = "flags"
  /\ Sent("EXPUNGE") => job.phase = "expunge"
  /\ Sent("CLOSE") => job.op = "close" /\ job.phase \in {"-", "expunge"}
  /\ Sent("UID FETCH") => job.op = "fetch" /\ Len(stack) = 1 /\ "allow" \notin reopen
  /\ job.phase = "expunge" => Sent("EXPUNGE") \/ Sent("CLOSE")
PlaceInv ==
  /\ Sent("UID FETCH") => job.pos \in DOMAIN view /\ ~view[job.pos].active
  /\ Sent("STORE") /\ stack[1].stage = "running" =>
       /\ job.pos \in DOMAIN view /\ ~view[job.pos].active
       /\ stack[1].uids = {view[job.pos].uid}

(* A FETCH of headers that has not failed: no EXPUNGE is pending, the next   *)
(* header is read behind the others, and no message is read that the server  *)
(* has not announced.  While new mail is announced and no EXPUNGE pending,   *)
(* newMailCount is what the server has said, and there is mail to be read    *)
(* that a FETCH in progress does not ask for.                                *)
Reading == stack # <<>> /\ Top.op = "FETCH" /\ (Top.stage = "running" \/ Top.ok)
FetchInv ==
  /\ \A i \in DOMAIN stack : stack[i].op = "FETCH" =>
       /\ stack[i].next <= Len(view) + 1 /\ stack[i].old <= Len(view)
       /\ stack[i].end <= Cardinality(told)
  /\ Reading => "expunge" \notin reopen
  /\ Running("FETCH") => Top.next = Len(view) + 1 /\ Top.last <= Top.end
AnnouncedInv ==
  /\ "newmail" \in reopen /\ "expunge" \notin reopen =>
       newCount = Cardinality(told) /\ Len(view) < newCount
  /\ Running("FETCH") /\ "newmail" \in reopen => Top.last < newCount

BasicInv ==
  /\ ServerTypes /\ ToldTypes /\ ViewTypes /\ ClientTypes /\ StackTypes /\ HistoryTypes
  /\ NestInv /\ JobInv /\ PlaceInv /\ FetchInv /\ AnnouncedInv

LEMMA SeqIs ==
  ASSUME NEW S, NEW n \in Nat, NEW v \in [1..n -> S]
  PROVE  v \in Seq(S) /\ Len(v) = n /\ DOMAIN v = 1..n
  OBVIOUS

LEMMA SeqHas ==
  ASSUME NEW S, NEW v \in Seq(S)
  PROVE  Len(v) \in Nat /\ DOMAIN v = 1..Len(v) /\ (\A i \in DOMAIN v : v[i] \in S)
         /\ (v = <<>> <=> Len(v) = 0)
  OBVIOUS

(* The number of messages muttng has been told of. *)
LEMMA ToldCount ==
  ASSUME ToldTypes
  PROVE  IsFiniteSet(told) /\ Cardinality(told) \in 0..MaxUid /\ told \in SUBSET (1..MaxUid)
  BY ImapAssumption, SubsetOfRange DEF ToldTypes, Uids

LEMMA TopIs ==
  ASSUME StackTypes, stack # <<>>
  PROVE  /\ Len(stack) \in Nat \ {0} /\ Len(stack) \in DOMAIN stack /\ 1 \in DOMAIN stack
         /\ DOMAIN stack = 1..Len(stack)
         /\ Top = stack[Len(stack)] /\ Top \in Frame
  BY SeqHas DEF StackTypes, Top

-----------------------------------------------------------------------------
(* What is done to the stack of commands.                                    *)

LEMMA ReplaceIs ==
  ASSUME StackTypes, stack # <<>>, NEW f \in Frame
  PROVE  /\ Replace(f) \in Seq(Frame) /\ Len(Replace(f)) = Len(stack)
         /\ DOMAIN Replace(f) = DOMAIN stack /\ Replace(f) # <<>>
         /\ Replace(f)[Len(stack)] = f
         /\ \A i \in DOMAIN stack : i # Len(stack) => Replace(f)[i] = stack[i]
<1>1. Len(stack) \in Nat \ {0} /\ Len(stack) \in DOMAIN stack /\ DOMAIN stack = 1..Len(stack)
      /\ \A i \in DOMAIN stack : stack[i] \in Frame
  BY TopIs, SeqHas DEF StackTypes
<1>2. Replace(f) \in [1..Len(stack) -> Frame] BY <1>1 DEF Replace
<1>3. Replace(f) \in Seq(Frame) /\ Len(Replace(f)) = Len(stack) BY <1>1, <1>2, SeqIs
<1> QED BY <1>1, <1>3 DEF Replace

LEMMA NestedIs ==
  ASSUME StackTypes, stack # <<>>, NEW ok \in BOOLEAN
  PROVE  /\ Nested(ok) \in Seq(Frame) /\ Len(Nested(ok)) = Len(stack) - 1
         /\ DOMAIN Nested(ok) = 1..(Len(stack) - 1)
         /\ \A i \in DOMAIN Nested(ok) :
              /\ i \in DOMAIN stack
              /\ Nested(ok)[i] = IF i = Len(stack) - 1 THEN [stack[i] EXCEPT !.ok = ok] ELSE stack[i]
              /\ Nested(ok)[i].op = stack[i].op /\ Nested(ok)[i].stage = stack[i].stage
              /\ Nested(ok)[i].uids = stack[i].uids /\ Nested(ok)[i].next = stack[i].next
              /\ Nested(ok)[i].last = stack[i].last /\ Nested(ok)[i].end = stack[i].end
              /\ Nested(ok)[i].old = stack[i].old
<1>1. Len(stack) \in Nat \ {0} /\ DOMAIN stack = 1..Len(stack)
      /\ \A i \in DOMAIN stack : stack[i] \in Frame
  BY TopIs, SeqHas DEF StackTypes
<1>2. ASSUME NEW i \in 1..(Len(stack) - 1)
      PROVE  /\ i \in DOMAIN stack
             /\ Nested(ok)[i] = IF i = Len(stack) - 1 THEN [stack[i] EXCEPT !.ok = ok] ELSE stack[i]
             /\ Nested(ok)[i] \in Frame
             /\ Nested(ok)[i].op = stack[i].op /\ Nested(ok)[i].stage = stack[i].stage
             /\ Nested(ok)[i].uids = stack[i].uids /\ Nested(ok)[i].next = stack[i].next
             /\ Nested(ok)[i].last = stack[i].last /\ Nested(ok)[i].end = stack[i].end
             /\ Nested(ok)[i].old = stack[i].old
  <2>1. i \in DOMAIN stack BY <1>1
  <2>2. Nested(ok)[i] = IF i = Len(stack) - 1 THEN [stack[i] EXCEPT !.ok = ok] ELSE stack[i]
    BY DEF Nested
  <2>3. stack[i] \in Frame BY <1>1, <2>1
  <2>4. [stack[i] EXCEPT !.ok = ok] \in Frame BY <2>3 DEF Frame
  <2> QED BY <2>1, <2>2, <2>3, <2>4 DEF Frame
<1>3. Nested(ok) = [i \in 1..(Len(stack) - 1) |-> Nested(ok)[i]] BY DEF Nested
<1>4. Nested(ok) \in [1..(Len(stack) - 1) -> Frame] BY <1>2, <1>3
<1>5. Len(stack) - 1 \in Nat BY <1>1
<1> QED BY <1>2, <1>4, <1>5, SeqIs

LEMMA AppendIs ==
  ASSUME NEW S, NEW s \in Seq(S), NEW x \in S
  PROVE  /\ Append(s, x) \in Seq(S) /\ Len(Append(s, x)) = Len(s) + 1
         /\ DOMAIN Append(s, x) = 1..(Len(s) + 1) /\ Append(s, x) # <<>>
         /\ Append(s, x)[Len(s) + 1] = x
         /\ \A i \in DOMAIN s : Append(s, x)[i] = s[i] /\ i \in DOMAIN Append(s, x)
  OBVIOUS

LEMMA SingleIs ==
  ASSUME NEW S, NEW x \in S
  PROVE  <<x>> \in Seq(S) /\ Len(<<x>>) = 1 /\ DOMAIN <<x>> = {1} /\ <<x>>[1] = x /\ <<x>> # <<>>
  OBVIOUS

LEMMA CommandIs ==
  ASSUME NEW op \in Ops, NEW S \in SUBSET Uids
  PROVE  /\ Command(op, S) \in Frame
         /\ Command(op, S).op = op /\ Command(op, S).uids = S
         /\ Command(op, S).stage = IF op \in {"EXPUNGE", "CLOSE"} THEN "sent" ELSE "running"
  BY DEF Command, Frame

LEMMA ReadHeadersIs ==
  ASSUME NEW from \in Nat \ {0}, NEW to \in Nat
  PROVE  /\ ReadHeaders(from, to) \in Frame
         /\ ReadHeaders(from, to).op = "FETCH" /\ ReadHeaders(from, to).stage = "running"
         /\ ReadHeaders(from, to).next = from /\ ReadHeaders(from, to).last = to
         /\ ReadHeaders(from, to).end = to /\ ReadHeaders(from, to).old = from - 1
<1>1. Command("FETCH", {}) \in Frame /\ Command("FETCH", {}).op = "FETCH"
      /\ Command("FETCH", {}).stage = "running"
  BY DEF Command, Frame, Ops
<1>2. from - 1 \in Nat OBVIOUS
<1> QED BY <1>1, <1>2 DEF ReadHeaders, Frame

-----------------------------------------------------------------------------
(* Counting headers, and dropping some. *)
LEMMA NumTypes ==
  ASSUME NEW v \in Seq(Header)
  PROVE  NumDeleted(v) \in Nat /\ NumChanged(v) \in Nat /\ NumChanged(v) % 2 \in 0..1
<1>1. Len(v) \in Nat /\ DOMAIN v = 1..Len(v) BY SeqHas
<1>2. NumDeleted(v) \in Nat BY <1>1, SubsetOfRange DEF NumDeleted
<1>3. NumChanged(v) \in Nat BY <1>1, SubsetOfRange DEF NumChanged
<1> QED BY <1>2, <1>3

Stayers(v) == {i \in DOMAIN v : Stays(v[i])}

LEMMA ExpungedIs ==
  ASSUME NEW v \in Seq(Header)
  PROVE  /\ Expunged(v) \in Seq(Header) /\ Len(Expunged(v)) <= Len(v)
         /\ Len(Expunged(v)) = Cardinality(Stayers(v))
         /\ Stayers(v) \in SUBSET (1..Len(v))
         /\ \A k \in DOMAIN Expunged(v) :
              /\ Nth(Stayers(v), k) \in DOMAIN v /\ Stays(v[Nth(Stayers(v), k)])
              /\ Expunged(v)[k] = v[Nth(Stayers(v), k)]
         /\ \A j, k \in DOMAIN Expunged(v) : j < k => Nth(Stayers(v), j) < Nth(Stayers(v), k)
         /\ \A i \in DOMAIN v : Stays(v[i]) => \E k \in DOMAIN Expunged(v) : Expunged(v)[k] = v[i]
<1> DEFINE S == Stayers(v)
<1>1. Len(v) \in Nat /\ DOMAIN v = 1..Len(v) /\ \A i \in DOMAIN v : v[i] \in Header BY SeqHas
<1>2. S \in SUBSET (1..Len(v)) BY <1>1 DEF Stayers
<1>3. Cardinality(S) \in Nat /\ Cardinality(S) <= Len(v) BY <1>1, <1>2, SubsetOfRange
<1>4. Expunged(v) = [k \in 1..Cardinality(S) |-> v[Nth(S, k)]] BY DEF Expunged, Stayers
<1>5. ASSUME NEW k \in 1..Cardinality(S)
      PROVE  Nth(S, k) \in S /\ Rank(S, Nth(S, k)) = k
  BY <1>1, <1>2, NthRank
<1>6. Expunged(v) \in [1..Cardinality(S) -> Header] BY <1>1, <1>2, <1>4, <1>5
<1>7. Expunged(v) \in Seq(Header) /\ Len(Expunged(v)) = Cardinality(S)
      /\ DOMAIN Expunged(v) = 1..Cardinality(S)
  BY <1>3, <1>6, SeqIs
<1>8. \A k \in DOMAIN Expunged(v) :
              /\ Nth(S, k) \in DOMAIN v /\ Stays(v[Nth(S, k)])
              /\ Expunged(v)[k] = v[Nth(S, k)]
  BY <1>4, <1>5, <1>7 DEF Stayers
<1>9. \A j, k \in DOMAIN Expunged(v) : j < k => Nth(S, j) < Nth(S, k)
  BY <1>1, <1>2, <1>7, NthLess
<1>10. ASSUME NEW i \in DOMAIN v, Stays(v[i])
       PROVE  \E k \in DOMAIN Expunged(v) : Expunged(v)[k] = v[i]
  <2>1. i \in S BY <1>10 DEF Stayers
  <2>2. Rank(S, i) \in 1..Cardinality(S) BY <1>1, <1>2, <2>1, RankBounds
  <2>3. Nth(S, Rank(S, i)) \in S /\ Rank(S, Nth(S, Rank(S, i))) = Rank(S, i) BY <2>2, <1>5
  <2>4. Nth(S, Rank(S, i)) = i BY <1>1, <1>2, <2>1, <2>3, RankEqual
  <2> QED BY <1>7, <1>8, <2>2, <2>4
<1> QED BY <1>2, <1>3, <1>7, <1>8, <1>9, <1>10

(* Two views whose headers stand for the same messages. *)
SameMessages(v, w) ==
  /\ Len(w) = Len(v)
  /\ \A i \in DOMAIN v : w[i].uid = v[i].uid /\ w[i].idx = v[i].idx

(* Header i takes the flags of a FETCH response for message k. *)
Told(i, k) ==
  ~view[i].changed /\ (i \in Found(k) \/ (Top.op = "UID FETCH" /\ i = job.pos))

LEMMA ParseFetchIs ==
  ASSUME ViewTypes, StackTypes, stack # <<>>, NEW k, NEW f \in SUBSET Flags,
         Top.op = "UID FETCH" => job.pos \in DOMAIN view
  PROVE  /\ ParseFetch(k, f) \in Seq(Header) /\ SameMessages(view, ParseFetch(k, f))
         /\ DOMAIN ParseFetch(k, f) = DOMAIN view
         /\ \A i \in DOMAIN view :
              /\ ParseFetch(k, f)[i] \in Header
              /\ ParseFetch(k, f)[i].active = view[i].active
              /\ ParseFetch(k, f)[i].changed = view[i].changed
              /\ Told(i, k) => ParseFetch(k, f)[i].flags = f
              /\ ~Told(i, k) => ParseFetch(k, f)[i].flags = view[i].flags
<1> DEFINE p == job.pos
           v1 == [i \in DOMAIN view |-> IF i \in Found(k) /\ ~view[i].changed
                                       THEN SetFlags(view, i, f)[i] ELSE view[i]]
           both == Top.op = "UID FETCH" /\ ~view[p].changed
           w == ParseFetch(k, f)
<1>1. Len(view) \in Nat /\ DOMAIN view = 1..Len(view) /\ \A i \in DOMAIN view : view[i] \in Header
  BY SeqHas DEF ViewTypes
<1>2. ASSUME NEW i \in DOMAIN view
      PROVE  v1[i] = IF i \in Found(k) /\ ~view[i].changed
                     THEN [view[i] EXCEPT !.flags = f, !.changed = FALSE] ELSE view[i]
  <2>1. SetFlags(view, i, f)[i] = [view[i] EXCEPT !.flags = f, !.changed = FALSE] BY DEF SetFlags
  <2> QED BY <2>1
<1>3. w = IF both THEN SetFlags(v1, p, f) ELSE v1 BY DEF ParseFetch
<1>4. DOMAIN w = DOMAIN view /\ w = [i \in DOMAIN view |-> w[i]] BY <1>3 DEF SetFlags
<1>5. ASSUME NEW i \in DOMAIN view
      PROVE  w[i] = IF both /\ i = p THEN [v1[i] EXCEPT !.flags = f, !.changed = FALSE] ELSE v1[i]
  BY <1>3 DEF SetFlags
<1> HIDE DEF v1, both, w
<1>6. ASSUME NEW i \in DOMAIN view
      PROVE  /\ w[i] \in Header /\ w[i].uid = view[i].uid /\ w[i].idx = view[i].idx
             /\ w[i].active = view[i].active /\ w[i].changed = view[i].changed
             /\ Told(i, k) => w[i].flags = f
             /\ ~Told(i, k) => w[i].flags = view[i].flags
  <2>1. view[i] \in Header BY <1>1
  <2>2. v1[i] \in Header /\ v1[i].uid = view[i].uid /\ v1[i].idx = view[i].idx
        /\ v1[i].active = view[i].active /\ v1[i].changed = view[i].changed
        /\ v1[i].flags = IF i \in Found(k) /\ ~view[i].changed THEN f ELSE view[i].flags
    BY <1>2, <2>1 DEF Header
  <2>3. both /\ i = p => ~view[i].changed BY DEF both
  <2>4. w[i] \in Header /\ w[i].uid = view[i].uid /\ w[i].idx = view[i].idx
        /\ w[i].active = view[i].active /\ w[i].changed = view[i].changed
        /\ w[i].flags = IF both /\ i = p THEN f ELSE v1[i].flags
    BY <1>5, <2>2, <2>3 DEF Header
  <2> QED BY <2>2, <2>4 DEF both, Told
<1>7. w \in [1..Len(view) -> Header] BY <1>1, <1>4, <1>6
<1>8. w \in Seq(Header) /\ Len(w) = Len(view) BY <1>1, <1>7, SeqIs
<1> QED BY <1>4, <1>6, <1>8 DEF w, SameMessages

-----------------------------------------------------------------------------
(* BasicInv holds initially and every step keeps it.                         *)

LEMMA JobIs ==
  ASSUME NEW op \in {"open", "idle", "check", "sync", "close", "fetch", "closed"},
         NEW phase \in {"-", "noop", "checked", "result", "delete", "flags", "expunge"}
  PROVE  /\ Job(op, phase) \in Jobs /\ Job(op, phase).op = op /\ Job(op, phase).phase = phase
         /\ Job(op, phase).purge = FALSE
  BY DEF Job, Jobs

LEMMA ServerStep ==
  ASSUME BasicInv, Deliver \/ (\E u \in Uids : OtherExpunge(u) \/ \E f \in OtherFlags : OtherStore(u, f))
  PROVE  BasicInv'
<1>1. UNCHANGED <<told, toldFlags, view, ctx, reopen, newCount, status, stack, job>>
  BY DEF Deliver, OtherExpunge, OtherStore, session, client
<1>2. events' \in 0..MaxEvents
  BY ImapAssumption DEF Deliver, OtherExpunge, OtherStore, Event, BasicInv, HistoryTypes
<1>3. ServerTypes' /\ marked' \subseteq Uids /\ UNCHANGED <<gap, off, swept, wanted>>
  <2>1. CASE Deliver
    BY <2>1, ImapAssumption DEF Deliver, BasicInv, ServerTypes, HistoryTypes, history, Uids
  <2>2. ASSUME NEW u \in Uids, OtherExpunge(u)
        PROVE  ServerTypes' /\ marked' \subseteq Uids /\ UNCHANGED <<gap, off, swept, wanted>>
    BY <2>2 DEF OtherExpunge, BasicInv, ServerTypes, HistoryTypes, history
  <2>3. ASSUME NEW u \in Uids, NEW f \in OtherFlags, OtherStore(u, f)
        PROVE  ServerTypes' /\ marked' \subseteq Uids /\ UNCHANGED <<gap, off, swept, wanted>>
    <3>1. f \in SUBSET Flags BY ImapAssumption
    <3> QED BY <2>3, <3>1 DEF OtherStore, BasicInv, ServerTypes, HistoryTypes
  <2> QED BY <2>1, <2>2, <2>3
<1>4. HistoryTypes' BY <1>2, <1>3 DEF BasicInv, HistoryTypes
<1> QED BY <1>1, <1>3, <1>4
        DEF BasicInv, ToldTypes, ViewTypes, ClientTypes, StackTypes, NestInv, JobInv,
            PlaceInv, FetchInv, AnnouncedInv, Sent, Reading, Running, Top

(* The messages the server tells of are beyond those it has told of. *)
LEMMA ExistsCounts ==
  ASSUME ToldTypes, ServerTypes, Exists
  PROVE  /\ told' \subseteq Uids /\ told \subseteq told'
         /\ IsFiniteSet(told') /\ Cardinality(told') \in 0..MaxUid
         /\ Cardinality(told) \in Nat /\ Cardinality(told) < Cardinality(told')
<1> DEFINE new == {u \in mail : \A v \in told : v < u}
<1>1. told' = told \cup new /\ new # {} BY DEF Exists
<1>2. told \subseteq Uids /\ mail \subseteq Uids BY DEF ToldTypes, ServerTypes
<1>3. told' \subseteq Uids /\ told \subseteq told' BY <1>1, <1>2
<1>4. told' # told
  <2>1. PICK u \in new : TRUE BY <1>1
  <2>2. u \notin told
    <3>1. u \in Int BY <1>2 DEF Uids
    <3> QED BY <3>1
  <2> QED BY <1>1, <2>2
<1>5. IsFiniteSet(told') /\ Cardinality(told') \in Nat /\ Cardinality(told') <= MaxUid
      /\ Cardinality(told) \in Nat
  BY <1>2, <1>3, ImapAssumption, SubsetOfRange DEF Uids
<1>6. Cardinality(told) <= Cardinality(told') /\ Cardinality(told) # Cardinality(told')
  BY <1>3, <1>4, <1>5, FS_Subset
<1> QED BY <1>3, <1>5, <1>6

LEMMA ExistsStep ==
  ASSUME BasicInv, Exists
  PROVE  BasicInv'
<1> DEFINE n == Cardinality(told')
<1>1. /\ ServerTypes /\ ToldTypes /\ ViewTypes /\ ClientTypes /\ StackTypes /\ HistoryTypes
      /\ NestInv /\ JobInv /\ PlaceInv /\ FetchInv /\ AnnouncedInv
  BY DEF BasicInv
<1>2. /\ told' \subseteq Uids /\ n \in 0..MaxUid
      /\ Cardinality(told) \in Nat /\ Cardinality(told) < n
  BY <1>1, ExistsCounts
<1>3. UNCHANGED <<mail, flags, uidnext, view, ctx, status, events, gap, off, swept, wanted, marked>>
  BY DEF Exists, server, history
<1>4. ServerTypes' /\ ViewTypes' /\ HistoryTypes'
  BY <1>1, <1>3 DEF ServerTypes, ViewTypes, HistoryTypes
<1>5. ToldTypes'
  <2>1. toldFlags' \in [Uids -> SUBSET Flags]
    BY <1>1 DEF Exists, ToldTypes, ServerTypes
  <2> QED BY <1>2, <2>1 DEF ToldTypes
<1>6. \/ n < Len(view) /\ job' = Job("closed", "-") /\ stack' = <<>> /\ UNCHANGED <<reopen, newCount>>
      \/ /\ ~("expunge" \notin reopen /\ n < Len(view))
         /\ newCount' = IF n = Len(view) THEN newCount ELSE n
         /\ reopen' = IF n = Len(view) \/ "expunge" \in reopen THEN reopen
                      ELSE reopen \cup {"newmail"}
         /\ UNCHANGED <<job, stack>>
  BY DEF Exists
<1>7. ClientTypes'
  BY <1>1, <1>2, <1>3, <1>6 DEF ClientTypes, Bits
<1>9. Len(view) \in Nat BY <1>1, SeqHas DEF ViewTypes
<1> HIDE DEF n
<1>10. StackTypes' /\ NestInv' /\ JobInv' /\ PlaceInv' /\ FetchInv' /\ AnnouncedInv'
  <2>1. CASE n < Len(view) /\ job' = Job("closed", "-") /\ stack' = <<>> /\ UNCHANGED <<reopen, newCount>>
    <3>1. job' \in Jobs /\ job'.op = "closed" /\ job'.phase = "-" BY <2>1, JobIs
    <3>2. StackTypes' BY <2>1, <3>1 DEF StackTypes
    <3>3. NestInv' /\ PlaceInv' /\ FetchInv' BY <2>1 DEF NestInv, PlaceInv, FetchInv, Sent, Reading, Running
    <3>4. JobInv' BY <2>1, <3>1 DEF JobInv, Sent
    <3>5. ~("newmail" \in reopen /\ "expunge" \notin reopen)
      BY <1>1, <1>2, <1>9, <2>1 DEF AnnouncedInv
    <3>6. AnnouncedInv' BY <2>1, <3>5 DEF AnnouncedInv, Running
    <3> QED BY <3>2, <3>3, <3>4, <3>6
  <2>2. CASE /\ ~("expunge" \notin reopen /\ n < Len(view))
             /\ newCount' = IF n = Len(view) THEN newCount ELSE n
             /\ reopen' = IF n = Len(view) \/ "expunge" \in reopen THEN reopen
                          ELSE reopen \cup {"newmail"}
             /\ UNCHANGED <<job, stack>>
    <3>1. UNCHANGED <<Len(view), Top, view>> /\ ("allow" \in reopen' => "allow" \in reopen)
          /\ ("expunge" \in reopen' <=> "expunge" \in reopen)
      BY <1>3, <2>2 DEF Top
    <3>2. StackTypes' /\ NestInv' /\ JobInv' /\ PlaceInv'
      BY <1>1, <2>2, <3>1 DEF StackTypes, NestInv, JobInv, PlaceInv, Sent
    <3>3. FetchInv'
      <4>1. ASSUME NEW i \in DOMAIN stack, stack[i].op = "FETCH"
            PROVE  stack[i].end <= Cardinality(told')
        <5>0. stack[i] \in Frame BY <1>1, <4>1, SeqHas DEF StackTypes
        <5>1. stack[i].end <= Cardinality(told) /\ stack[i].end \in Nat
          BY <1>1, <4>1, <5>0 DEF FetchInv, Frame
        <5> QED BY <1>2, <5>1 DEF n
      <4> QED BY <1>1, <2>2, <3>1, <4>1 DEF FetchInv, Reading, Running
    <3>4. AnnouncedInv'
      <4>1. ASSUME Running("FETCH")
            PROVE  Top.last < n /\ "expunge" \notin reopen
        <5>1. Top \in Frame /\ Top = stack[Len(stack)] /\ Len(stack) \in DOMAIN stack
          BY <1>1, <4>1, TopIs DEF Running
        <5>2. Top.last <= Top.end /\ Top.end <= Cardinality(told) /\ "expunge" \notin reopen
          BY <1>1, <4>1, <5>1 DEF FetchInv, Running, Reading
        <5>3. Top.last \in Nat /\ Top.end \in Nat BY <5>1 DEF Frame
        <5> QED BY <1>2, <5>2, <5>3
      <4>2. CASE n = Len(view)
        <5>1. ~("newmail" \in reopen /\ "expunge" \notin reopen)
          BY <1>1, <1>2, <1>9, <4>2 DEF AnnouncedInv
        <5> QED BY <1>1, <2>2, <3>1, <4>1, <4>2, <5>1 DEF AnnouncedInv, Running
      <4>3. CASE n # Len(view) /\ "expunge" \in reopen
        BY <2>2, <3>1, <4>1, <4>3 DEF AnnouncedInv, Running
      <4>4. CASE n # Len(view) /\ "expunge" \notin reopen
        <5>1. newCount' = n /\ n = Cardinality(told') BY <2>2, <4>4 DEF n
        <5>3. Len(view) < n BY <1>2, <1>9, <2>2, <4>4
        <5> QED BY <3>1, <4>1, <5>1, <5>3, <2>2 DEF AnnouncedInv, Running
      <4> QED BY <4>2, <4>3, <4>4
    <3> QED BY <3>2, <3>3, <3>4
  <2> QED BY <1>6, <2>1, <2>2
<1> QED BY <1>4, <1>5, <1>7, <1>10 DEF BasicInv

(* Only the outermost command is not a FETCH of headers. *)
LEMMA OutermostIs ==
  ASSUME StackTypes, NestInv, stack # <<>>, Top.op # "FETCH"
  PROVE  Len(stack) = 1 /\ DOMAIN stack = {1} /\ Top = stack[1]
<1>1. Len(stack) \in Nat \ {0} /\ Len(stack) \in DOMAIN stack /\ DOMAIN stack = 1..Len(stack)
      /\ Top = stack[Len(stack)]
  BY TopIs
<1>2. ~(Len(stack) > 1) BY <1>1 DEF NestInv
<1> QED BY <1>1, <1>2

LEMMA RenumberedIs ==
  ASSUME NEW v \in Seq(Header), NEW k \in 1..MaxUid
  PROVE  /\ Renumbered(v, k) \in Seq(Header) /\ Len(Renumbered(v, k)) = Len(v)
         /\ DOMAIN Renumbered(v, k) = DOMAIN v
         /\ \A i \in DOMAIN v :
              /\ Renumbered(v, k)[i].uid = v[i].uid /\ Renumbered(v, k)[i].active = v[i].active
              /\ Renumbered(v, k)[i].flags = v[i].flags /\ Renumbered(v, k)[i].changed = v[i].changed
              /\ Renumbered(v, k)[i].idx = IF v[i].idx = k THEN 0
                                          ELSE IF v[i].idx > k THEN v[i].idx - 1 ELSE v[i].idx
<1>1. Len(v) \in Nat /\ DOMAIN v = 1..Len(v) /\ \A i \in DOMAIN v : v[i] \in Header BY SeqHas
<1> DEFINE h(i) == IF v[i].idx = k THEN [v[i] EXCEPT !.idx = 0]
                   ELSE IF v[i].idx > k THEN [v[i] EXCEPT !.idx = @ - 1] ELSE v[i]
<1>2. ASSUME NEW i \in DOMAIN v
      PROVE  /\ h(i) \in Header /\ h(i).uid = v[i].uid /\ h(i).active = v[i].active
             /\ h(i).flags = v[i].flags /\ h(i).changed = v[i].changed
             /\ h(i).idx = IF v[i].idx = k THEN 0
                           ELSE IF v[i].idx > k THEN v[i].idx - 1 ELSE v[i].idx
  <2>1. v[i] \in Header /\ v[i].idx \in 0..MaxUid BY <1>1 DEF Header
  <2>2. v[i].idx > k => v[i].idx - 1 \in 0..MaxUid BY <2>1, ImapAssumption
  <2>3. 0 \in 0..MaxUid BY ImapAssumption
  <2>4. CASE v[i].idx = k BY <2>1, <2>3, <2>4 DEF Header
  <2>5. CASE v[i].idx # k /\ v[i].idx > k BY <2>1, <2>2, <2>5 DEF Header
  <2>6. CASE v[i].idx # k /\ ~(v[i].idx > k) BY <2>1, <2>6 DEF Header
  <2> QED BY <2>4, <2>5, <2>6
<1>3. Renumbered(v, k) = [i \in DOMAIN v |-> h(i)] BY DEF Renumbered
<1> HIDE DEF h
<1>4. Renumbered(v, k) \in [1..Len(v) -> Header] BY <1>1, <1>2, <1>3
<1>5. Renumbered(v, k) \in Seq(Header) /\ Len(Renumbered(v, k)) = Len(v)
      /\ DOMAIN Renumbered(v, k) = DOMAIN v
  BY <1>1, <1>4, SeqIs
<1> QED BY <1>2, <1>3, <1>5

LEMMA SeqnoBounds ==
  ASSUME ToldTypes, NEW u \in told
  PROVE  Seqno(u) \in 1..Cardinality(told) /\ Seqno(u) \in 1..MaxUid
<1>1. Cardinality(told) \in 0..MaxUid /\ told \in SUBSET (1..MaxUid) BY ToldCount
<1>2. Rank(told, u) \in 1..Cardinality(told) BY <1>1, ImapAssumption, RankBounds
<1> QED BY <1>1, <1>2, ImapAssumption DEF Seqno

LEMMA ExpungeStep ==
  ASSUME BasicInv, NEW u \in Uids, Expunge(u)
  PROVE  BasicInv'
<1>1. /\ ServerTypes /\ ToldTypes /\ ViewTypes /\ ClientTypes /\ StackTypes /\ HistoryTypes
      /\ NestInv /\ JobInv /\ PlaceInv /\ FetchInv /\ AnnouncedInv
  BY DEF BasicInv
<1>2. /\ UNCHANGED <<mail, flags, uidnext, toldFlags, ctx, newCount, status, stack, job, events>>
      /\ UNCHANGED <<gap, off, swept, wanted, marked, Top>>
      /\ told' = told \ {u} /\ reopen' = reopen \cup {"expunge"}
      /\ stack # <<>> /\ Top.op # "FETCH" /\ u \in told
      /\ view' = Renumbered(view, Seqno(u))
  BY DEF Expunge, server, history, Top
<1>3. ServerTypes' /\ ToldTypes' /\ ClientTypes' /\ StackTypes' /\ HistoryTypes'
  BY <1>1, <1>2 DEF ServerTypes, ToldTypes, ClientTypes, StackTypes, HistoryTypes, Bits
<1>4. /\ view' \in Seq(Header) /\ Len(view') = Len(view) /\ DOMAIN view' = DOMAIN view
      /\ \A i \in DOMAIN view : view'[i].uid = view[i].uid /\ view'[i].active = view[i].active
  <2>1. view \in Seq(Header) /\ Seqno(u) \in 1..MaxUid BY <1>1, <1>2, SeqnoBounds DEF ViewTypes
  <2> QED BY <1>2, <2>1, RenumberedIs
<1>5. ViewTypes' BY <1>1, <1>4 DEF ViewTypes
<1>6. NestInv' /\ JobInv' BY <1>1, <1>2 DEF NestInv, JobInv, Sent
<1>7. PlaceInv' BY <1>1, <1>2, <1>4 DEF PlaceInv, Sent
<1>8. FetchInv' /\ AnnouncedInv'
  <2>1. DOMAIN stack = {1} /\ Top = stack[1] BY <1>1, <1>2, OutermostIs
  <2> QED BY <1>2, <2>1 DEF FetchInv, AnnouncedInv, Reading, Running
<1> QED BY <1>3, <1>5, <1>6, <1>7, <1>8 DEF BasicInv

(* What imap_read_headers() leaves when it fails. *)
LEMMA GiveUpStep ==
  ASSUME StackTypes, NestInv, JobInv, PlaceInv, FetchInv, gap \subseteq Gaps,
         stack # <<>>, Top.op = "FETCH", GiveUp,
         view' \in Seq(Header), SameMessages(view, view'), told' = told,
         \A i \in DOMAIN view : view'[i].active = view[i].active,
         "allow" \in reopen' => "allow" \in reopen
  PROVE  StackTypes' /\ gap' \subseteq Gaps /\ NestInv' /\ JobInv' /\ PlaceInv' /\ FetchInv'
         /\ ~Running("FETCH")'
<1> DEFINE s == Nested(FALSE)
<1>1. /\ s \in Seq(Frame) /\ Len(s) = Len(stack) - 1 /\ DOMAIN s = 1..(Len(stack) - 1)
      /\ \A i \in DOMAIN s :
              /\ i \in DOMAIN stack
              /\ s[i] = IF i = Len(stack) - 1 THEN [stack[i] EXCEPT !.ok = FALSE] ELSE stack[i]
              /\ s[i].op = stack[i].op /\ s[i].stage = stack[i].stage
              /\ s[i].uids = stack[i].uids /\ s[i].next = stack[i].next
              /\ s[i].last = stack[i].last /\ s[i].end = stack[i].end
              /\ s[i].old = stack[i].old
  BY NestedIs
<1>2. stack' = s /\ job' = (IF job.op = "open" THEN Job("closed", "-") ELSE job)
      /\ gap' = gap \cup {"mail", "count"}
  BY DEF GiveUp
<1>3. Len(stack) \in Nat \ {0} /\ Len(stack) \in DOMAIN stack /\ 1 \in DOMAIN stack
      /\ DOMAIN stack = 1..Len(stack) /\ Top = stack[Len(stack)]
  BY TopIs
<1>4. /\ Len(view') = Len(view) /\ DOMAIN view' = DOMAIN view
      /\ \A i \in DOMAIN view : view'[i].uid = view[i].uid
  <2>1. Len(view') = Len(view) /\ DOMAIN view' = 1..Len(view') BY SeqHas DEF SameMessages
  <2> QED BY <2>1 DEF SameMessages
<1> HIDE DEF s
<1>5. ASSUME s # <<>>
      PROVE  /\ 1 \in DOMAIN s /\ Len(stack) > 1 /\ s[1].op = stack[1].op /\ s[1].stage = stack[1].stage
             /\ s[1].uids = stack[1].uids /\ s[1].stage = "done"
             /\ Len(s) \in DOMAIN s /\ s[Len(s)].stage = "done" /\ s[Len(s)].ok = FALSE
  <2>1. Len(s) \in Nat /\ Len(s) # 0 BY <1>1, <1>5, SeqHas
  <2>2. 1 \in DOMAIN s /\ Len(s) \in DOMAIN s /\ Len(stack) > 1 BY <1>1, <1>3, <2>1
  <2>3. s[1].stage = "done" /\ s[Len(s)].stage = "done" BY <1>1, <1>3, <2>2 DEF NestInv
  <2>4. s[Len(s)].ok = FALSE
    <3>1. stack[Len(s)] \in Frame BY <1>1, <2>2, SeqHas DEF StackTypes
    <3> QED BY <1>1, <2>2, <3>1 DEF Frame
  <2> QED BY <1>1, <2>2, <2>3, <2>4
<1>6. ~Reading' /\ ~Running("FETCH")'
  <2>1. Top' = s[Len(s)] BY <1>2 DEF Top
  <2> QED BY <1>2, <1>5, <2>1 DEF Reading, Running
<1>7. s = <<>> => Len(stack) = 1 /\ stack[1].op = "FETCH"
  BY <1>1, <1>3
<1>8. NestInv'
  <2>1. \A i \in DOMAIN s : i < Len(s) => s[i].stage = "done" BY <1>1, <1>3 DEF NestInv
  <2>2. \A i \in DOMAIN s : i > 1 => s[i].op = "FETCH" BY <1>1 DEF NestInv
  <2>3. \A i \in DOMAIN s : s[i].op \notin {"EXPUNGE", "CLOSE"} => s[i].stage # "sent"
    BY <1>1 DEF NestInv
  <2> QED BY <1>2, <2>1, <2>2, <2>3 DEF NestInv
<1>13. (job.op = "open" => ~(Len(stack) > 1)) /\ (Sent("UID FETCH") => ~(Len(stack) > 1))
  <2>1. (job.op = "open" => Len(stack) = 1) /\ (Sent("UID FETCH") => Len(stack) = 1)
    BY ZenonT(20) DEF JobInv
  <2>2. Len(stack) = 1 => ~(Len(stack) > 1) OBVIOUS
  <2> QED BY <2>1, <2>2, Zenon
<1>9. job' \in Jobs /\ (job.op = "open" => job'.op = "closed" /\ job'.phase = "-")
  BY <1>2, JobIs DEF StackTypes
<1>10. JobInv'
  <2>1. CASE job.op = "open"
    <3>1. s = <<>> BY <1>5, <1>13, <2>1
    <3> QED BY <1>2, <1>9, <2>1, <3>1 DEF JobInv, Sent
  <2>2. CASE job.op # "open"
    <3>1. job' = job BY <1>2, <2>2
    <3>2. stack # <<>> BY <1>3
    <3>3. \A op \in Ops : Sent(op)' => Sent(op) BY <1>2, <1>5, <3>2 DEF Sent
    <3>4. Sent("UID FETCH") => FALSE BY <1>3 DEF JobInv, Sent
    <3>5. job.phase = "expunge" => s # <<>> BY <1>7, <3>2 DEF JobInv, Sent
    <3>6. Sent("EXPUNGE") => s # <<>> /\ Sent("EXPUNGE")' BY <1>2, <1>5, <1>7 DEF Sent
    <3>7. Sent("CLOSE") => s # <<>> /\ Sent("CLOSE")' BY <1>2, <1>5, <1>7 DEF Sent
    <3> QED BY <2>2, <3>1, <3>2, <3>3, <3>4, <3>5, <3>6, <3>7 DEF JobInv, Ops
  <2> QED BY <2>1, <2>2
<1>11. PlaceInv'
  <2>1. ~Sent("UID FETCH")'
    <3>1. Sent("UID FETCH")' => Len(stack) > 1 /\ Sent("UID FETCH") BY <1>2, <1>5 DEF Sent
    <3> QED BY <1>13, <3>1
  <2> QED BY <1>2, <1>5, <2>1 DEF PlaceInv, Sent
<1>12. FetchInv' BY <1>1, <1>2, <1>4, <1>6 DEF FetchInv
<1> QED BY <1>1, <1>2, <1>6, <1>8, <1>9, <1>10, <1>11, <1>12 DEF StackTypes, Gaps

LEMMA InactiveIs ==
  ASSUME ViewTypes
  PROVE  Inactive \subseteq Uids
<1>1. ASSUME NEW i \in DOMAIN view PROVE view[i].uid \in Uids
  <2>1. view[i] \in Header BY SeqHas DEF ViewTypes
  <2> QED BY <2>1 DEF Header
<1> QED BY <1>1 DEF Inactive

LEMMA FetchFlagsStep ==
  ASSUME BasicInv, NEW u \in Uids, FetchFlags(u)
  PROVE  BasicInv'
<1> DEFINE k == Seqno(u)
           v == ParseFetch(k, flags[u])
<1>1. /\ ServerTypes /\ ToldTypes /\ ViewTypes /\ ClientTypes /\ StackTypes /\ HistoryTypes
      /\ NestInv /\ JobInv /\ PlaceInv /\ FetchInv /\ AnnouncedInv
  BY DEF BasicInv
<1>2. /\ UNCHANGED <<mail, flags, uidnext, told, newCount, events, swept, wanted, marked>>
      /\ stack # <<>> /\ Top.stage = "running" /\ view' = v
      /\ toldFlags' = [toldFlags EXCEPT ![u] = flags[u]]
      /\ ctx' = [ctx EXCEPT !.changed = IF v # view THEN 1 ELSE @,
                            !.deleted = @ + NumDeleted(v) - NumDeleted(view)]
      /\ off' = off \cup Inactive
      /\ reopen' = reopen \/ reopen' = reopen \cup {"expunge"}
      /\ status' = status \/ status' = {"flags"}
      /\ (GiveUp /\ Top.op = "FETCH") \/ (Top.op # "FETCH" /\ UNCHANGED <<stack, gap, job>>)
  BY DEF FetchFlags, server
<1>3. flags[u] \in SUBSET Flags BY <1>1 DEF ServerTypes
<1>4. Top.op = "UID FETCH" => job.pos \in DOMAIN view
  <2>1. CASE Top.op = "UID FETCH"
    <3>1. Top = stack[1] BY <1>1, <1>2, <2>1, OutermostIs
    <3> QED BY <1>1, <1>2, <2>1, <3>1 DEF PlaceInv, Sent
  <2> QED BY <2>1
<1>5. /\ v \in Seq(Header) /\ SameMessages(view, v) /\ DOMAIN v = DOMAIN view
      /\ \A i \in DOMAIN view : v[i].active = view[i].active
  <2>1. ViewTypes /\ StackTypes /\ stack # <<>> BY <1>1, <1>2
  <2> DEFINE fl == flags[u]
  <2>2. fl \in SUBSET Flags BY <1>3
  <2> HIDE DEF k, fl
  <2>3. /\ ParseFetch(k, fl) \in Seq(Header) /\ SameMessages(view, ParseFetch(k, fl))
        /\ DOMAIN ParseFetch(k, fl) = DOMAIN view
        /\ \A i \in DOMAIN view : ParseFetch(k, fl)[i].active = view[i].active
    BY <1>4, <2>1, <2>2, ParseFetchIs
  <2> QED BY <2>3 DEF v, fl
<1> HIDE DEF v, k
<1>6. ServerTypes' /\ ToldTypes' BY <1>1, <1>2, <1>3 DEF ServerTypes, ToldTypes
<1>7. ViewTypes' BY <1>1, <1>2, <1>5 DEF ViewTypes, SameMessages
<1>8. ClientTypes'
  <2>1. NumDeleted(v) \in Nat /\ NumDeleted(view) \in Nat
    BY <1>1, <1>5, NumTypes DEF ViewTypes
  <2>3. ctx \in [changed : 0..1, deleted : Int, vcount : Nat] BY <1>1 DEF ClientTypes
  <2>4. ctx.deleted + NumDeleted(v) - NumDeleted(view) \in Int BY <2>1, <2>3
  <2>5. (IF v # view THEN 1 ELSE ctx.changed) \in 0..1 BY <2>3
  <2>2. ctx' \in [changed : 0..1, deleted : Int, vcount : Nat] BY <1>2, <2>3, <2>4, <2>5
  <2> QED BY <1>1, <1>2, <2>2 DEF ClientTypes, Bits
<1>9. off' \subseteq Uids BY <1>1, <1>2, InactiveIs DEF HistoryTypes
<1>10. StackTypes' /\ gap' \subseteq Gaps /\ NestInv' /\ JobInv' /\ PlaceInv' /\ FetchInv'
       /\ (Running("FETCH")' => FALSE)
  <2>1. CASE GiveUp /\ Top.op = "FETCH"
    <3>1. gap \subseteq Gaps BY <1>1 DEF HistoryTypes
    <3>2. \A i \in DOMAIN view : view'[i].active = view[i].active BY <1>2, <1>5
    <3>3. view' \in Seq(Header) /\ SameMessages(view, view') BY <1>2, <1>5
    <3>4. "allow" \in reopen' => "allow" \in reopen BY <1>2
    <3> QED BY <1>1, <1>2, <2>1, <3>1, <3>2, <3>3, <3>4, GiveUpStep
  <2>2. CASE Top.op # "FETCH" /\ UNCHANGED <<stack, gap, job>>
    <3>1. Top' = Top BY <2>2 DEF Top
    <3>2. DOMAIN stack = {1} /\ Top = stack[1] BY <1>1, <1>2, <2>2, OutermostIs
    <3>3. "allow" \in reopen' => "allow" \in reopen BY <1>2
    <3>4. StackTypes' /\ gap' \subseteq Gaps /\ NestInv' /\ JobInv'
      BY <1>1, <2>2, <3>3 DEF StackTypes, HistoryTypes, NestInv, JobInv, Sent
    <3>5. PlaceInv' BY <1>1, <1>2, <1>5, <2>2 DEF PlaceInv, Sent, SameMessages
    <3>6. FetchInv' /\ ~Running("FETCH")' BY <2>2, <3>1, <3>2 DEF FetchInv, Reading, Running
    <3> QED BY <3>4, <3>5, <3>6
  <2> QED BY <1>2, <2>1, <2>2
<1>11. HistoryTypes' BY <1>1, <1>2, <1>9, <1>10 DEF HistoryTypes
<1>12. AnnouncedInv'
  <2>1. Len(view') = Len(view) BY <1>2, <1>5 DEF SameMessages
  <2> QED BY <1>1, <1>2, <1>10, <2>1 DEF AnnouncedInv
<1> QED BY <1>6, <1>7, <1>8, <1>10, <1>11, <1>12 DEF BasicInv

(* The header that is read next is appended.  Its number is that of a        *)
(* message the server has told of, so there is room for it.                  *)
LEMMA FetchHeaderIs ==
  ASSUME BasicInv, FetchHeader
  PROVE  \E u \in told :
           /\ Seqno(u) = Len(view) + 1 /\ Len(view) + 1 \in 1..MaxUid
           /\ NewHeader(u, Len(view) + 1) \in Header
           /\ view' = Append(view, NewHeader(u, Len(view) + 1))
           /\ toldFlags' = [toldFlags EXCEPT ![u] = flags[u]] /\ told' = told
           /\ view' \in Seq(Header) /\ Len(view') = Len(view) + 1 /\ DOMAIN view' = 1..(Len(view) + 1)
           /\ \A i \in DOMAIN view : i \in DOMAIN view' /\ view'[i] = view[i]
           /\ view'[Len(view) + 1] = NewHeader(u, Len(view) + 1)
<1>1. ToldTypes /\ ServerTypes /\ ViewTypes /\ FetchInv BY DEF BasicInv
<1>2. PICK u \in told : /\ Seqno(u) = Top.next
                        /\ view' = Append(view, NewHeader(u, Top.next))
                        /\ toldFlags' = [toldFlags EXCEPT ![u] = flags[u]]
  BY DEF FetchHeader
<1>3. Top.next = Len(view) + 1 /\ told' = told BY <1>1 DEF FetchHeader, FetchInv
<1>4. Len(view) + 1 \in 1..MaxUid BY <1>1, <1>2, <1>3, SeqnoBounds
<1>5. u \in Uids /\ flags[u] \in SUBSET Flags BY <1>1 DEF ToldTypes, ServerTypes
<1>6. NewHeader(u, Len(view) + 1) \in Header
  <2>1. Len(view) + 1 \in 0..MaxUid BY <1>4, ImapAssumption
  <2> QED BY <1>5, <2>1 DEF NewHeader, Header
<1>7. view' = Append(view, NewHeader(u, Len(view) + 1)) BY <1>2, <1>3
<1>8. view \in Seq(Header) BY <1>1 DEF ViewTypes
<1>9. /\ view' \in Seq(Header) /\ Len(view') = Len(view) + 1 /\ DOMAIN view' = 1..(Len(view) + 1)
      /\ \A i \in DOMAIN view : i \in DOMAIN view' /\ view'[i] = view[i]
      /\ view'[Len(view) + 1] = NewHeader(u, Len(view) + 1)
  BY <1>6, <1>7, <1>8, AppendIs
<1> QED BY <1>2, <1>3, <1>4, <1>6, <1>7, <1>9

LEMMA FetchHeaderStep ==
  ASSUME BasicInv, FetchHeader
  PROVE  BasicInv'
<1> DEFINE f == Top
           more == "newmail" \in reopen /\ f.next < f.last
           g == [f EXCEPT !.next = @ + 1, !.end = IF more THEN newCount ELSE @]
<1>1. /\ ServerTypes /\ ToldTypes /\ ViewTypes /\ ClientTypes /\ StackTypes /\ HistoryTypes
      /\ NestInv /\ JobInv /\ PlaceInv /\ FetchInv /\ AnnouncedInv
  BY DEF BasicInv
<1>2. PICK u \in told :
           /\ Seqno(u) = Len(view) + 1 /\ Len(view) + 1 \in 1..MaxUid
           /\ toldFlags' = [toldFlags EXCEPT ![u] = flags[u]] /\ told' = told
           /\ view' \in Seq(Header) /\ Len(view') = Len(view) + 1 /\ DOMAIN view' = 1..(Len(view) + 1)
           /\ \A i \in DOMAIN view : i \in DOMAIN view' /\ view'[i] = view[i]
  BY FetchHeaderIs
<1>3. /\ stack' = Replace(g) /\ Running("FETCH") /\ f.next <= f.last
      /\ reopen' = (IF more THEN reopen \ {"newmail"} ELSE reopen)
      /\ newCount' = (IF more THEN 0 ELSE newCount)
      /\ UNCHANGED <<mail, flags, uidnext, told, ctx, status, job, events, gap, off, swept, wanted, marked>>
  BY DEF FetchHeader, server, history
<1>4. f \in Frame /\ f.op = "FETCH" /\ f.stage = "running" /\ f = stack[Len(stack)]
      /\ stack # <<>> /\ Len(stack) \in Nat \ {0} /\ DOMAIN stack = 1..Len(stack)
      /\ Len(stack) \in DOMAIN stack /\ 1 \in DOMAIN stack
  BY <1>1, <1>3, TopIs DEF Running
<1>5. newCount \in 0..MaxUid /\ reopen \subseteq Bits /\ Len(view) \in Nat
      /\ Cardinality(told) \in 0..MaxUid
  BY <1>1, SeqHas, ToldCount DEF ClientTypes, ViewTypes
<1>6. f.next \in Nat /\ f.last \in Nat /\ f.end \in Nat BY <1>4 DEF Frame
<1>7. f.next = Len(view) + 1 /\ f.last <= f.end /\ "expunge" \notin reopen
      /\ f.old <= Len(view) /\ f.end <= Cardinality(told)
  BY <1>1, <1>3, <1>4 DEF FetchInv, Reading
<1>8. more => newCount = Cardinality(told) /\ f.last < newCount
  BY <1>1, <1>3, <1>7 DEF AnnouncedInv
<1>9. /\ g \in Frame /\ g.op = f.op /\ g.stage = f.stage /\ g.uids = f.uids /\ g.ok = f.ok
      /\ g.last = f.last /\ g.old = f.old /\ g.next = f.next + 1
      /\ g.end = IF more THEN newCount ELSE f.end
  <2>1. newCount \in Nat /\ f.next + 1 \in Nat BY <1>5, <1>6, ImapAssumption
  <2> HIDE DEF more
  <2> QED BY <1>4, <2>1 DEF Frame
<1> HIDE DEF g, more, f
<1>10. /\ stack' \in Seq(Frame) /\ Len(stack') = Len(stack)
       /\ DOMAIN stack' = DOMAIN stack /\ stack' # <<>> /\ stack'[Len(stack)] = g
       /\ \A i \in DOMAIN stack : i # Len(stack) => stack'[i] = stack[i]
  BY <1>1, <1>3, <1>4, <1>9, ReplaceIs
<1>11. Top' = g BY <1>10 DEF Top
<1>12. ServerTypes' /\ HistoryTypes' BY <1>1, <1>3 DEF ServerTypes, HistoryTypes
<1>13. ToldTypes' BY <1>1, <1>2 DEF ToldTypes, ServerTypes
<1>14. ViewTypes' BY <1>2, ImapAssumption DEF ViewTypes
<1>15. ClientTypes'
  <2>1. newCount' \in 0..MaxUid BY <1>3, <1>5, ImapAssumption
  <2> QED BY <1>1, <1>3, <2>1 DEF ClientTypes
<1>16. StackTypes' BY <1>1, <1>3, <1>10 DEF StackTypes
<1>17. \A i \in DOMAIN stack : /\ stack'[i].op = stack[i].op /\ stack'[i].stage = stack[i].stage
                               /\ stack'[i].uids = stack[i].uids
  BY <1>4, <1>9, <1>10
<1>18. NestInv' /\ JobInv'
  <2>1. "allow" \in reopen' => "allow" \in reopen BY <1>3
  <2>2. NestInv' BY <1>1, <1>4, <1>10, <1>17 DEF NestInv
  <2>3. job' = job /\ stack # <<>> BY <1>3, <1>4
  <2>4. stack'[1].op = stack[1].op BY <1>4, <1>17
  <2>5. JobInv' BY <1>1, <1>10, <2>1, <2>3, <2>4 DEF JobInv, Sent
  <2> QED BY <2>2, <2>5
<1>19. PlaceInv'
  <2>1. stack[1].op = "FETCH" \/ stack[1].stage = "done" BY <1>1, <1>4 DEF NestInv
  <2>2. stack[1].op # "UID FETCH" BY <1>1, <1>4 DEF JobInv, Sent
  <2> QED BY <1>4, <1>17, <2>1, <2>2 DEF PlaceInv, Sent
<1>20. FetchInv'
  <2>1. ASSUME NEW i \in DOMAIN stack', stack'[i].op = "FETCH"
        PROVE  /\ stack'[i].next <= Len(view') + 1 /\ stack'[i].old <= Len(view')
               /\ stack'[i].end <= Cardinality(told')
    <3>1. CASE i = Len(stack)
      <4>1. stack'[i] = g BY <1>10, <3>1
      <4>2. f.old \in Nat BY <1>4 DEF Frame
      <4>3. g.end <= Cardinality(told) BY <1>5, <1>7, <1>8, <1>9
      <4> QED BY <1>2, <1>5, <1>6, <1>7, <1>9, <4>1, <4>2, <4>3
    <3>2. CASE i # Len(stack)
      <4>1. stack'[i] = stack[i] /\ i \in DOMAIN stack BY <1>10, <3>2
      <4>2. stack[i] \in Frame BY <1>1, <4>1, SeqHas DEF StackTypes
      <4>3. stack[i].next \in Nat /\ stack[i].old \in Nat BY <4>2 DEF Frame
      <4>4. stack[i].next <= Len(view) + 1 /\ stack[i].old <= Len(view)
            /\ stack[i].end <= Cardinality(told)
        BY <1>1, <2>1, <4>1 DEF FetchInv
      <4> QED BY <1>2, <1>5, <4>1, <4>3, <4>4
    <3> QED BY <3>1, <3>2
  <2>2. g.next = Len(view') + 1 /\ g.last <= g.end
    BY <1>2, <1>5, <1>6, <1>7, <1>8, <1>9
  <2>3. "expunge" \notin reopen' BY <1>3, <1>7
  <2> QED BY <1>11, <2>1, <2>2, <2>3 DEF FetchInv, Running
<1>21. AnnouncedInv'
  <2>1. CASE more BY <1>3, <2>1 DEF AnnouncedInv
  <2>2. CASE ~more
    <3>1. "newmail" \in reopen => f.last < newCount /\ newCount = Cardinality(told) /\ ~(f.next < f.last)
      BY <1>1, <1>3, <1>7, <2>2 DEF AnnouncedInv, f, more
    <3>2. "newmail" \in reopen => Len(view') < newCount
      BY <1>2, <1>3, <1>5, <1>6, <1>7, <3>1
    <3> QED BY <1>2, <1>3, <1>9, <1>11, <2>2, <3>1, <3>2 DEF AnnouncedInv
  <2> QED BY <2>1, <2>2
<1> QED BY <1>12, <1>13, <1>14, <1>15, <1>16, <1>18, <1>19, <1>20, <1>21 DEF BasicInv

(* imap_read_headers() goes on, or ends. *)
ReadsMore(f) ==
  /\ MsgNo(f) <= ReadEnd(f)
  /\ stack' = Replace([f EXCEPT !.stage = "running", !.next = MsgNo(f),
                                !.last = ReadEnd(f), !.end = ReadEnd(f)])
  /\ UNCHANGED <<ctx, gap, job>>
HasRead(f) ==
  /\ ~(MsgNo(f) <= ReadEnd(f))
  /\ stack' = Nested(TRUE)
  /\ job' = IF job.op = "open" THEN Job("idle", "-") ELSE job
  /\ ctx' = [ctx EXCEPT !.deleted = @ + NumDeleted(SubSeq(view, f.old + 1, Len(view))),
                        !.vcount = @ + Len(SubSeq(view, f.old + 1, Len(view)))]
  /\ gap' = (IF Len(view) = Cardinality(told) THEN gap \ {"mail"} ELSE gap)
              \cup (IF \E i \in 1..(Len(stack) - 1) : stack[i].op = "FETCH" THEN {"count"} ELSE {})

LEMMA ReadNextCases ==
  ASSUME ReadNext
  PROVE  /\ stack # <<>> /\ Top.op = "FETCH" /\ Top.stage = "done"
         /\ UNCHANGED <<mail, flags, uidnext, told, toldFlags, view, status, events,
                        off, swept, wanted, marked>>
         /\ \/ /\ Top.ok /\ (ReadsMore(Top) \/ HasRead(Top))
               /\ reopen' = reopen \ {"newmail"}
               /\ newCount' = IF "newmail" \in reopen THEN 0 ELSE newCount
            \/ ~Top.ok /\ GiveUp /\ UNCHANGED <<ctx, reopen, newCount>>
  BY DEF ReadNext, ReadOn, ReadsMore, HasRead, server, session

LEMMA SameView ==
  ASSUME view' = view
  PROVE  SameMessages(view, view') /\ \A i \in DOMAIN view : view'[i].active = view[i].active
  BY DEF SameMessages

(* What is read after a FETCH, and that the server has told of it. *)
LEMMA ReadEndIs ==
  ASSUME BasicInv, stack # <<>>, Top.op = "FETCH", Top.ok
  PROVE  /\ ReadEnd(Top) \in Nat /\ ReadEnd(Top) <= Cardinality(told)
         /\ MsgNo(Top) = Len(view) + 1 /\ "expunge" \notin reopen
         /\ Top.old \in Nat /\ Top.old <= Len(view) /\ Len(view) \in Nat
<1>1. /\ ToldTypes /\ ViewTypes /\ ClientTypes /\ StackTypes /\ FetchInv /\ AnnouncedInv
  BY DEF BasicInv
<1>2. Top \in Frame /\ Len(stack) \in DOMAIN stack /\ Top = stack[Len(stack)] BY <1>1, TopIs
<1>3. Top.next \in Nat /\ Top.end \in Nat /\ Top.old \in Nat BY <1>2 DEF Frame
<1>4. Top.next <= Len(view) + 1 /\ Top.old <= Len(view) /\ Top.end <= Cardinality(told)
      /\ "expunge" \notin reopen
  BY <1>1, <1>2 DEF FetchInv, Reading
<1>5. Len(view) \in Nat /\ newCount \in 0..MaxUid /\ Cardinality(told) \in 0..MaxUid
  BY <1>1, SeqHas, ToldCount DEF ViewTypes, ClientTypes
<1>6. "newmail" \in reopen => newCount = Cardinality(told) BY <1>1, <1>4 DEF AnnouncedInv
<1>7. ReadEnd(Top) \in Nat /\ ReadEnd(Top) <= Cardinality(told)
  BY <1>3, <1>4, <1>5, <1>6, ImapAssumption DEF ReadEnd
<1>8. MsgNo(Top) = Len(view) + 1 BY <1>3, <1>4, <1>5 DEF MsgNo
<1> QED BY <1>3, <1>4, <1>5, <1>7, <1>8

LEMMA ReadsMoreStep ==
  ASSUME BasicInv, stack # <<>>, Top.op = "FETCH", Top.ok, ReadsMore(Top),
         UNCHANGED <<told, view>>, reopen' = reopen \ {"newmail"}
  PROVE  StackTypes' /\ NestInv' /\ JobInv' /\ PlaceInv' /\ FetchInv'
<1> DEFINE f == Top
           g == [f EXCEPT !.stage = "running", !.next = MsgNo(f),
                          !.last = ReadEnd(f), !.end = ReadEnd(f)]
<1>1. StackTypes /\ NestInv /\ JobInv /\ PlaceInv /\ FetchInv BY DEF BasicInv
<1>2. /\ ReadEnd(f) \in Nat /\ ReadEnd(f) <= Cardinality(told)
      /\ MsgNo(f) = Len(view) + 1 /\ "expunge" \notin reopen
      /\ f.old \in Nat /\ f.old <= Len(view) /\ Len(view) \in Nat
  BY ReadEndIs
<1>3. stack' = Replace(g) /\ job' = job BY DEF ReadsMore
<1>4. f \in Frame /\ f = stack[Len(stack)] /\ Len(stack) \in Nat \ {0}
      /\ DOMAIN stack = 1..Len(stack) /\ Len(stack) \in DOMAIN stack /\ 1 \in DOMAIN stack
  BY <1>1, TopIs
<1>5. f.op = "FETCH" OBVIOUS
<1> HIDE DEF f
<1>6. /\ g \in Frame /\ g.op = "FETCH" /\ g.stage = "running" /\ g.uids = f.uids
      /\ g.next = Len(view) + 1 /\ g.last = ReadEnd(f) /\ g.end = ReadEnd(f) /\ g.old = f.old
  <2>1. MsgNo(f) \in Nat BY <1>2
  <2> QED BY <1>2, <1>4, <1>5, <2>1 DEF Frame
<1> HIDE DEF g
<1>7. /\ stack' \in Seq(Frame) /\ Len(stack') = Len(stack)
      /\ DOMAIN stack' = DOMAIN stack /\ stack' # <<>> /\ stack'[Len(stack)] = g
      /\ \A i \in DOMAIN stack : i # Len(stack) => stack'[i] = stack[i]
  BY <1>1, <1>3, <1>6, ReplaceIs
<1>8. Top' = g BY <1>7 DEF Top
<1>9. \A i \in DOMAIN stack : stack'[i].op = stack[i].op /\ (i # Len(stack) => stack'[i].stage = stack[i].stage)
  BY <1>4, <1>5, <1>6, <1>7
<1>10. NestInv'
  <2>1. \A i \in DOMAIN stack' : i < Len(stack') => stack'[i].stage = "done"
    BY <1>1, <1>4, <1>7, <1>9 DEF NestInv
  <2>2. \A i \in DOMAIN stack' : i > 1 => stack'[i].op = "FETCH" BY <1>1, <1>7, <1>9 DEF NestInv
  <2>3. \A i \in DOMAIN stack' : stack'[i].op \notin {"EXPUNGE", "CLOSE"} => stack'[i].stage # "sent"
    BY <1>1, <1>6, <1>7, <1>9 DEF NestInv
  <2> QED BY <2>1, <2>2, <2>3 DEF NestInv
<1>11. JobInv'
  <2>1. "allow" \in reopen' => "allow" \in reopen OBVIOUS
  <2>2. stack'[1].op = stack[1].op BY <1>4, <1>9
  <2>3. stack # <<>> BY <1>4
  <2> QED BY <1>1, <1>3, <1>7, <2>1, <2>2, <2>3 DEF JobInv, Sent
<1>12. PlaceInv'
  <2>1. Len(stack) = 1 => stack'[1].op = "FETCH" BY <1>6, <1>7
  <2>2. Len(stack) > 1 => stack'[1].stage = "done" BY <1>1, <1>4, <1>9 DEF NestInv
  <2>3. ~Sent("UID FETCH")' /\ (Sent("STORE")' => ~(stack'[1].stage = "running"))
    <3>1. stack'[1].op = stack[1].op BY <1>4, <1>9
    <3>2. stack[1].op = "UID FETCH" => Len(stack) = 1 BY <1>1, <1>4 DEF JobInv, Sent
    <3>3. Len(stack) = 1 \/ Len(stack) > 1 BY <1>4
    <3> QED BY <2>1, <2>2, <3>1, <3>2, <3>3 DEF Sent
  <2> QED BY <2>3 DEF PlaceInv
<1>13. FetchInv'
  <2>1. ASSUME NEW i \in DOMAIN stack', stack'[i].op = "FETCH"
        PROVE  /\ stack'[i].next <= Len(view) + 1 /\ stack'[i].old <= Len(view)
               /\ stack'[i].end <= Cardinality(told)
    <3>1. CASE i = Len(stack) BY <1>2, <1>6, <1>7, <3>1
    <3>2. CASE i # Len(stack) BY <1>1, <1>7, <2>1, <3>2 DEF FetchInv
    <3> QED BY <3>1, <3>2
  <2>2. "expunge" \notin reopen' BY <1>2
  <2>3. g.last <= g.end BY <1>2, <1>6
  <2> QED BY <1>6, <1>8, <2>1, <2>2, <2>3 DEF FetchInv, Running
<1> QED BY <1>1, <1>3, <1>7, <1>10, <1>11, <1>12, <1>13 DEF StackTypes

(* The end of imap_read_headers(). *)
LEMMA HasReadStep ==
  ASSUME BasicInv, stack # <<>>, Top.op = "FETCH", Top.ok, HasRead(Top),
         UNCHANGED <<told, view>>, reopen' = reopen \ {"newmail"}
  PROVE  /\ StackTypes' /\ gap' \subseteq Gaps /\ NestInv' /\ JobInv' /\ PlaceInv' /\ FetchInv'
         /\ ctx' \in [changed : 0..1, deleted : Int, vcount : Nat] /\ ~Running("FETCH")'
<1> DEFINE s == Nested(TRUE)
           new == SubSeq(view, Top.old + 1, Len(view))
<1>1. /\ ViewTypes /\ StackTypes /\ ClientTypes /\ HistoryTypes /\ NestInv /\ JobInv /\ PlaceInv /\ FetchInv
  BY DEF BasicInv
<1>2. /\ s \in Seq(Frame) /\ Len(s) = Len(stack) - 1 /\ DOMAIN s = 1..(Len(stack) - 1)
      /\ \A i \in DOMAIN s :
              /\ i \in DOMAIN stack
              /\ s[i].op = stack[i].op /\ s[i].stage = stack[i].stage
              /\ s[i].uids = stack[i].uids /\ s[i].next = stack[i].next
              /\ s[i].last = stack[i].last /\ s[i].end = stack[i].end
              /\ s[i].old = stack[i].old
  BY <1>1, NestedIs
<1>3. /\ stack' = s /\ job' = (IF job.op = "open" THEN Job("idle", "-") ELSE job)
      /\ gap' \subseteq gap \cup {"count"}
      /\ ctx' = [ctx EXCEPT !.deleted = @ + NumDeleted(new), !.vcount = @ + Len(new)]
  BY DEF HasRead
<1>4. Len(stack) \in Nat \ {0} /\ Len(stack) \in DOMAIN stack /\ 1 \in DOMAIN stack
      /\ DOMAIN stack = 1..Len(stack) /\ Top = stack[Len(stack)]
  BY <1>1, TopIs
<1>5. "expunge" \notin reopen /\ Top.old \in Nat /\ Top.old <= Len(view) /\ Len(view) \in Nat
  BY ReadEndIs
<1>6. ctx' \in [changed : 0..1, deleted : Int, vcount : Nat]
  <2>1. new \in Seq(Header)
    <3>1. view \in Seq(Header) BY <1>1 DEF ViewTypes
    <3>2. Top.old + 1 \in 1..(Len(view) + 1) BY <1>5
    <3> QED BY <1>5, <3>1, <3>2
  <2>2. NumDeleted(new) \in Nat /\ Len(new) \in Nat BY <2>1, NumTypes, SeqHas
  <2>3. ctx \in [changed : 0..1, deleted : Int, vcount : Nat] BY <1>1 DEF ClientTypes
  <2> HIDE DEF new
  <2>4. ctx.deleted + NumDeleted(new) \in Int /\ ctx.vcount + Len(new) \in Nat BY <2>2, <2>3
  <2> QED BY <1>3, <2>3, <2>4
<1> HIDE DEF s, new
<1>7. ASSUME s # <<>>
      PROVE  /\ 1 \in DOMAIN s /\ Len(stack) > 1 /\ s[1].op = stack[1].op /\ s[1].stage = stack[1].stage
             /\ s[1].uids = stack[1].uids /\ s[1].stage = "done"
             /\ Len(s) \in DOMAIN s /\ s[Len(s)].stage = "done"
  <2>1. Len(s) \in Nat /\ Len(s) # 0 BY <1>2, <1>7, SeqHas
  <2>2. 1 \in DOMAIN s /\ Len(s) \in DOMAIN s /\ Len(stack) > 1 BY <1>2, <1>4, <2>1
  <2>3. s[1].stage = "done" /\ s[Len(s)].stage = "done" BY <1>1, <1>2, <1>4, <2>2 DEF NestInv
  <2> QED BY <1>2, <2>2, <2>3
<1>8. ~Running("FETCH")'
  <2>1. Top' = s[Len(s)] BY <1>3 DEF Top
  <2> QED BY <1>3, <1>7, <2>1 DEF Running
<1>9. s = <<>> => Len(stack) = 1 /\ stack[1].op = "FETCH" BY <1>2, <1>4
<1>10. NestInv'
  <2>1. \A i \in DOMAIN s : i < Len(s) => s[i].stage = "done" BY <1>1, <1>2, <1>4 DEF NestInv
  <2>2. \A i \in DOMAIN s : i > 1 => s[i].op = "FETCH" BY <1>1, <1>2 DEF NestInv
  <2>3. \A i \in DOMAIN s : s[i].op \notin {"EXPUNGE", "CLOSE"} => s[i].stage # "sent"
    BY <1>1, <1>2 DEF NestInv
  <2> QED BY <1>3, <2>1, <2>2, <2>3 DEF NestInv
<1>11. (job.op = "open" => ~(Len(stack) > 1)) /\ (stack[1].op = "UID FETCH" => ~(Len(stack) > 1))
  <2>1. stack # <<>> OBVIOUS
  <2>2. (job.op = "open" => Len(stack) = 1) /\ (stack[1].op = "UID FETCH" => Len(stack) = 1)
    BY <1>1, <2>1 DEF JobInv, Sent
  <2>3. Len(stack) = 1 => ~(Len(stack) > 1) OBVIOUS
  <2> QED BY <2>2, <2>3, Zenon
<1>12. job' \in Jobs /\ (job.op = "open" => job'.op = "idle" /\ job'.phase = "-")
  BY <1>1, <1>3, JobIs DEF StackTypes
<1>13. JobInv'
  <2>1. CASE job.op = "open"
    <3>1. s = <<>> BY <1>7, <1>11, <2>1
    <3>2. "allow" \notin reopen' BY <1>1, <2>1 DEF JobInv
    <3> QED BY <1>3, <1>12, <2>1, <3>1, <3>2 DEF JobInv, Sent
  <2>2. CASE job.op # "open"
    <3>1. job' = job BY <1>3, <2>2
    <3>2. stack # <<>> BY <1>4
    <3>3. \A op \in Ops : Sent(op)' => Sent(op) BY <1>3, <1>7, <3>2 DEF Sent
    <3>4. stack[1].op = "UID FETCH" => s = <<>> BY <1>7, <1>11
    <3>5. ~Sent("UID FETCH")' BY <1>3, <1>7, <3>4 DEF Sent
    <3>6. stack[1].op = "EXPUNGE" => s # <<>> /\ Sent("EXPUNGE")' BY <1>3, <1>7, <1>9 DEF Sent
    <3>7. stack[1].op = "CLOSE" => s # <<>> /\ Sent("CLOSE")' BY <1>3, <1>7, <1>9 DEF Sent
    <3>8. job.phase = "expunge" => stack[1].op = "EXPUNGE" \/ stack[1].op = "CLOSE"
      BY <1>1 DEF JobInv, Sent
    <3>9. ~(job.op \in {"idle", "closed"}) BY <1>1, <3>2 DEF JobInv
    <3> QED BY <1>1, <2>2, <3>1, <3>3, <3>5, <3>6, <3>7, <3>8, <3>9 DEF JobInv, Ops
  <2> QED BY <2>1, <2>2
<1>14. PlaceInv'
  <2>1. ~Sent("UID FETCH")' BY <1>3, <1>7, <1>11 DEF Sent
  <2> QED BY <1>3, <1>7, <2>1 DEF PlaceInv, Sent
<1>15. FetchInv'
  <2>1. \A i \in DOMAIN s : s[i].op = "FETCH" =>
          /\ s[i].next <= Len(view) + 1 /\ s[i].old <= Len(view)
          /\ s[i].end <= Cardinality(told)
    BY <1>1, <1>2 DEF FetchInv
  <2>2. "expunge" \notin reopen' BY <1>5
  <2> QED BY <1>3, <1>8, <2>1, <2>2 DEF FetchInv
<1>16. gap' \subseteq Gaps BY <1>1, <1>3 DEF HistoryTypes, Gaps
<1> QED BY <1>2, <1>3, <1>6, <1>8, <1>10, <1>12, <1>13, <1>14, <1>15, <1>16 DEF StackTypes

LEMMA ReadNextStep ==
  ASSUME BasicInv, ReadNext
  PROVE  BasicInv'
<1>1. /\ ServerTypes /\ ToldTypes /\ ViewTypes /\ ClientTypes /\ StackTypes /\ HistoryTypes
      /\ NestInv /\ JobInv /\ PlaceInv /\ FetchInv /\ AnnouncedInv
  BY DEF BasicInv
<1>2. /\ stack # <<>> /\ Top.op = "FETCH" /\ Top.stage = "done"
      /\ UNCHANGED <<mail, flags, uidnext, told, toldFlags, view, status, events,
                        off, swept, wanted, marked>>
      /\ \/ /\ Top.ok /\ (ReadsMore(Top) \/ HasRead(Top))
            /\ reopen' = reopen \ {"newmail"}
            /\ newCount' = IF "newmail" \in reopen THEN 0 ELSE newCount
         \/ ~Top.ok /\ GiveUp /\ UNCHANGED <<ctx, reopen, newCount>>
  BY ReadNextCases
<1>3. ServerTypes' /\ ToldTypes' /\ ViewTypes' BY <1>1, <1>2 DEF ServerTypes, ToldTypes, ViewTypes
<1>4. StackTypes' /\ gap' \subseteq Gaps /\ NestInv' /\ JobInv' /\ PlaceInv' /\ FetchInv'
      /\ ctx' \in [changed : 0..1, deleted : Int, vcount : Nat]
      /\ (~Running("FETCH")' \/ reopen' = reopen \ {"newmail"})
  <2>0. gap \subseteq Gaps /\ ctx \in [changed : 0..1, deleted : Int, vcount : Nat]
    BY <1>1 DEF HistoryTypes, ClientTypes
  <2>1. CASE Top.ok /\ ReadsMore(Top) /\ reopen' = reopen \ {"newmail"}
    <3>1. UNCHANGED <<ctx, gap>> BY <2>1 DEF ReadsMore
    <3> QED BY <1>2, <2>0, <2>1, <3>1, ReadsMoreStep
  <2>2. CASE Top.ok /\ HasRead(Top) /\ reopen' = reopen \ {"newmail"} BY <1>2, <2>2, HasReadStep
  <2>3. CASE GiveUp /\ UNCHANGED <<ctx, reopen>>
    <3>1. SameMessages(view, view') /\ \A i \in DOMAIN view : view'[i].active = view[i].active
      BY <1>2, SameView
    <3>2. view' \in Seq(Header) BY <1>1, <1>2 DEF ViewTypes
    <3> QED BY <1>1, <1>2, <2>0, <2>3, <3>1, <3>2, GiveUpStep
  <2> QED BY <1>2, <2>1, <2>2, <2>3
<1>5. HistoryTypes' BY <1>1, <1>2, <1>4 DEF HistoryTypes
<1>6. ClientTypes'
  <2>1. newCount' \in 0..MaxUid BY <1>1, <1>2, ImapAssumption DEF ClientTypes
  <2> QED BY <1>1, <1>2, <1>4, <2>1 DEF ClientTypes
<1>7. AnnouncedInv'
  <2>1. CASE reopen' = reopen \ {"newmail"} BY <2>1 DEF AnnouncedInv
  <2>2. CASE ~Running("FETCH")' /\ UNCHANGED <<reopen, newCount>>
    BY <1>1, <1>2, <2>2 DEF AnnouncedInv
  <2> QED BY <1>2, <1>4, <2>1, <2>2
<1> QED BY <1>3, <1>4, <1>5, <1>6, <1>7 DEF BasicInv

(* The three things that may happen at the end of a command. *)
Settles(stk) == stack' = stk /\ UNCHANGED <<client, gap>>
ReadsAgain(stk) ==
  /\ "allow" \in reopen /\ ReadsNew
  /\ stack' = Append(stk, ReadHeaders(Len(view) + 1, newCount))
  /\ reopen' = reopen \ {"newmail"} /\ newCount' = 0
  /\ status' = {"newmail"}
  /\ UNCHANGED <<view, ctx, gap>>
Compacts(stk) ==
  /\ "allow" \in reopen /\ "expunge" \in reopen
  /\ stack' = stk
  /\ view' = Expunged(view) /\ ctx' = Updated(view')
  /\ status' = (IF "expected" \in reopen THEN status ELSE {"expunge"})
  /\ reopen' = reopen \ {"expunge", "newmail", "expected"}
  /\ gap' = (gap \ {"count"})
               \cup (IF Cardinality(told) > Len(view') THEN {"mail"} ELSE {})
               \cup (IF \E i \in DOMAIN view : ~view[i].active /\ view[i].idx # 0
                     THEN {"hole"} ELSE {})
               \cup (IF job.phase = "flags" THEN {"skip"} ELSE {})
  /\ UNCHANGED newCount

LEMMA FinishCases ==
  ASSUME NEW stk, Finish(stk)
  PROVE  Settles(stk) \/ ReadsAgain(stk) \/ Compacts(stk)
  BY DEF Finish, Settles, ReadsAgain, Compacts

(* stk is what is left of a stack when its last command has ended. *)
Ended(stk) ==
  /\ stk \in Seq(Frame) /\ Len(stk) = Len(stack) /\ DOMAIN stk = DOMAIN stack
  /\ \A i \in DOMAIN stack :
       /\ stk[i].op = stack[i].op /\ stk[i].uids = stack[i].uids /\ stk[i].next = stack[i].next
       /\ stk[i].old = stack[i].old /\ stk[i].end = stack[i].end /\ stk[i].stage = "done"
  /\ stack # <<>> /\ Top.op = "FETCH" => Top.stage = "running"

LEMMA EndedTop ==
  ASSUME StackTypes, NEW stk, Ended(stk), stk # <<>>
  PROVE  /\ stack # <<>> /\ Len(stk) \in DOMAIN stk /\ 1 \in DOMAIN stk /\ DOMAIN stk = DOMAIN stack
         /\ stk[Len(stk)].op = Top.op /\ stk[Len(stk)].stage = "done" /\ stk[1].op = stack[1].op
         /\ Len(stk) \in Nat \ {0} /\ DOMAIN stk = 1..Len(stk)
<1>1. Len(stk) \in Nat /\ Len(stk) # 0 /\ DOMAIN stk = 1..Len(stk) BY SeqHas DEF Ended
<1>2. stack # <<>> BY <1>1, SeqHas DEF Ended, StackTypes
<1>3. Len(stack) \in DOMAIN stack /\ Top = stack[Len(stack)] BY <1>2, TopIs
<1> QED BY <1>1, <1>2, <1>3 DEF Ended

LEMMA FinishStep ==
  ASSUME BasicInv, NEW stk, Ended(stk), Finish(stk), told' = told,
         job.op \in {"idle", "closed"} => stack # <<>>,
         \/ job' = job
         \/ /\ stack = <<>> /\ job.phase = "checked"
            /\ job' \in Jobs /\ job'.op = job.op /\ job'.phase = "result"
  PROVE  /\ ViewTypes' /\ ClientTypes' /\ StackTypes' /\ gap' \subseteq Gaps
         /\ NestInv' /\ JobInv' /\ PlaceInv' /\ FetchInv' /\ AnnouncedInv'
<1>1. /\ ServerTypes /\ ToldTypes /\ ViewTypes /\ ClientTypes /\ StackTypes /\ HistoryTypes
      /\ NestInv /\ JobInv /\ PlaceInv /\ FetchInv /\ AnnouncedInv
  BY DEF BasicInv
<1>2. Len(view) \in Nat /\ newCount \in 0..MaxUid /\ reopen \subseteq Bits /\ Cardinality(told) \in 0..MaxUid
  BY <1>1, SeqHas, ToldCount DEF ViewTypes, ClientTypes
<1>3. stk # <<>> <=> stack # <<>>
  BY <1>1, SeqHas DEF Ended, StackTypes
<1>4. job' \in Jobs /\ job'.op = job.op /\ (stack # <<>> => job' = job)
      /\ (job' = job \/ (job'.phase = "result" /\ job.op \in {"check", "sync", "close"}))
  BY <1>1 DEF StackTypes, JobInv
<1>5. ~(job.op \in {"idle", "closed"}) BY <1>1 DEF JobInv
<1>6. ASSUME stack # <<>>
      PROVE  /\ stk # <<>> /\ Len(stk) \in DOMAIN stk /\ 1 \in DOMAIN stk /\ DOMAIN stk = 1..Len(stk)
             /\ stk[Len(stk)].op = Top.op /\ stk[Len(stk)].stage = "done" /\ stk[1].op = stack[1].op
             /\ stk[1].stage = "done" /\ Len(stk) \in Nat \ {0}
  BY <1>1, <1>3, <1>6, EndedTop DEF Ended
<1>7. /\ \A i \in DOMAIN stk : i > 1 => stk[i].op = "FETCH"
      /\ \A i \in DOMAIN stk : stk[i].stage = "done"
      /\ \A i \in DOMAIN stk : stk[i].op = "FETCH" =>
           /\ stk[i].next <= Len(view) + 1 /\ stk[i].old <= Len(view)
           /\ stk[i].end <= Cardinality(told)
      /\ stk \in Seq(Frame)
  BY <1>1 DEF Ended, NestInv, FetchInv
<1>8. "allow" \in reopen => job.op # "open" /\ (stack # <<>> => stack[1].op # "UID FETCH")
  BY <1>1 DEF JobInv, Sent
<1>9. CASE Settles(stk)
  <2>1. stack' = stk /\ UNCHANGED <<view, ctx, reopen, newCount, status, gap>>
    BY <1>9 DEF Settles, client
  <2>2. ViewTypes' /\ ClientTypes' /\ StackTypes' /\ gap' \subseteq Gaps
    BY <1>1, <1>4, <1>7, <2>1 DEF ViewTypes, ClientTypes, StackTypes, HistoryTypes
  <2>3. NestInv' BY <1>7, <2>1 DEF NestInv
  <2>4. JobInv'
    <3>1. CASE stack = <<>> 
      <4>3. Len(stack) # 1 BY <3>1
      <4>4. job.op # "open" BY <1>1, <4>3 DEF JobInv
      <4>1. stk = <<>> /\ job.op # "open" BY <1>3, <3>1, <4>4
      <4>2. job.phase # "expunge" BY <1>1, <3>1 DEF JobInv, Sent
      <4> QED BY <1>1, <1>4, <1>5, <2>1, <4>1, <4>2 DEF JobInv, Sent
    <3>2. CASE stack # <<>>
      <4>1. Len(stk) = Len(stack) BY DEF Ended
      <4> QED BY <1>1, <1>4, <1>5, <1>6, <2>1, <3>2, <4>1 DEF JobInv, Sent
    <3> QED BY <3>1, <3>2
  <2>5. PlaceInv' BY <1>1, <1>3, <1>4, <1>6, <2>1 DEF PlaceInv, Sent
  <2>6. ~Running("FETCH")' /\ (Reading' => "expunge" \notin reopen)
    <3>1. CASE stack = <<>> BY <1>3, <2>1, <3>1 DEF Running, Reading
    <3>2. CASE stack # <<>>
      <4>1. Top' = stk[Len(stk)] BY <2>1 DEF Top
      <4>2. Top.op = "FETCH" => Reading BY <3>2 DEF Reading, Ended
      <4> QED BY <1>1, <1>6, <3>2, <4>1, <4>2 DEF Running, Reading, FetchInv
    <3> QED BY <3>1, <3>2
  <2>7. FetchInv' /\ AnnouncedInv' BY <1>1, <1>7, <2>1, <2>6 DEF FetchInv, AnnouncedInv
  <2> QED BY <2>2, <2>3, <2>4, <2>5, <2>7
<1>10. CASE ReadsAgain(stk)
  <2> DEFINE g == ReadHeaders(Len(view) + 1, newCount)
  <2>1. /\ stack' = Append(stk, g) /\ UNCHANGED <<view, ctx, gap>>
        /\ reopen' = reopen \ {"newmail"} /\ newCount' = 0 /\ status' = {"newmail"}
        /\ "allow" \in reopen /\ "expunge" \notin reopen /\ "newmail" \in reopen
    BY <1>10 DEF ReadsAgain, ReadsNew
  <2>2. /\ g \in Frame /\ g.op = "FETCH" /\ g.stage = "running"
        /\ g.next = Len(view) + 1 /\ g.last = newCount /\ g.end = newCount
        /\ g.old = (Len(view) + 1) - 1
    <3> DEFINE a == Len(view) + 1
    <3>1. a \in Nat \ {0} /\ newCount \in Nat BY <1>2, ImapAssumption
    <3> HIDE DEF a
    <3>2. ReadHeaders(a, newCount) \in Frame BY <3>1, ReadHeadersIs
    <3>3. /\ ReadHeaders(a, newCount).op = "FETCH" /\ ReadHeaders(a, newCount).stage = "running"
          /\ ReadHeaders(a, newCount).next = a
          /\ ReadHeaders(a, newCount).last = newCount /\ ReadHeaders(a, newCount).end = newCount
      BY <3>1, ReadHeadersIs
    <3>4. ReadHeaders(a, newCount).old = a - 1 BY <3>1, ReadHeadersIs
    <3> QED BY <3>2, <3>3, <3>4 DEF a
  <2> HIDE DEF g
  <2>3. /\ stack' \in Seq(Frame) /\ Len(stack') = Len(stk) + 1 /\ DOMAIN stack' = 1..(Len(stk) + 1)
        /\ stack' # <<>> /\ stack'[Len(stk) + 1] = g
        /\ \A i \in DOMAIN stk : stack'[i] = stk[i]
    BY <1>7, <2>1, <2>2, AppendIs
  <2>4. Top' = g BY <2>3 DEF Top
  <2>5. ViewTypes' /\ ClientTypes' /\ StackTypes' /\ gap' \subseteq Gaps
    <3>1. 0 \in 0..MaxUid BY ImapAssumption
    <3> QED BY <1>1, <1>4, <2>1, <2>3, <3>1 DEF ViewTypes, ClientTypes, StackTypes, HistoryTypes
  <2>6. Len(stk) \in Nat /\ DOMAIN stk = 1..Len(stk) BY <1>7, SeqHas
  <2>7. NestInv'
    <3>1. \A i \in DOMAIN stack' : i \in DOMAIN stk \/ i = Len(stk) + 1 BY <2>3, <2>6
    <3>2. \A i \in DOMAIN stack' : i < Len(stack') => stack'[i].stage = "done"
      BY <1>7, <2>3, <2>6, <3>1
    <3>3. \A i \in DOMAIN stack' : i > 1 => stack'[i].op = "FETCH" BY <1>7, <2>2, <2>3, <3>1
    <3>4. \A i \in DOMAIN stack' : stack'[i].stage # "sent" BY <1>7, <2>2, <2>3, <3>1
    <3> QED BY <3>2, <3>3, <3>4 DEF NestInv
  <2>8. stack # <<>> => stack'[1].op = stack[1].op /\ stack'[1].stage = "done"
    BY <1>6, <2>3
  <2>9. stack = <<>> => stack'[1].op = "FETCH"
    <3>1. stack = <<>> => Len(stk) = 0 BY <1>3, <1>7, SeqHas
    <3> QED BY <2>2, <2>3, <3>1
  <2>10. JobInv'
    <3>1. CASE stack = <<>>
      <4>1. job.phase # "expunge" BY <1>1, <3>1 DEF JobInv, Sent
      <4> QED BY <1>1, <1>4, <1>5, <1>8, <2>1, <2>3, <2>9, <3>1, <4>1 DEF JobInv, Sent
    <3>2. CASE stack # <<>> BY <1>1, <1>4, <1>5, <1>8, <2>1, <2>3, <2>8, <3>2 DEF JobInv, Sent
    <3> QED BY <3>1, <3>2
  <2>11. PlaceInv' BY <1>8, <2>1, <2>8, <2>9 DEF PlaceInv, Sent
  <2>12. FetchInv'
    <3>1. newCount = Cardinality(told) BY <1>1, <2>1 DEF AnnouncedInv
    <3>2. ASSUME NEW i \in DOMAIN stack', stack'[i].op = "FETCH"
          PROVE  /\ stack'[i].next <= Len(view) + 1 /\ stack'[i].old <= Len(view)
                 /\ stack'[i].end <= Cardinality(told)
      <4>1. CASE i = Len(stk) + 1 BY <1>2, <2>2, <2>3, <3>1, <4>1
      <4>2. CASE i \in DOMAIN stk BY <1>7, <2>3, <3>2, <4>2
      <4> QED BY <2>3, <2>6, <4>1, <4>2
    <3>3. g.last <= g.end BY <1>2, <2>2
    <3> QED BY <2>1, <2>2, <2>4, <3>2, <3>3 DEF FetchInv, Running
  <2>13. AnnouncedInv' BY <2>1 DEF AnnouncedInv
  <2> QED BY <2>5, <2>7, <2>10, <2>11, <2>12, <2>13
<1>11. CASE Compacts(stk)
  <2>1. /\ stack' = stk /\ view' = Expunged(view) /\ ctx' = Updated(view')
        /\ status' = (IF "expected" \in reopen THEN status ELSE {"expunge"})
        /\ reopen' = reopen \ {"expunge", "newmail", "expected"}
        /\ gap' \subseteq gap \cup {"mail", "hole", "skip"}
        /\ "allow" \in reopen /\ "expunge" \in reopen /\ newCount' = newCount
    BY <1>11 DEF Compacts
  <2>2. view' \in Seq(Header) /\ Len(view') <= Len(view) /\ Len(view') \in Nat
    BY <1>1, <2>1, ExpungedIs, SeqHas DEF ViewTypes
  <2>3. ViewTypes' BY <1>1, <1>2, <2>2, ImapAssumption DEF ViewTypes
  <2>4. ClientTypes'
    <3>1. NumDeleted(view') \in Nat /\ NumChanged(view') % 2 \in 0..1 BY <2>2, NumTypes
    <3>2. ctx' \in [changed : 0..1, deleted : Int, vcount : Nat]
      BY <2>1, <2>2, <3>1 DEF Updated
    <3> QED BY <1>1, <2>1, <3>2 DEF ClientTypes
  <2>5. StackTypes' /\ gap' \subseteq Gaps
    BY <1>1, <1>4, <1>7, <2>1 DEF StackTypes, HistoryTypes, Gaps
  <2>6. NestInv' BY <1>7, <2>1 DEF NestInv
  <2>7. JobInv'
    <3>1. CASE stack = <<>> 
      <4>3. Len(stack) # 1 BY <3>1
      <4>4. job.op # "open" BY <1>1, <4>3 DEF JobInv
      <4>1. stk = <<>> /\ job.op # "open" BY <1>3, <3>1, <4>4
      <4>2. job.phase # "expunge" BY <1>1, <3>1 DEF JobInv, Sent
      <4> QED BY <1>1, <1>4, <1>5, <2>1, <4>1, <4>2 DEF JobInv, Sent
    <3>2. CASE stack # <<>> BY <1>1, <1>4, <1>5, <1>6, <1>8, <2>1, <3>2 DEF JobInv, Sent
    <3> QED BY <3>1, <3>2
  <2>8. PlaceInv' BY <1>3, <1>6, <1>8, <2>1 DEF PlaceInv, Sent
  <2>9. \A i \in DOMAIN stk : stk[i].op # "FETCH"
    <3>1. CASE stack = <<>>
      <4>1. DOMAIN stk = {} BY <1>3, <1>7, <3>1, SeqHas
      <4> QED BY <4>1
    <3>2. CASE stack # <<>>
      <4>1. Top.op # "FETCH" BY <1>1, <2>1, <3>2 DEF FetchInv, Reading, Ended
      <4>2. DOMAIN stack = {1} /\ Top = stack[1] BY <1>1, <3>2, <4>1, OutermostIs
      <4> QED BY <1>6, <3>2, <4>1, <4>2 DEF Ended
    <3> QED BY <3>1, <3>2
  <2>10. ~Reading' /\ ~Running("FETCH")'
    <3>1. stk # <<>> => Len(stk) \in DOMAIN stk BY <1>3, <1>6
    <3>2. Top' = stk[Len(stk)] BY <2>1 DEF Top
    <3> QED BY <2>1, <2>9, <3>1, <3>2 DEF Reading, Running
  <2>11. FetchInv' BY <2>1, <2>9, <2>10 DEF FetchInv
  <2>12. AnnouncedInv' BY <2>1, <2>10 DEF AnnouncedInv
  <2> QED BY <2>3, <2>4, <2>5, <2>6, <2>7, <2>8, <2>11, <2>12
<1> QED BY <1>9, <1>10, <1>11, FinishCases

(* Only a STORE of one header's flags takes them from a header. *)
LEMMA StoredIs ==
  ASSUME BasicInv, stack # <<>>, Top.stage = "running", NEW f \in [Uids -> SUBSET Flags]
  PROVE  Stored(f) \in [Uids -> SUBSET Flags]
<1>1. ViewTypes /\ StackTypes /\ NestInv /\ PlaceInv BY DEF BasicInv
<1>2. ASSUME NEW u \in Uids PROVE Effect(f, u) \in SUBSET Flags
  <2>1. f[u] \in SUBSET Flags OBVIOUS
  <2>2. f[u] \cup {"deleted"} \in SUBSET Flags BY <2>1 DEF Flags
  <2>3. CASE Top.op = "STORE"
    <3>1. Top = stack[1] BY <1>1, <2>3, OutermostIs
    <3>2. job.pos \in DOMAIN view BY <1>1, <2>3, <3>1 DEF PlaceInv, Sent
    <3>3. view[job.pos] \in Header BY <1>1, <3>2, SeqHas DEF ViewTypes
    <3> QED BY <2>3, <3>3 DEF Effect, Header
  <2>4. CASE Top.op = "STORE deleted" BY <2>2, <2>4 DEF Effect
  <2>5. CASE Top.op # "STORE" /\ Top.op # "STORE deleted" BY <2>1, <2>5 DEF Effect
  <2> QED BY <2>3, <2>4, <2>5
<1> QED BY <1>2 DEF Stored

LEMMA EndedIs ==
  ASSUME StackTypes, NestInv, stack # <<>>, NEW ok \in BOOLEAN,
         Top.op = "FETCH" => Top.stage = "running"
  PROVE  Ended(Replace([Top EXCEPT !.stage = "done", !.ok = ok]))
<1> DEFINE g == [Top EXCEPT !.stage = "done", !.ok = ok]
<1>1. Top \in Frame /\ Top = stack[Len(stack)] /\ DOMAIN stack = 1..Len(stack) BY TopIs
<1>2. /\ g \in Frame /\ g.op = Top.op /\ g.uids = Top.uids /\ g.next = Top.next
      /\ g.old = Top.old /\ g.end = Top.end /\ g.stage = "done"
  BY <1>1 DEF Frame
<1> HIDE DEF g
<1>3. /\ Replace(g) \in Seq(Frame) /\ Len(Replace(g)) = Len(stack)
      /\ DOMAIN Replace(g) = DOMAIN stack /\ Replace(g)[Len(stack)] = g
      /\ \A i \in DOMAIN stack : i # Len(stack) => Replace(g)[i] = stack[i]
  BY <1>2, ReplaceIs
<1>4. \A i \in DOMAIN stack :
       /\ Replace(g)[i].op = stack[i].op /\ Replace(g)[i].uids = stack[i].uids
       /\ Replace(g)[i].next = stack[i].next /\ Replace(g)[i].old = stack[i].old
       /\ Replace(g)[i].end = stack[i].end
  BY <1>1, <1>2, <1>3
<1>5. \A i \in DOMAIN stack : Replace(g)[i].stage = "done"
  <2>1. Len(stack) \in Nat BY TopIs
  <2>2. \A i \in DOMAIN stack : i # Len(stack) => i < Len(stack) BY <1>1, <2>1
  <2> QED BY <1>2, <1>3, <2>2 DEF NestInv
<1>6. Ended(Replace(g)) BY <1>3, <1>4, <1>5 DEF Ended
<1> QED BY <1>6 DEF g

LEMMA TaggedStep ==
  ASSUME BasicInv, NEW ok \in BOOLEAN, Tagged(ok)
  PROVE  BasicInv'
<1> DEFINE stk == Replace([Top EXCEPT !.stage = "done", !.ok = ok])
<1>1. /\ ServerTypes /\ ToldTypes /\ ViewTypes /\ ClientTypes /\ StackTypes /\ HistoryTypes
      /\ NestInv /\ JobInv /\ PlaceInv /\ FetchInv /\ AnnouncedInv
  BY DEF BasicInv
<1>2. /\ stack # <<>> /\ Finish(stk)
      /\ Top.stage = "running" \/ (Top.stage = "sent" /\ ~ok)
      /\ UNCHANGED <<mail, uidnext, told, job, events, swept, wanted>>
      /\ off' = (IF ok THEN off ELSE off \cup Top.uids \cup Inactive)
  BY DEF Tagged
<1>3. \/ /\ ok /\ flags' = Stored(flags) /\ toldFlags' = Stored(toldFlags)
         /\ marked' \subseteq marked
      \/ UNCHANGED <<flags, toldFlags, marked>>
  BY DEF Tagged
<1>4. Top \in Frame /\ Top = stack[Len(stack)] /\ Len(stack) \in DOMAIN stack BY <1>1, <1>2, TopIs
<1>5. flags' \in [Uids -> SUBSET Flags] /\ toldFlags' \in [Uids -> SUBSET Flags] /\ marked' \subseteq Uids
  BY <1>1, <1>2, <1>3, StoredIs DEF ServerTypes, ToldTypes, HistoryTypes
<1>6. ServerTypes' /\ ToldTypes' BY <1>1, <1>2, <1>5 DEF ServerTypes, ToldTypes
<1>7. off' \subseteq Uids
  <2>1. Top.uids \subseteq Uids BY <1>4 DEF Frame
  <2> QED BY <1>1, <1>2, <2>1, InactiveIs DEF HistoryTypes
<1>8. Ended(stk)
  <2>1. Top.op = "FETCH" => Top.stage = "running" BY <1>1, <1>2, <1>4 DEF NestInv
  <2> QED BY <1>1, <1>2, <2>1, EndedIs
<1> HIDE DEF stk
<1>9. /\ ViewTypes' /\ ClientTypes' /\ StackTypes' /\ gap' \subseteq Gaps
      /\ NestInv' /\ JobInv' /\ PlaceInv' /\ FetchInv' /\ AnnouncedInv'
  BY <1>2, <1>8, FinishStep
<1>10. HistoryTypes' BY <1>1, <1>2, <1>5, <1>7, <1>9 DEF HistoryTypes
<1> QED BY <1>6, <1>9, <1>10 DEF BasicInv

LEMMA CheckFinishStep ==
  ASSUME BasicInv, CheckFinish
  PROVE  BasicInv'
<1>1. /\ ServerTypes /\ ToldTypes /\ ViewTypes /\ ClientTypes /\ StackTypes /\ HistoryTypes
      /\ NestInv /\ JobInv /\ PlaceInv /\ FetchInv /\ AnnouncedInv
  BY DEF BasicInv
<1>2. /\ stack = <<>> /\ job.phase = "checked" /\ Finish(<<>>)
      /\ job' = [job EXCEPT !.phase = "result"]
      /\ UNCHANGED <<mail, flags, uidnext, told, toldFlags, events, off, swept, wanted, marked>>
  BY DEF CheckFinish, server, session
<1>3. job' \in Jobs /\ job'.op = job.op /\ job'.phase = "result" BY <1>1, <1>2 DEF StackTypes, Jobs
<1>4. Ended(<<>>)
  <2>1. DOMAIN stack = {} /\ stack \in Seq(Frame) BY <1>1, <1>2 DEF StackTypes
  <2> QED BY <1>2, <2>1 DEF Ended
<1>5. job.op \notin {"idle", "closed"} BY <1>1, <1>2 DEF JobInv
<1>6. /\ ViewTypes' /\ ClientTypes' /\ StackTypes' /\ gap' \subseteq Gaps
      /\ NestInv' /\ JobInv' /\ PlaceInv' /\ FetchInv' /\ AnnouncedInv'
  BY <1>2, <1>3, <1>4, <1>5, FinishStep
<1> QED BY <1>1, <1>2, <1>6 DEF BasicInv, ServerTypes, ToldTypes, HistoryTypes

LEMMA ExecuteStep ==
  ASSUME BasicInv, Execute
  PROVE  BasicInv'
<1>1. /\ ServerTypes /\ ToldTypes /\ ViewTypes /\ ClientTypes /\ StackTypes /\ HistoryTypes
      /\ NestInv /\ JobInv /\ PlaceInv /\ FetchInv /\ AnnouncedInv
  BY DEF BasicInv
<1> DEFINE g == [Top EXCEPT !.stage = "running"]
<1>2. /\ stack # <<>> /\ Top.stage = "sent" /\ mail' \subseteq mail /\ stack' = Replace(g)
      /\ UNCHANGED <<flags, uidnext, told, toldFlags, view, ctx, reopen, newCount, status, job, events>>
      /\ UNCHANGED <<gap, off, swept, wanted, marked>>
  BY DEF Execute, session, client, history
<1>3. Top \in Frame /\ Top = stack[Len(stack)] /\ DOMAIN stack = 1..Len(stack) /\ Len(stack) \in DOMAIN stack
  BY <1>1, <1>2, TopIs
<1>4. Top.op \in {"EXPUNGE", "CLOSE"} BY <1>1, <1>2, <1>3 DEF NestInv
<1>5. Len(stack) = 1 /\ DOMAIN stack = {1} /\ Top = stack[1] BY <1>1, <1>2, <1>4, OutermostIs
<1>6. g \in Frame /\ g.op = Top.op /\ g.stage = "running" BY <1>3 DEF Frame
<1> HIDE DEF g
<1>7. stack' \in Seq(Frame) /\ Len(stack') = 1 /\ DOMAIN stack' = {1} /\ stack' # <<>> /\ stack'[1] = g
      /\ Top' = g
  <2>1. stack' \in Seq(Frame) /\ Len(stack') = 1 /\ DOMAIN stack' = {1} /\ stack' # <<>> /\ stack'[1] = g
    BY <1>1, <1>2, <1>5, <1>6, ReplaceIs
  <2> QED BY <2>1 DEF Top
<1>8. ServerTypes' /\ ToldTypes' /\ ViewTypes' /\ ClientTypes' /\ StackTypes' /\ HistoryTypes'
  BY <1>1, <1>2, <1>7 DEF ServerTypes, ToldTypes, ViewTypes, ClientTypes, StackTypes, HistoryTypes
<1>9. NestInv'
  <2>1. ~(1 < 1) /\ ~(1 > 1) OBVIOUS
  <2> QED BY <1>4, <1>6, <1>7, <2>1 DEF NestInv
<1>10. JobInv' /\ PlaceInv'
  BY <1>1, <1>2, <1>4, <1>5, <1>6, <1>7 DEF JobInv, PlaceInv, Sent
<1>11. FetchInv' /\ AnnouncedInv'
  BY <1>1, <1>2, <1>4, <1>5, <1>6, <1>7 DEF FetchInv, AnnouncedInv, Reading, Running
<1> QED BY <1>8, <1>9, <1>10, <1>11 DEF BasicInv

(* The mailbox has been selected, and its headers are to be read. *)
LEMMA OpeningIs ==
  ASSUME ServerTypes
  PROVE  /\ Opening \in Seq(Frame) /\ OpenJob \in Jobs /\ IsFiniteSet(mail)
         /\ OpenJob.phase = "-" /\ Cardinality(mail) \in 0..MaxUid
         /\ \/ mail = {} /\ Opening = <<>> /\ OpenJob.op = "idle" /\ Cardinality(mail) = 0
            \/ /\ mail # {} /\ OpenJob.op = "open"
               /\ Opening # <<>> /\ Len(Opening) = 1 /\ DOMAIN Opening = {1}
               /\ Opening[1].op = "FETCH" /\ Opening[1].stage = "running"
               /\ Opening[1].next = 1 /\ Opening[1].old = 0
               /\ Opening[1].last = Cardinality(mail) /\ Opening[1].end = Cardinality(mail)
<1>1. IsFiniteSet(mail) /\ Cardinality(mail) \in 0..MaxUid
  BY ImapAssumption, SubsetOfRange DEF ServerTypes, Uids
<1>2. OpenJob \in Jobs /\ OpenJob.phase = "-"
      /\ OpenJob.op = IF mail = {} THEN "idle" ELSE "open"
  BY JobIs DEF OpenJob
<1>3. CASE mail = {}
  <2>1. Cardinality(mail) = 0 BY <1>3, FS_EmptySet
  <2> QED BY <1>1, <1>2, <1>3, <2>1 DEF Opening
<1>4. CASE mail # {}
  <2> DEFINE n == Cardinality(mail)
             g == ReadHeaders(1, n)
  <2>1. n \in Nat BY <1>1, ImapAssumption
  <2>2. Opening = <<g>> BY <1>4 DEF Opening
  <2> HIDE DEF n
  <2>3. /\ g \in Frame /\ g.op = "FETCH" /\ g.stage = "running" /\ g.next = 1
        /\ g.last = n /\ g.end = n /\ g.old = 1 - 1
    BY <2>1, ReadHeadersIs
  <2> HIDE DEF g
  <2>4. Opening \in Seq(Frame) /\ Len(Opening) = 1 /\ DOMAIN Opening = {1} /\ Opening[1] = g /\ Opening # <<>>
    BY <2>2, <2>3, SingleIs
  <2> QED BY <1>1, <1>2, <1>4, <2>3, <2>4 DEF n
<1> QED BY <1>3, <1>4

LEMMA InitBasic == Init => BasicInv
<1> SUFFICES ASSUME Init PROVE BasicInv OBVIOUS
<1>1. PICK n \in 0..MaxUid : mail = 1..n /\ uidnext = n + 1 BY DEF Init
<1>2. /\ flags \in [Uids -> {{}}] /\ told = mail /\ toldFlags = flags
      /\ view = <<>> /\ ctx = [changed |-> 0, deleted |-> 0, vcount |-> 0]
      /\ reopen = {} /\ newCount = 0 /\ status = {} /\ stack = Opening /\ job = OpenJob
      /\ events = 0 /\ gap = {} /\ off = {} /\ swept = {} /\ wanted = {} /\ marked = {}
  BY DEF Init
<1>3. flags \in [Uids -> SUBSET Flags] BY <1>2
<1>4. ServerTypes /\ ToldTypes
  BY <1>1, <1>2, <1>3, ImapAssumption DEF ServerTypes, ToldTypes, Uids
<1>5. /\ Opening \in Seq(Frame) /\ OpenJob \in Jobs
      /\ OpenJob.phase = "-" /\ Cardinality(mail) \in 0..MaxUid
      /\ \/ mail = {} /\ Opening = <<>> /\ OpenJob.op = "idle" /\ Cardinality(mail) = 0
         \/ /\ mail # {} /\ OpenJob.op = "open"
               /\ Opening # <<>> /\ Len(Opening) = 1 /\ DOMAIN Opening = {1}
               /\ Opening[1].op = "FETCH" /\ Opening[1].stage = "running"
               /\ Opening[1].next = 1 /\ Opening[1].old = 0
               /\ Opening[1].last = Cardinality(mail) /\ Opening[1].end = Cardinality(mail)
  BY <1>4, OpeningIs
<1>6. ViewTypes /\ ClientTypes /\ StackTypes /\ HistoryTypes
  BY <1>2, <1>5, ImapAssumption DEF ViewTypes, ClientTypes, StackTypes, HistoryTypes
<1>7. NestInv /\ JobInv /\ PlaceInv /\ FetchInv /\ AnnouncedInv
  <2>1. CASE stack = <<>> /\ job.op = "idle" /\ job.phase = "-"
    BY <1>2, <2>1 DEF NestInv, JobInv, PlaceInv, FetchInv, AnnouncedInv, Sent, Reading, Running
  <2>2. CASE /\ job.op = "open" /\ job.phase = "-"
             /\ stack # <<>> /\ Len(stack) = 1 /\ DOMAIN stack = {1}
             /\ stack[1].op = "FETCH" /\ stack[1].stage = "running"
             /\ stack[1].next = 1 /\ stack[1].old = 0
             /\ stack[1].last = Cardinality(told) /\ stack[1].end = Cardinality(told)
    <3>1. Top = stack[1] /\ ~(1 > 1) /\ ~(1 < 1) BY <2>2 DEF Top
    <3>2. NestInv /\ JobInv /\ PlaceInv BY <1>2, <2>2, <3>1 DEF NestInv, JobInv, PlaceInv, Sent
    <3>3. Len(view) = 0 /\ Cardinality(told) \in Int BY <1>2, <1>5
    <3>4. FetchInv /\ AnnouncedInv
      BY <1>2, <2>2, <3>1, <3>3 DEF FetchInv, AnnouncedInv, Running, Reading
    <3> QED BY <3>2, <3>4
  <2> QED BY <1>2, <1>5, <2>1, <2>2
<1> QED BY <1>4, <1>6, <1>7 DEF BasicInv

LEMMA ReopenStep ==
  ASSUME BasicInv, Reopen, UNCHANGED <<server, events>>
  PROVE  BasicInv'
<1>1. ServerTypes /\ HistoryTypes BY DEF BasicInv
<1>2. /\ told' = mail /\ toldFlags' = flags /\ UNCHANGED <<mail, flags, uidnext, events, marked>>
      /\ view' = <<>> /\ ctx' = [changed |-> 0, deleted |-> 0, vcount |-> 0]
      /\ reopen' = {} /\ newCount' = 0 /\ status' = {} /\ stack' = Opening /\ job' = OpenJob
      /\ gap' = {} /\ off' = {} /\ swept' = {} /\ wanted' \subseteq mail
  BY DEF Reopen, server
<1>4. ServerTypes' /\ ToldTypes' BY <1>1, <1>2 DEF ServerTypes, ToldTypes
<1>5. /\ Opening \in Seq(Frame) /\ OpenJob \in Jobs
      /\ OpenJob.phase = "-" /\ Cardinality(mail) \in 0..MaxUid
      /\ \/ mail = {} /\ Opening = <<>> /\ OpenJob.op = "idle" /\ Cardinality(mail) = 0
         \/ /\ mail # {} /\ OpenJob.op = "open"
               /\ Opening # <<>> /\ Len(Opening) = 1 /\ DOMAIN Opening = {1}
               /\ Opening[1].op = "FETCH" /\ Opening[1].stage = "running"
               /\ Opening[1].next = 1 /\ Opening[1].old = 0
               /\ Opening[1].last = Cardinality(mail) /\ Opening[1].end = Cardinality(mail)
  BY <1>1, OpeningIs
<1>6. ViewTypes' /\ ClientTypes' /\ StackTypes' /\ HistoryTypes'
  BY <1>1, <1>2, <1>5, ImapAssumption
     DEF ViewTypes, ClientTypes, StackTypes, HistoryTypes, ServerTypes
<1>7. NestInv' /\ JobInv' /\ PlaceInv' /\ FetchInv' /\ AnnouncedInv'
  <2>1. CASE stack' = <<>> /\ job'.op = "idle" /\ job'.phase = "-"
    BY <1>2, <2>1 DEF NestInv, JobInv, PlaceInv, FetchInv, AnnouncedInv, Sent, Reading, Running
  <2>2. CASE /\ job'.op = "open" /\ job'.phase = "-"
             /\ stack' # <<>> /\ Len(stack') = 1 /\ DOMAIN stack' = {1}
             /\ stack'[1].op = "FETCH" /\ stack'[1].stage = "running"
             /\ stack'[1].next = 1 /\ stack'[1].old = 0
             /\ stack'[1].last = Cardinality(told') /\ stack'[1].end = Cardinality(told')
    <3>1. Top' = stack'[1] /\ ~(1 > 1) /\ ~(1 < 1) BY <2>2 DEF Top
    <3>2. NestInv' /\ JobInv' /\ PlaceInv' BY <1>2, <2>2, <3>1 DEF NestInv, JobInv, PlaceInv, Sent
    <3>3. Len(view') = 0 /\ Cardinality(told') \in Int BY <1>2, <1>5
    <3>4. FetchInv' /\ AnnouncedInv'
      BY <1>2, <2>2, <3>1, <3>3 DEF FetchInv, AnnouncedInv, Running, Reading
    <3> QED BY <3>2, <3>4
  <2> QED BY <1>2, <1>5, <2>1, <2>2
<1> QED BY <1>4, <1>6, <1>7 DEF BasicInv

(* Steps that begin or end what a command is sent for: at most one command   *)
(* is in progress after them, and it is no FETCH of headers.                 *)
OneCommand(stk) ==
  \/ stk = <<>>
  \/ \E c \in Frame : /\ stk = <<c>> /\ c.op # "FETCH"
                      /\ c.op \notin {"EXPUNGE", "CLOSE"} => c.stage # "sent"

LEMMA CommandSent ==
  ASSUME NEW op \in Ops \ {"FETCH"}, NEW S \in SUBSET Uids
  PROVE  /\ OneCommand(<<Command(op, S)>>) /\ <<Command(op, S)>> # <<>>
         /\ Len(<<Command(op, S)>>) = 1
         /\ <<Command(op, S)>>[1].op = op /\ <<Command(op, S)>>[1].uids = S
<1> DEFINE c == Command(op, S)
<1>1. c \in Frame /\ c.op = op /\ c.uids = S
      /\ c.stage = IF op \in {"EXPUNGE", "CLOSE"} THEN "sent" ELSE "running"
  BY CommandIs
<1> HIDE DEF c
<1>2. <<c>> # <<>> /\ Len(<<c>>) = 1 /\ <<c>>[1] = c BY <1>1, SingleIs
<1>3. OneCommand(<<c>>) BY <1>1 DEF OneCommand
<1> QED BY <1>1, <1>2, <1>3 DEF c

LEMMA OneCommandStep ==
  ASSUME BasicInv, OneCommand(stack'), UNCHANGED <<told, newCount>>, Len(view') = Len(view),
         "newmail" \in reopen' <=> "newmail" \in reopen,
         "expunge" \in reopen' <=> "expunge" \in reopen
  PROVE  stack' \in Seq(Frame) /\ NestInv' /\ FetchInv' /\ AnnouncedInv'
<1>1. AnnouncedInv BY DEF BasicInv
<1>2. CASE stack' = <<>>
  <2>1. stack' \in Seq(Frame) /\ DOMAIN stack' = {} BY <1>2
  <2>2. ~Reading' /\ ~Running("FETCH")' BY <1>2 DEF Reading, Running
  <2> QED BY <1>1, <2>1, <2>2 DEF NestInv, FetchInv, AnnouncedInv
<1>3. CASE \E c \in Frame : /\ stack' = <<c>> /\ c.op # "FETCH"
                            /\ c.op \notin {"EXPUNGE", "CLOSE"} => c.stage # "sent"
  <2>1. PICK c \in Frame : /\ stack' = <<c>> /\ c.op # "FETCH"
                           /\ c.op \notin {"EXPUNGE", "CLOSE"} => c.stage # "sent"
    BY <1>3
  <2>2. stack' \in Seq(Frame) /\ DOMAIN stack' = {1} /\ Len(stack') = 1 /\ stack'[1] = c
    BY <2>1, SingleIs
  <2>3. Top' = c /\ ~(1 < 1) /\ ~(1 > 1) BY <2>2 DEF Top
  <2>4. ~Reading' /\ ~Running("FETCH")' BY <2>1, <2>3 DEF Reading, Running
  <2> QED BY <1>1, <2>1, <2>2, <2>3, <2>4 DEF NestInv, FetchInv, AnnouncedInv
<1> QED BY <1>2, <1>3 DEF OneCommand

(* One header is changed. *)
LEMMA HeaderChanged ==
  ASSUME NEW v \in Seq(Header), NEW i \in DOMAIN v, NEW h \in Header
  PROVE  /\ [v EXCEPT ![i] = h] \in Seq(Header) /\ Len([v EXCEPT ![i] = h]) = Len(v)
         /\ DOMAIN [v EXCEPT ![i] = h] = DOMAIN v /\ [v EXCEPT ![i] = h][i] = h
         /\ \A j \in DOMAIN v : j # i => [v EXCEPT ![i] = h][j] = v[j]
<1> DEFINE w == [v EXCEPT ![i] = h]
<1>1. Len(v) \in Nat /\ DOMAIN v = 1..Len(v) /\ \A j \in DOMAIN v : v[j] \in Header BY SeqHas
<1>2. w \in [1..Len(v) -> Header] BY <1>1
<1>3. w \in Seq(Header) /\ Len(w) = Len(v) BY <1>1, <1>2, SeqIs
<1> QED BY <1>3

LEMMA MsgSetIs ==
  ASSUME NEW hdrs
  PROVE  MsgSet(hdrs) \subseteq Uids
  BY DEF MsgSet

LEMMA LoseStep ==
  ASSUME BasicInv, NEW yes \in BOOLEAN, Lose(yes)
  PROVE  BasicInv'
<1>1. CASE yes BY <1>1, ReopenStep DEF Lose
<1>2. CASE ~yes
  <2>1. /\ job' = Job("closed", "-") /\ stack' = <<>>
        /\ UNCHANGED <<mail, flags, uidnext, told, toldFlags, view, ctx, reopen, newCount, status>>
        /\ UNCHANGED <<gap, off, swept, wanted, marked, events>>
    BY <1>2 DEF Lose, session, client, history, server
  <2>2. job' \in Jobs /\ job'.op = "closed" /\ job'.phase = "-" BY <2>1, JobIs
  <2>3. stack' \in Seq(Frame) /\ NestInv' /\ FetchInv' /\ AnnouncedInv'
    BY <2>1, OneCommandStep DEF OneCommand
  <2>4. JobInv' /\ PlaceInv' BY <2>1, <2>2 DEF JobInv, PlaceInv, Sent
  <2> QED BY <2>1, <2>2, <2>3, <2>4
      DEF BasicInv, ServerTypes, ToldTypes, ViewTypes, ClientTypes, StackTypes, HistoryTypes
<1> QED BY <1>1, <1>2

LEMMA ExpungeRefusedStep ==
  ASSUME BasicInv, ExpungeRefused
  PROVE  BasicInv'
  BY ReopenStep DEF ExpungeRefused

LEMMA ToggleStep ==
  ASSUME BasicInv, NEW i \in DOMAIN view, NEW flag \in Flags, Toggle(i, flag)
  PROVE  BasicInv'
<1> DEFINE h == view[i]
           f == IF flag \in h.flags THEN h.flags \ {flag} ELSE h.flags \cup {flag}
           g == [h EXCEPT !.flags = f, !.changed = TRUE]
<1>1. /\ ServerTypes /\ ToldTypes /\ ViewTypes /\ ClientTypes /\ StackTypes /\ HistoryTypes
      /\ NestInv /\ JobInv /\ PlaceInv
  BY DEF BasicInv
<1>2. /\ job.op = "idle" /\ events < MaxEvents /\ events' = events + 1
      /\ view' = [view EXCEPT ![i] = g]
      /\ ctx' = [ctx EXCEPT !.changed = 1, !.deleted = @ + NumDeleted(view') - NumDeleted(view)]
      /\ wanted' \subseteq wanted \cup {h.uid}
      /\ UNCHANGED <<mail, flags, uidnext, told, toldFlags, reopen, newCount, status, stack, job>>
      /\ UNCHANGED <<gap, off, swept, marked>>
  BY DEF Toggle, Event, server, session
<1>3. stack = <<>> /\ job.phase = "-" BY <1>1, <1>2 DEF JobInv
<1>4. h \in Header BY <1>1, SeqHas DEF ViewTypes
<1>5. g \in Header BY <1>4 DEF Header
<1> HIDE DEF g
<1>6. view' \in Seq(Header) /\ Len(view') = Len(view) BY <1>1, <1>2, <1>5, HeaderChanged DEF ViewTypes
<1>7. NumDeleted(view') \in Nat /\ NumDeleted(view) \in Nat BY <1>1, <1>6, NumTypes DEF ViewTypes
<1>8. ctx' \in [changed : 0..1, deleted : Int, vcount : Nat]
  <2>1. ctx \in [changed : 0..1, deleted : Int, vcount : Nat] BY <1>1 DEF ClientTypes
  <2>2. ctx.deleted + NumDeleted(view') - NumDeleted(view) \in Int BY <1>7, <2>1
  <2>3. ctx' = [ctx EXCEPT !.changed = 1, !.deleted = @ + NumDeleted(view') - NumDeleted(view)]
    BY <1>2
  <2>4. 1 \in 0..1 OBVIOUS
  <2> QED BY <2>1, <2>2, <2>3, <2>4
<1>9. h.uid \in Uids BY <1>4 DEF Header
<1>10. stack' \in Seq(Frame) /\ NestInv' /\ FetchInv' /\ AnnouncedInv'
  BY <1>2, <1>3, <1>6, OneCommandStep DEF OneCommand
<1>11. JobInv' /\ PlaceInv' BY <1>1, <1>2, <1>3 DEF JobInv, PlaceInv, Sent
<1>12. HistoryTypes' BY <1>1, <1>2, <1>9, ImapAssumption DEF HistoryTypes
<1> QED BY <1>1, <1>2, <1>6, <1>8, <1>10, <1>11, <1>12
        DEF BasicInv, ServerTypes, ToldTypes, ViewTypes, ClientTypes, StackTypes

LEMMA FetchMessageStep ==
  ASSUME BasicInv, NEW i \in DOMAIN view, FetchMessage(i)
  PROVE  BasicInv'
<1> DEFINE g == [view[i] EXCEPT !.active = FALSE]
<1>1. /\ ServerTypes /\ ToldTypes /\ ViewTypes /\ ClientTypes /\ StackTypes /\ HistoryTypes
      /\ NestInv /\ JobInv /\ PlaceInv
  BY DEF BasicInv
<1>2. /\ job.op = "idle" /\ events < MaxEvents /\ events' = events + 1
      /\ job' = [Job("fetch", "-") EXCEPT !.pos = i]
      /\ view' = [view EXCEPT ![i] = g] /\ stack' = <<Command("UID FETCH", {})>>
      /\ UNCHANGED <<mail, flags, uidnext, told, toldFlags, ctx, reopen, newCount, status>>
      /\ UNCHANGED <<gap, off, swept, wanted, marked>>
  BY DEF FetchMessage, Event, server, session, history
<1>4. view[i] \in Header /\ i \in Nat BY <1>1, SeqHas DEF ViewTypes
<1>5. g \in Header /\ ~g.active BY <1>4 DEF Header
<1> HIDE DEF g
<1>6. /\ view' \in Seq(Header) /\ Len(view') = Len(view) /\ DOMAIN view' = DOMAIN view
      /\ view'[i] = g
  <2>1. view \in Seq(Header) /\ view' = [view EXCEPT ![i] = g] BY <1>1, <1>2 DEF ViewTypes
  <2> QED BY <1>5, <2>1, HeaderChanged
<1>7. job' \in Jobs /\ job'.op = "fetch" /\ job'.phase = "-" /\ job'.pos = i
  BY <1>2, <1>4 DEF Job, Jobs
<1>8. OneCommand(stack') /\ Len(stack') = 1 /\ stack'[1].op = "UID FETCH"
  BY <1>2, CommandSent DEF Ops
<1>9. stack' \in Seq(Frame) /\ NestInv' /\ FetchInv' /\ AnnouncedInv'
  BY <1>2, <1>6, <1>8, OneCommandStep
<1>10. "allow" \notin reopen
  BY <1>1, <1>2 DEF JobInv
<1>11. JobInv' /\ PlaceInv'
  BY <1>2, <1>5, <1>6, <1>7, <1>8, <1>10 DEF JobInv, PlaceInv, Sent
<1>12. HistoryTypes'
  <2>1. events \in 0..MaxEvents BY <1>1 DEF HistoryTypes
  <2>2. events < MaxEvents /\ events' = events + 1 BY <1>2
  <2>3. events' \in 0..MaxEvents BY <2>1, <2>2, ImapAssumption
  <2> QED BY <1>1, <1>2, <2>3 DEF HistoryTypes
<1> QED BY <1>1, <1>2, <1>6, <1>7, <1>9, <1>11, <1>12
        DEF BasicInv, ServerTypes, ToldTypes, ViewTypes, ClientTypes, StackTypes

LEMMA BeginCheckStep ==
  ASSUME BasicInv, job.op = "idle", NEW j \in Jobs, j.op \in {"check", "sync", "close"},
         BeginCheck(j)
  PROVE  BasicInv'
<1>1. /\ ServerTypes /\ ToldTypes /\ ViewTypes /\ ClientTypes /\ StackTypes /\ HistoryTypes
      /\ NestInv /\ JobInv /\ PlaceInv
  BY DEF BasicInv
<1>2. /\ reopen' = reopen \cup {"allow"}
      /\ UNCHANGED <<mail, flags, uidnext, told, toldFlags, view, ctx, newCount, status, events>>
      /\ UNCHANGED <<gap, off, swept, wanted, marked>>
      /\ \/ job' = [j EXCEPT !.phase = "noop"] /\ stack' = <<Command("NOOP", {})>>
         \/ job' = [j EXCEPT !.phase = "checked"] /\ stack' = stack
  BY DEF BeginCheck, server, session, history
<1>3. stack = <<>> BY <1>1 DEF JobInv
<1>4. job' \in Jobs /\ job'.op \in {"check", "sync", "close"} /\ job'.phase \in {"noop", "checked"}
  BY <1>2 DEF Jobs
<1>5. OneCommand(stack') /\ (stack' = <<>> \/ (stack'[1].op = "NOOP" /\ job'.phase = "noop"))
  <2>1. "NOOP" \in Ops \ {"FETCH"} BY DEF Ops
  <2>2. OneCommand(<<Command("NOOP", {})>>) /\ <<Command("NOOP", {})>>[1].op = "NOOP"
    BY <2>1, CommandSent
  <2>3. [j EXCEPT !.phase = "noop"].phase = "noop" BY DEF Jobs
  <2> QED BY <1>2, <1>3, <2>2, <2>3 DEF OneCommand
<1>6. stack' \in Seq(Frame) /\ NestInv' /\ FetchInv' /\ AnnouncedInv'
  BY <1>2, <1>5, OneCommandStep
<1>7. JobInv' /\ PlaceInv' BY <1>2, <1>4, <1>5 DEF JobInv, PlaceInv, Sent
<1>8. ClientTypes' BY <1>1, <1>2 DEF ClientTypes, Bits
<1> QED BY <1>1, <1>2, <1>4, <1>6, <1>7, <1>8
        DEF BasicInv, ServerTypes, ToldTypes, ViewTypes, StackTypes, HistoryTypes

LEMMA BeginsCheck ==
  ASSUME NEW b \in BOOLEAN, Check \/ StartSync(b) \/ StartClose(b)
  PROVE  job.op = "idle" /\ \E j \in Jobs : j.op \in {"check", "sync", "close"} /\ BeginCheck(j)
<1>1. CASE Check
  <2>1. Job("check", "-") \in Jobs /\ Job("check", "-").op = "check" BY JobIs
  <2> QED BY <1>1, <2>1 DEF Check
<1>2. CASE StartSync(b)
  <2>1. Job("sync", "-") \in Jobs /\ Job("sync", "-").op = "sync" BY JobIs
  <2>2. [Job("sync", "-") EXCEPT !.purge = b] \in Jobs
        /\ [Job("sync", "-") EXCEPT !.purge = b].op = "sync"
    BY <2>1 DEF Jobs
  <2> QED BY <1>2, <2>2 DEF StartSync
<1>3. CASE StartClose(b)
  <2>1. Job("close", "-") \in Jobs /\ Job("close", "-").op = "close" BY JobIs
  <2>2. [Job("close", "-") EXCEPT !.purge = b] \in Jobs
        /\ [Job("close", "-") EXCEPT !.purge = b].op = "close"
    BY <2>1 DEF Jobs
  <2> QED BY <1>3, <2>2 DEF StartClose
<1> QED BY <1>1, <1>2, <1>3

LEMMA CloseUnchangedStep ==
  ASSUME BasicInv, CloseUnchanged
  PROVE  BasicInv'
<1>1. /\ ServerTypes /\ ToldTypes /\ ViewTypes /\ ClientTypes /\ StackTypes /\ HistoryTypes
  BY DEF BasicInv
<1>2. /\ job' = Job("close", "-") /\ stack' = <<Command("CLOSE", {})>>
      /\ UNCHANGED <<mail, flags, uidnext, told, toldFlags, view, ctx, reopen, newCount, status, events>>
      /\ UNCHANGED <<gap, off, swept, wanted, marked>>
  BY DEF CloseUnchanged, server, session, client, history
<1>3. OneCommand(stack') /\ stack' # <<>> /\ stack'[1].op = "CLOSE"
  <2>1. "CLOSE" \in Ops \ {"FETCH"} BY DEF Ops
  <2> QED BY <1>2, <2>1, CommandSent
<1>4. job' \in Jobs /\ job'.op = "close" /\ job'.phase = "-" BY <1>2, JobIs
<1>5. stack' \in Seq(Frame) /\ NestInv' /\ FetchInv' /\ AnnouncedInv'
  BY <1>2, <1>3, OneCommandStep
<1>6. JobInv' /\ PlaceInv' BY <1>3, <1>4 DEF JobInv, PlaceInv, Sent
<1> QED BY <1>1, <1>2, <1>4, <1>5, <1>6
        DEF BasicInv, ServerTypes, ToldTypes, ViewTypes, ClientTypes, StackTypes, HistoryTypes

LEMMA CheckResultStep ==
  ASSUME BasicInv, CheckResult
  PROVE  BasicInv'
<1>1. /\ ServerTypes /\ ToldTypes /\ ViewTypes /\ ClientTypes /\ StackTypes /\ HistoryTypes
      /\ JobInv
  BY DEF BasicInv
<1>2. /\ stack = <<>> /\ stack' = <<>> /\ job.phase = "result" /\ status' = {}
      /\ \/ job' = Job("idle", "-") /\ reopen' = reopen \ {"allow"}
         \/ job.op # "check" /\ job' = [job EXCEPT !.phase = "delete"] /\ reopen' = reopen
      /\ UNCHANGED <<mail, flags, uidnext, told, toldFlags, view, ctx, newCount, events>>
      /\ UNCHANGED <<gap, off, swept, wanted, marked>>
  BY DEF CheckResult, Idle, server, session, history
<1>3. job.op \notin {"idle", "closed"} BY <1>1, <1>2 DEF JobInv
<1>4. job.op # "open"
  <2>1. Len(stack) # 1 BY <1>2
  <2> QED BY <1>1, <2>1 DEF JobInv
<1>5. /\ job' \in Jobs
      /\ \/ job'.op = "idle" /\ job'.phase = "-" /\ "allow" \notin reopen'
         \/ job.op # "check" /\ job'.op = job.op /\ job'.phase = "delete"
  <2>1. CASE job' = Job("idle", "-") /\ reopen' = reopen \ {"allow"} BY <2>1, JobIs
  <2>2. CASE job.op # "check" /\ job' = [job EXCEPT !.phase = "delete"]
    BY <1>1, <2>2 DEF StackTypes, Jobs
  <2> QED BY <1>2, <2>1, <2>2
<1>6. stack' \in Seq(Frame) /\ NestInv' /\ FetchInv' /\ AnnouncedInv'
  BY <1>2, OneCommandStep DEF OneCommand
<1>7. JobInv' /\ PlaceInv' BY <1>1, <1>2, <1>3, <1>4, <1>5 DEF JobInv, PlaceInv, Sent
<1>8. ClientTypes' BY <1>1, <1>2 DEF ClientTypes
<1> QED BY <1>1, <1>2, <1>5, <1>6, <1>7, <1>8
        DEF BasicInv, ServerTypes, ToldTypes, ViewTypes, StackTypes, HistoryTypes

(* The headers of a set of places are set to inactive. *)
LEMMA Deactivated ==
  ASSUME NEW v \in Seq(Header), NEW D,
         NEW w, w = [i \in DOMAIN v |-> IF i \in D THEN [v[i] EXCEPT !.active = FALSE] ELSE v[i]]
  PROVE  /\ w \in Seq(Header) /\ SameMessages(v, w) /\ DOMAIN w = DOMAIN v
         /\ \A i \in DOMAIN v : w[i].flags = v[i].flags /\ w[i].changed = v[i].changed
         /\ \A i \in DOMAIN v : i \notin D => w[i] = v[i]
         /\ \A i \in DOMAIN v : i \in D => ~w[i].active
<1>1. Len(v) \in Nat /\ DOMAIN v = 1..Len(v) /\ \A j \in DOMAIN v : v[j] \in Header BY SeqHas
<1>2. ASSUME NEW i \in DOMAIN v
      PROVE  /\ w[i] \in Header /\ w[i].uid = v[i].uid /\ w[i].idx = v[i].idx
             /\ w[i].flags = v[i].flags /\ w[i].changed = v[i].changed
             /\ i \notin D => w[i] = v[i]
             /\ i \in D => ~w[i].active
  <2>1. v[i] \in Header BY <1>1
  <2>2. CASE i \in D
    <3>1. w[i] = [v[i] EXCEPT !.active = FALSE] BY <2>2
    <3> QED BY <2>1, <2>2, <3>1 DEF Header
  <2>3. CASE i \notin D BY <2>1, <2>3
  <2> QED BY <2>2, <2>3
<1>3. w \in [1..Len(v) -> Header] BY <1>1, <1>2
<1>4. w \in Seq(Header) /\ Len(w) = Len(v) /\ DOMAIN w = DOMAIN v BY <1>1, <1>3, SeqIs
<1> QED BY <1>2, <1>4 DEF SameMessages

(* What a sync does about deletions. *)
SendsDeletions(hdrs) ==
  LET D == {i \in DOMAIN view : IsDeleted(view[i]) /\ view[i].changed}
  IN  /\ view' = [i \in DOMAIN view |-> IF i \in D THEN [view[i] EXCEPT !.active = FALSE] ELSE view[i]]
      /\ stack' = <<Command("STORE deleted", MsgSet(hdrs))>>
      /\ swept' = (IF "expunge" \in reopen \/ Inactive # {} THEN swept \cup MsgSet(hdrs) ELSE swept)
      /\ job' = job /\ job.purge

LEMMA SyncDeleteCases ==
  ASSUME SyncDelete
  PROVE  /\ stack = <<>> /\ job.phase = "delete"
         /\ UNCHANGED <<mail, flags, uidnext, told, toldFlags, ctx, reopen, newCount, status, events>>
         /\ UNCHANGED <<gap, off, wanted, marked>>
         /\ \/ \E hdrs \in Orders : SendsDeletions(hdrs)
            \/ job' = [job EXCEPT !.phase = "flags", !.pos = 1] /\ UNCHANGED <<view, stack, swept>>
  BY DEF SyncDelete, SendsDeletions, server, session

LEMMA SyncDeleteStep ==
  ASSUME BasicInv, SyncDelete
  PROVE  BasicInv'
<1>1. /\ ServerTypes /\ ToldTypes /\ ViewTypes /\ ClientTypes /\ StackTypes /\ HistoryTypes
      /\ JobInv
  BY DEF BasicInv
<1>2. /\ stack = <<>> /\ job.phase = "delete"
      /\ UNCHANGED <<mail, flags, uidnext, told, toldFlags, ctx, reopen, newCount, status, events>>
      /\ UNCHANGED <<gap, off, wanted, marked>>
  BY SyncDeleteCases
<1>3. job.op \notin {"idle", "closed"} BY <1>1, <1>2 DEF JobInv
<1>4. job.op # "open"
  <2>1. Len(stack) # 1 BY <1>2
  <2> QED BY <1>1, <2>1 DEF JobInv
<1>5. ASSUME NEW hdrs, SendsDeletions(hdrs)
      PROVE  BasicInv'
  <2>1. stack' = <<Command("STORE deleted", MsgSet(hdrs))>> /\ job' = job
        /\ swept' \subseteq swept \cup MsgSet(hdrs)
    BY <1>5 DEF SendsDeletions
  <2>2. view' \in Seq(Header) /\ Len(view') = Len(view)
    <3> DEFINE D == {i \in DOMAIN view : IsDeleted(view[i]) /\ view[i].changed}
    <3>1. view' = [i \in DOMAIN view |-> IF i \in D THEN [view[i] EXCEPT !.active = FALSE] ELSE view[i]]
      BY <1>5 DEF SendsDeletions
    <3> HIDE DEF D
    <3>2. view' \in Seq(Header) /\ SameMessages(view, view') BY <1>1, <3>1, Deactivated DEF ViewTypes
    <3> QED BY <3>2 DEF SameMessages
  <2>3. OneCommand(stack') /\ stack' # <<>> /\ stack'[1].op = "STORE deleted"
    <3>1. "STORE deleted" \in Ops \ {"FETCH"} BY DEF Ops
    <3> QED BY <2>1, <3>1, MsgSetIs, CommandSent
  <2>4. stack' \in Seq(Frame) /\ NestInv' /\ FetchInv' /\ AnnouncedInv'
    BY <1>2, <2>2, <2>3, OneCommandStep
  <2>5. JobInv' /\ PlaceInv' BY <1>1, <1>2, <1>3, <1>4, <2>1, <2>3 DEF JobInv, PlaceInv, Sent
  <2>6. HistoryTypes' BY <1>1, <1>2, <2>1, MsgSetIs DEF HistoryTypes
  <2> QED BY <1>1, <1>2, <2>1, <2>2, <2>4, <2>5, <2>6
          DEF BasicInv, ServerTypes, ToldTypes, ViewTypes, ClientTypes, StackTypes
<1>6. CASE job' = [job EXCEPT !.phase = "flags", !.pos = 1] /\ UNCHANGED <<view, stack, swept>>
  <2>1. job' \in Jobs /\ job'.op = job.op /\ job'.phase = "flags" BY <1>1, <1>6 DEF StackTypes, Jobs
  <2>2. stack' \in Seq(Frame) /\ NestInv' /\ FetchInv' /\ AnnouncedInv'
    BY <1>2, <1>6, OneCommandStep DEF OneCommand
  <2>3. JobInv' /\ PlaceInv' BY <1>1, <1>2, <1>3, <1>4, <1>6, <2>1 DEF JobInv, PlaceInv, Sent
  <2> QED BY <1>1, <1>2, <1>6, <2>1, <2>2, <2>3
          DEF BasicInv, ServerTypes, ToldTypes, ViewTypes, ClientTypes, StackTypes, HistoryTypes
<1> QED BY <1>5, <1>6, SyncDeleteCases

LEMMA SyncMessageStep ==
  ASSUME BasicInv, NEW i \in DOMAIN view, SyncMessage(i)
  PROVE  BasicInv'
<1> DEFINE g == [view[i] EXCEPT !.changed = FALSE, !.active = FALSE]
<1>1. /\ ServerTypes /\ ToldTypes /\ ViewTypes /\ ClientTypes /\ StackTypes /\ HistoryTypes
      /\ JobInv
  BY DEF BasicInv
<1>2. /\ stack = <<>> /\ job.phase = "flags"
      /\ job' = [job EXCEPT !.pos = i]
      /\ view' = [view EXCEPT ![i] = g] /\ stack' = <<Command("STORE", {view[i].uid})>>
      /\ UNCHANGED <<mail, flags, uidnext, told, toldFlags, ctx, reopen, newCount, status, events>>
      /\ UNCHANGED <<gap, off, swept, wanted, marked>>
  BY DEF SyncMessage, server, session, history
<1>3. job.op \notin {"idle", "closed"} BY <1>1, <1>2 DEF JobInv
<1>4. job.op # "open"
  <2>1. Len(stack) # 1 BY <1>2
  <2> QED BY <1>1, <2>1 DEF JobInv
<1>5. view[i] \in Header /\ i \in Nat BY <1>1, SeqHas DEF ViewTypes
<1>6. g \in Header /\ ~g.active /\ g.uid = view[i].uid /\ g.uid \in Uids BY <1>5 DEF Header
<1> HIDE DEF g
<1>7. /\ view' \in Seq(Header) /\ Len(view') = Len(view) /\ DOMAIN view' = DOMAIN view
      /\ view'[i] = g
  BY <1>1, <1>2, <1>6, HeaderChanged DEF ViewTypes
<1>8. job' \in Jobs /\ job'.op = job.op /\ job'.phase = "flags" /\ job'.pos = i
  BY <1>1, <1>2, <1>5 DEF StackTypes, Jobs
<1>9. OneCommand(stack') /\ stack'[1].op = "STORE" /\ stack'[1].uids = {view[i].uid}
  <2>1. {view[i].uid} \in SUBSET Uids /\ "STORE" \in Ops \ {"FETCH"} BY <1>6 DEF Ops
  <2> QED BY <1>2, <2>1, CommandSent
<1>10. stack' \in Seq(Frame) /\ NestInv' /\ FetchInv' /\ AnnouncedInv'
  BY <1>2, <1>7, <1>9, OneCommandStep
<1>11. JobInv' BY <1>1, <1>2, <1>3, <1>4, <1>8, <1>9 DEF JobInv, Sent
<1>12. PlaceInv' BY <1>6, <1>7, <1>8, <1>9 DEF PlaceInv, Sent
<1> QED BY <1>1, <1>2, <1>7, <1>8, <1>10, <1>11, <1>12
        DEF BasicInv, ServerTypes, ToldTypes, ViewTypes, ClientTypes, StackTypes, HistoryTypes

LEMMA SyncExpungeStep ==
  ASSUME BasicInv, SyncExpunge
  PROVE  BasicInv'
<1>1. /\ ServerTypes /\ ToldTypes /\ ViewTypes /\ ClientTypes /\ StackTypes /\ HistoryTypes
      /\ JobInv
  BY DEF BasicInv
<1>2. /\ stack = <<>> /\ job.phase = "flags" /\ ctx' = [ctx EXCEPT !.changed = 0]
      /\ UNCHANGED <<mail, flags, uidnext, told, toldFlags, view, newCount, status, events>>
      /\ UNCHANGED <<gap, off, swept, wanted, marked>>
  BY DEF SyncExpunge, server, session, history
<1>3. \/ /\ stack' = <<Command("EXPUNGE", {})>> /\ reopen' = reopen \cup {"expected"}
         /\ job' = [job EXCEPT !.phase = "expunge"]
      \/ job' = Job("idle", "-") /\ reopen' = reopen \ {"allow"} /\ stack' = stack
      \/ /\ stack' = <<Command("CLOSE", {})>> /\ job' = [job EXCEPT !.phase = "expunge"]
         /\ job.op # "sync" /\ reopen' = reopen
      \/ job' = Job("closed", "-") /\ stack' = stack /\ reopen' = reopen
  BY DEF SyncExpunge, Idle
<1>4. ctx' \in [changed : 0..1, deleted : Int, vcount : Nat]
  <2>1. 0 \in 0..1 OBVIOUS
  <2> QED BY <1>1, <1>2, <2>1 DEF ClientTypes
<1>5. ClientTypes' /\ ("newmail" \in reopen' <=> "newmail" \in reopen)
      /\ ("expunge" \in reopen' <=> "expunge" \in reopen)
  BY <1>1, <1>2, <1>3, <1>4 DEF ClientTypes, Bits
<1>6. job.op \in {"sync", "close"}
  BY <1>1, <1>2 DEF JobInv
<1>7. [job EXCEPT !.phase = "expunge"] \in Jobs
      /\ [job EXCEPT !.phase = "expunge"].op = job.op
      /\ [job EXCEPT !.phase = "expunge"].phase = "expunge"
  BY <1>1 DEF StackTypes, Jobs
<1>8. "EXPUNGE" \in Ops \ {"FETCH"} /\ "CLOSE" \in Ops \ {"FETCH"} BY DEF Ops
<1>9. OneCommand(stack') /\ job' \in Jobs /\ JobInv' /\ PlaceInv'
  <2>1. CASE /\ stack' = <<Command("EXPUNGE", {})>> /\ job' = [job EXCEPT !.phase = "expunge"]
    <3>1. OneCommand(stack') /\ stack' # <<>> /\ stack'[1].op = "EXPUNGE"
      BY <1>8, <2>1, CommandSent
    <3> QED BY <1>6, <1>7, <2>1, <3>1 DEF JobInv, PlaceInv, Sent
  <2>2. CASE job' = Job("idle", "-") /\ reopen' = reopen \ {"allow"} /\ stack' = stack
    <3>1. job' \in Jobs /\ job'.op = "idle" /\ job'.phase = "-" BY <2>2, JobIs
    <3> QED BY <1>2, <2>2, <3>1 DEF JobInv, PlaceInv, Sent, OneCommand
  <2>3. CASE /\ stack' = <<Command("CLOSE", {})>> /\ job' = [job EXCEPT !.phase = "expunge"]
             /\ job.op # "sync" /\ reopen' = reopen
    <3>1. OneCommand(stack') /\ stack' # <<>> /\ stack'[1].op = "CLOSE"
      BY <1>8, <2>3, CommandSent
    <3> QED BY <1>6, <1>7, <2>3, <3>1 DEF JobInv, PlaceInv, Sent
  <2>4. CASE job' = Job("closed", "-") /\ stack' = stack /\ reopen' = reopen
    <3>1. job' \in Jobs /\ job'.op = "closed" /\ job'.phase = "-" BY <2>4, JobIs
    <3> QED BY <1>2, <2>4, <3>1 DEF JobInv, PlaceInv, Sent, OneCommand
  <2> QED BY <1>3, <2>1, <2>2, <2>3, <2>4
<1>10. stack' \in Seq(Frame) /\ NestInv' /\ FetchInv' /\ AnnouncedInv'
  BY <1>2, <1>5, <1>9, OneCommandStep
<1> QED BY <1>1, <1>2, <1>5, <1>9, <1>10
        DEF BasicInv, ServerTypes, ToldTypes, ViewTypes, StackTypes, HistoryTypes

(* What a caller does when its command has been answered. *)
Returned(answer) ==
  LET f == stack[1]
      go == f.ok \/ job.go \/ answer
  IN  \/ /\ f.op = "NOOP"
         /\ \/ job' = [job EXCEPT !.phase = "checked"] /\ UNCHANGED reopen
            \/ Idle
         /\ UNCHANGED <<view, ctx>>
      \/ /\ f.op = "UID FETCH"
         /\ view' = [view EXCEPT ![job.pos].active = TRUE]
         /\ Idle /\ UNCHANGED ctx
      \/ /\ f.op = "STORE deleted"
         /\ \/ f.ok /\ job' = [job EXCEPT !.phase = "flags", !.pos = 1] /\ UNCHANGED reopen
            \/ ~f.ok /\ Idle
         /\ UNCHANGED <<view, ctx>>
      \/ /\ f.op = "STORE"
         /\ \/ /\ go
               /\ view' = (IF job.pos \in DOMAIN view /\ view[job.pos].uid \in f.uids
                           THEN [view EXCEPT ![job.pos].active = TRUE] ELSE view)
               /\ ctx' = [ctx EXCEPT !.changed = (@ + 1) % 2]
               /\ job' = [job EXCEPT !.pos = @ + 1, !.go = @ \/ (~f.ok /\ answer)]
               /\ UNCHANGED reopen
            \/ ~go /\ Idle /\ UNCHANGED <<view, ctx>>
      \/ f.op = "EXPUNGE" /\ Idle /\ UNCHANGED <<view, ctx>>
      \/ f.op = "CLOSE" /\ job' = Job("closed", "-") /\ UNCHANGED <<view, ctx, reopen>>

LEMMA ReturnCases ==
  ASSUME NEW answer \in BOOLEAN, Return(answer)
  PROVE  /\ Len(stack) = 1 /\ stack[1].stage = "done" /\ stack[1].op # "FETCH" /\ stack' = <<>>
         /\ UNCHANGED <<mail, flags, uidnext, told, toldFlags, newCount, status, events>>
         /\ UNCHANGED <<gap, off, swept, wanted, marked>>
         /\ Returned(answer)
<1>1. Returned(answer) BY DEF Return, Returned
<1> QED BY <1>1 DEF Return, server, session, history

(* A header becomes active again. *)
LEMMA Reactivated ==
  ASSUME NEW v \in Seq(Header), NEW p \in DOMAIN v, NEW w, w = [v EXCEPT ![p].active = TRUE]
  PROVE  /\ w \in Seq(Header) /\ SameMessages(v, w) /\ DOMAIN w = DOMAIN v
         /\ \A i \in DOMAIN v : w[i].flags = v[i].flags /\ w[i].changed = v[i].changed
         /\ \A i \in DOMAIN v : i # p => w[i] = v[i]
         /\ w[p].active
<1> DEFINE g == [v[p] EXCEPT !.active = TRUE]
<1>1. v[p] \in Header BY SeqHas
<1>2. /\ g \in Header /\ g.uid = v[p].uid /\ g.idx = v[p].idx /\ g.flags = v[p].flags
      /\ g.changed = v[p].changed /\ g.active
  BY <1>1 DEF Header
<1>3. w = [v EXCEPT ![p] = g] OBVIOUS
<1> HIDE DEF g
<1>5. [v EXCEPT ![p] = g] \in Seq(Header) /\ Len([v EXCEPT ![p] = g]) = Len(v)
  BY <1>2, HeaderChanged
<1>4. /\ w \in Seq(Header) /\ Len(w) = Len(v) /\ DOMAIN w = DOMAIN v /\ w[p] = g
      /\ \A j \in DOMAIN v : j # p => w[j] = v[j]
  BY <1>3, <1>5
<1> QED BY <1>2, <1>4 DEF SameMessages

LEMMA ReturnStep ==
  ASSUME BasicInv, NEW answer \in BOOLEAN, Return(answer)
  PROVE  BasicInv'
<1> DEFINE f == stack[1]
<1>1. /\ ServerTypes /\ ToldTypes /\ ViewTypes /\ ClientTypes /\ StackTypes /\ HistoryTypes
      /\ JobInv /\ PlaceInv
  BY DEF BasicInv
<1>2. /\ Len(stack) = 1 /\ f.stage = "done" /\ f.op # "FETCH" /\ stack' = <<>>
      /\ UNCHANGED <<mail, flags, uidnext, told, toldFlags, newCount, status, events>>
      /\ UNCHANGED <<gap, off, swept, wanted, marked>>
      /\ Returned(answer)
  BY ReturnCases
<1>3. stack # <<>> BY <1>2
<1>4. job.op \notin {"idle", "closed", "open"}
  BY <1>1, <1>2, <1>3 DEF JobInv
<1>12. f.op \in {"NOOP", "STORE deleted", "STORE"} => job.op \in {"check", "sync", "close"}
  BY <1>1, <1>3 DEF JobInv, Sent
<1>5. view' \in Seq(Header) /\ Len(view') = Len(view)
  <2>1. CASE f.op = "UID FETCH"
    <3>1. job.pos \in DOMAIN view BY <1>1, <1>3, <2>1 DEF PlaceInv, Sent
    <3>2. view' = [view EXCEPT ![job.pos].active = TRUE] BY <1>2, <2>1 DEF Returned
    <3>3. view' \in Seq(Header) /\ SameMessages(view, view') BY <1>1, <3>1, <3>2, Reactivated DEF ViewTypes
    <3> QED BY <3>3 DEF SameMessages
  <2>2. CASE f.op = "STORE"
    <3>1. \/ view' = view
          \/ job.pos \in DOMAIN view /\ view' = [view EXCEPT ![job.pos].active = TRUE]
      BY <1>2, <2>2 DEF Returned
    <3>2. view' = view \/ (view' \in Seq(Header) /\ SameMessages(view, view'))
      BY <1>1, <3>1, Reactivated DEF ViewTypes
    <3> QED BY <1>1, <3>2 DEF SameMessages, ViewTypes
  <2>3. CASE f.op \notin {"UID FETCH", "STORE"}
    <3>1. view' = view BY <1>2, <2>3 DEF Returned
    <3> QED BY <1>1, <3>1 DEF ViewTypes
  <2> QED BY <2>1, <2>2, <2>3
<1>6. ctx' \in [changed : 0..1, deleted : Int, vcount : Nat]
  <2>1. ctx' = ctx \/ ctx' = [ctx EXCEPT !.changed = (@ + 1) % 2] BY <1>2 DEF Returned
  <2>2. ctx \in [changed : 0..1, deleted : Int, vcount : Nat] BY <1>1 DEF ClientTypes
  <2>3. (ctx.changed + 1) % 2 \in 0..1 BY <2>2
  <2> QED BY <2>1, <2>2, <2>3
<1>7. reopen' = reopen \/ reopen' = reopen \ {"allow"} BY <1>2 DEF Returned, Idle
<1>8. ClientTypes' BY <1>1, <1>2, <1>6, <1>7 DEF ClientTypes
<1>9. /\ job' \in Jobs
      /\ \/ job'.op \in {"idle", "closed"} /\ job'.phase = "-" /\ (job'.op = "idle" => "allow" \notin reopen')
         \/ job'.op \in {"check", "sync", "close"} /\ job'.phase = "checked"
         \/ job'.op \in {"sync", "close"} /\ job'.phase = "flags"
  <2>1. \/ Idle
        \/ job' = Job("closed", "-")
        \/ job' = [job EXCEPT !.phase = "checked"] /\ f.op = "NOOP"
        \/ job' = [job EXCEPT !.phase = "flags", !.pos = 1] /\ f.op = "STORE deleted"
        \/ /\ job' = [job EXCEPT !.pos = @ + 1, !.go = @ \/ (~f.ok /\ answer)] /\ f.op = "STORE"
    BY <1>2 DEF Returned
  <2>2. CASE Idle BY <2>2, JobIs DEF Idle
  <2>3. CASE job' = Job("closed", "-") BY <2>3, JobIs
  <2>4. CASE job' = [job EXCEPT !.phase = "checked"] /\ f.op = "NOOP"
    BY <1>1, <1>12, <2>4 DEF StackTypes, Jobs
  <2>5. CASE job' = [job EXCEPT !.phase = "flags", !.pos = 1] /\ f.op = "STORE deleted"
    <3>1. job.op \in {"sync", "close"} BY <1>1, <1>3, <2>5 DEF JobInv, Sent
    <3>2. job \in Jobs /\ 1 \in Nat BY <1>1 DEF StackTypes
    <3> QED BY <2>5, <3>1, <3>2 DEF Jobs
  <2>6. CASE job' = [job EXCEPT !.pos = @ + 1, !.go = @ \/ (~f.ok /\ answer)] /\ f.op = "STORE"
    <3>1. job.phase = "flags" /\ job.op \in {"sync", "close"} BY <1>1, <1>3, <2>6 DEF JobInv, Sent
    <3>2. job \in Jobs BY <1>1 DEF StackTypes
    <3>3. job.pos + 1 \in Nat /\ (job.go \/ (~f.ok /\ answer)) \in BOOLEAN BY <3>2 DEF Jobs
    <3> QED BY <2>6, <3>1, <3>2, <3>3 DEF Jobs
  <2> QED BY <2>1, <2>2, <2>3, <2>4, <2>5, <2>6
<1>10. stack' \in Seq(Frame) /\ NestInv' /\ FetchInv' /\ AnnouncedInv'
  BY <1>2, <1>5, <1>7, OneCommandStep DEF OneCommand
<1>11. JobInv' /\ PlaceInv' BY <1>2, <1>4, <1>9 DEF JobInv, PlaceInv, Sent
<1> QED BY <1>1, <1>2, <1>5, <1>8, <1>9, <1>10, <1>11
        DEF BasicInv, ServerTypes, ToldTypes, ViewTypes, StackTypes, HistoryTypes

LEMMA BasicStep ==
  ASSUME BasicInv, [Next]_vars
  PROVE  BasicInv'
<1>1. CASE UNCHANGED vars
  BY <1>1 DEF vars, server, session, client, history, BasicInv, ServerTypes, ToldTypes, ViewTypes,
              ClientTypes, StackTypes, HistoryTypes, NestInv, JobInv, PlaceInv, FetchInv,
              AnnouncedInv, Sent, Reading, Running, Top
<1>2. ASSUME NEW i \in DOMAIN view, NEW f \in Flags, Toggle(i, f) PROVE BasicInv'
  BY <1>2, ToggleStep
<1>3. ASSUME NEW i \in DOMAIN view, FetchMessage(i) \/ SyncMessage(i) PROVE BasicInv'
  BY <1>3, FetchMessageStep, SyncMessageStep
<1>4. ASSUME NEW b \in BOOLEAN, Check \/ StartSync(b) \/ StartClose(b) PROVE BasicInv'
  BY <1>4, BeginsCheck, BeginCheckStep
<1>5. ASSUME NEW b \in BOOLEAN, Tagged(b) \/ Lose(b) \/ Return(b) PROVE BasicInv'
  BY <1>5, TaggedStep, LoseStep, ReturnStep
<1>6. ASSUME NEW u \in Uids, Expunge(u) \/ FetchFlags(u) PROVE BasicInv'
  BY <1>6, ExpungeStep, FetchFlagsStep
<1>7. CASE Deliver \/ \E u \in Uids : OtherExpunge(u) \/ \E f \in OtherFlags : OtherStore(u, f)
  BY <1>7, ServerStep
<1>8. CASE \/ Exists \/ ExpungeRefused \/ Execute \/ FetchHeader \/ ReadNext
           \/ CloseUnchanged \/ CheckFinish \/ CheckResult \/ SyncDelete \/ SyncExpunge
  BY <1>8, ExistsStep, ExpungeRefusedStep, ExecuteStep, FetchHeaderStep, ReadNextStep,
     CloseUnchangedStep, CheckFinishStep, CheckResultStep, SyncDeleteStep, SyncExpungeStep
<1>9. CASE Closed BY <1>1, <1>9 DEF Closed
<1>10. CASE Next
  <2>1. TRUE \in BOOLEAN OBVIOUS
  <2> QED BY <1>2, <1>3, <1>4, <1>5, <1>6, <1>7, <1>8, <1>9, <1>10, <2>1 DEF Next
<1> QED BY <1>1, <1>10

LEMMA BasicAlways == Spec => []BasicInv
<1>1. BasicInv /\ [Next]_vars => BasicInv' BY BasicStep
<1> QED BY <1>1, InitBasic, PTL DEF Spec

(* The state stays well typed: no more headers than messages there ever are, *)
(* no deeper nesting than commands make, and a header in every place a       *)
(* command is about.                                                         *)
THEOREM ImapTypeCorrect == Spec => []ImapTypeOK
<1>1. BasicInv => ImapTypeOK
  BY DEF BasicInv, ServerTypes, ToldTypes, ViewTypes, ClientTypes, StackTypes, HistoryTypes,
         ImapTypeOK
<1> QED BY <1>1, BasicAlways, PTL

-----------------------------------------------------------------------------
(* The numbers of the headers.  UIDs ascend, the server tells of messages in *)
(* that order, and a header whose message has been expunged has no number.   *)
ToldInv ==
  /\ \A u \in mail \cup told : u < uidnext
  /\ \A u \in mail \ told : \A v \in told : v < u
  /\ \A i \in DOMAIN view :
       /\ view[i].uid < uidnext
       /\ \A u \in mail \ told : view[i].uid < u
       /\ view[i].idx = 0 => view[i].uid \notin mail \cup told
NumbersInv ==
  /\ \A i \in DOMAIN view : view[i].idx # 0 => view[i].uid \in told /\ view[i].idx = Seqno(view[i].uid)
  /\ "expunge" \notin reopen => \A i \in DOMAIN view : view[i].idx # 0

(* Unless a header has been dropped whose message is still there, headers    *)
(* ascend and none is missing before another.                                *)
OrderInv ==
  "hole" \notin gap =>
    /\ \A i, j \in DOMAIN view : i < j => view[i].uid < view[j].uid
    /\ \A i \in DOMAIN view, v \in told : v < view[i].uid => \E j \in DOMAIN view : view[j].uid = v

AgreeInv == ToldInv /\ NumbersInv /\ OrderInv

(* Steps that leave headers and what the server has told of alone. *)
Keeps ==
  /\ mail' \subseteq mail /\ uidnext' = uidnext /\ told' = told /\ SameMessages(view, view')
  /\ "expunge" \notin reopen' => "expunge" \notin reopen
  /\ "hole" \notin gap' => "hole" \notin gap

LEMMA KeepsAgree ==
  ASSUME ViewTypes, ViewTypes', AgreeInv, Keeps
  PROVE  AgreeInv'
<1>1. DOMAIN view' = DOMAIN view /\ \A i \in DOMAIN view : view'[i].uid = view[i].uid /\ view'[i].idx = view[i].idx
  <2>1. DOMAIN view = 1..Len(view) BY SeqHas DEF ViewTypes
  <2>2. DOMAIN view' = 1..Len(view') BY SeqHas DEF ViewTypes
  <2> QED BY <2>1, <2>2 DEF Keeps, SameMessages
<1>2. ToldInv'
  <2>1. \A u \in mail' \cup told' : u < uidnext' BY DEF AgreeInv, ToldInv, Keeps
  <2>2. \A u \in mail' \ told' : \A v \in told' : v < u BY DEF AgreeInv, ToldInv, Keeps
  <2>3. ASSUME NEW i \in DOMAIN view'
        PROVE  /\ view'[i].uid < uidnext'
               /\ \A u \in mail' \ told' : view'[i].uid < u
               /\ view'[i].idx = 0 => view'[i].uid \notin mail' \cup told'
    BY <1>1, <2>3 DEF AgreeInv, ToldInv, Keeps
  <2> QED BY <2>1, <2>2, <2>3 DEF ToldInv
<1>3. NumbersInv' BY <1>1 DEF AgreeInv, NumbersInv, Keeps, Seqno, Rank
<1>4. OrderInv'
  <2> SUFFICES ASSUME "hole" \notin gap'
               PROVE  /\ \A i, j \in DOMAIN view' : i < j => view'[i].uid < view'[j].uid
                      /\ \A i \in DOMAIN view', v \in told' : v < view'[i].uid =>
                           \E j \in DOMAIN view' : view'[j].uid = v
    BY DEF OrderInv
  <2>1. /\ \A i, j \in DOMAIN view : i < j => view[i].uid < view[j].uid
        /\ \A i \in DOMAIN view, v \in told : v < view[i].uid => \E j \in DOMAIN view : view[j].uid = v
    BY DEF AgreeInv, OrderInv, Keeps
  <2> QED BY <1>1, <2>1 DEF Keeps
<1> QED BY <1>2, <1>3, <1>4 DEF AgreeInv

(* When all that is smaller than a member of U is in U, too, places in S are *)
(* places in U.                                                              *)
LEMMA RankInitial ==
  ASSUME NEW n \in Nat, NEW S \in SUBSET (1..n), NEW U \in SUBSET S,
         \A x \in U, y \in S : y < x => y \in U
  PROVE  /\ \A x \in U : Rank(S, x) = Rank(U, x)
         /\ \A x \in U : Rank(S, x) \in 1..Cardinality(U)
         /\ \A k \in 1..Cardinality(U) : \E x \in U : Rank(S, x) = k
         /\ \A y \in S : Rank(S, y) \in 1..Cardinality(U) => y \in U
<1>1. U \in SUBSET (1..n) /\ S \subseteq Int BY SubsetOfRange
<1>2. ASSUME NEW x \in U PROVE Rank(S, x) = Rank(U, x)
  <2>1. \A y \in S : y <= x => y \in U BY <1>1
  <2>2. {y \in S : y <= x} = {y \in U : y <= x} BY <2>1
  <2> QED BY <2>2 DEF Rank
<1>3. \A x \in U : Rank(U, x) \in 1..Cardinality(U) BY <1>1, RankBounds
<1>4. \A k \in 1..Cardinality(U) : \E x \in U : Rank(U, x) = k BY <1>1, NthRank
<1>5. ASSUME NEW y \in S, Rank(S, y) \in 1..Cardinality(U) PROVE y \in U
  <2>1. PICK x \in U : Rank(U, x) = Rank(S, y) BY <1>4, <1>5
  <2>2. Rank(S, x) = Rank(S, y) BY <1>2, <2>1
  <2>3. x = y BY <2>2, RankEqual
  <2> QED BY <2>3
<1> QED BY <1>2, <1>3, <1>4, <1>5

Live == {i \in DOMAIN view : view[i].idx # 0}
LiveUids == {view[i].uid : i \in Live}

(* Headers that are not expunged are those of the first messages.            *)
LEMMA LiveFirst ==
  ASSUME ToldTypes, ViewTypes, AgreeInv, "hole" \notin gap
  PROVE  /\ LiveUids \in SUBSET told
         /\ \A x \in LiveUids, y \in told : y < x => y \in LiveUids
         /\ IsFiniteSet(Live) /\ Cardinality(Live) \in Nat
         /\ Cardinality(LiveUids) = Cardinality(Live)
<1>1. LiveUids \in SUBSET told BY DEF LiveUids, Live, AgreeInv, NumbersInv
<1>2. ASSUME NEW x \in LiveUids, NEW y \in told, y < x PROVE y \in LiveUids
  <2>1. PICK i \in DOMAIN view : x = view[i].uid BY DEF LiveUids, Live
  <2>2. PICK j \in DOMAIN view : view[j].uid = y BY <1>2, <2>1 DEF AgreeInv, OrderInv
  <2>3. view[j].idx # 0 BY <2>2 DEF AgreeInv, ToldInv
  <2> QED BY <2>2, <2>3 DEF LiveUids, Live
<1>3. Len(view) \in Nat /\ DOMAIN view = 1..Len(view) BY SeqHas DEF ViewTypes
<1>4. Live \in SUBSET (1..Len(view)) BY <1>3 DEF Live
<1>5. IsFiniteSet(Live) /\ Cardinality(Live) \in Nat /\ Live \subseteq Int BY <1>3, <1>4, SubsetOfRange
<1>6. Cardinality(LiveUids) = Cardinality(Live)
  <2> DEFINE f == [i \in Live |-> view[i].uid]
  <2>1. f \in [Live -> LiveUids] BY DEF LiveUids
  <2>2. \A u \in LiveUids : \E i \in Live : f[i] = u BY DEF LiveUids
  <2>3. ASSUME NEW i \in Live, NEW j \in Live, f[i] = f[j] PROVE i = j
    <3>1. i \in Int /\ j \in Int /\ i \in DOMAIN view /\ j \in DOMAIN view BY <1>5 DEF Live
    <3>2. view[i].uid \in Int
      <4>1. view[i].uid \in told BY <1>1 DEF LiveUids
      <4> QED BY <4>1, ToldCount, SubsetOfRange, ImapAssumption
    <3>3. ~(view[i].uid < view[j].uid) /\ ~(view[j].uid < view[i].uid) BY <2>3, <3>2
    <3>4. ~(i < j) /\ ~(j < i) BY <3>1, <3>3 DEF AgreeInv, OrderInv
    <3> QED BY <3>1, <3>4
  <2>4. f \in Bijection(Live, LiveUids)
    <3> HIDE DEF f
    <3>1. f \in Injection(Live, LiveUids) BY <2>1, <2>3 DEF Injection, IsInjective
    <3>2. f \in Surjection(Live, LiveUids) BY <2>1, <2>2 DEF Surjection
    <3> QED BY <3>1, <3>2 DEF Bijection
  <2>5. ExistsBijection(Live, LiveUids) BY <2>4 DEF ExistsBijection
  <2> QED BY <1>5, <2>5, FS_Bijection
<1> QED BY <1>1, <1>2, <1>5, <1>6

LEMMA DeliverAgree ==
  ASSUME BasicInv, AgreeInv, Deliver
  PROVE  AgreeInv'
<1>1. ServerTypes /\ ToldTypes /\ ViewTypes BY DEF BasicInv
<1>2. /\ mail' = mail \cup {uidnext} /\ uidnext' = uidnext + 1
      /\ UNCHANGED <<told, view, reopen, gap>>
  BY DEF Deliver, session, client, history
<1>3. uidnext \in Nat /\ mail \subseteq Int /\ told \subseteq Int
      /\ \A i \in DOMAIN view : view[i].uid \in Int
  <2>1. \A i \in DOMAIN view : view[i] \in Header BY <1>1, SeqHas DEF ViewTypes
  <2> QED BY <1>1, <2>1, ImapAssumption DEF ServerTypes, ToldTypes, Uids, Header
<1>4. ToldInv'
  <2>1. \A u \in mail \cup told : u < uidnext + 1 BY <1>3 DEF AgreeInv, ToldInv
  <2>2. uidnext < uidnext + 1 BY <1>3
  <2>3. \A i \in DOMAIN view : view[i].uid < uidnext /\ view[i].uid < uidnext + 1
    BY <1>3 DEF AgreeInv, ToldInv
  <2>4. \A i \in DOMAIN view : view[i].uid # uidnext BY <1>3, <2>3
  <2> QED BY <1>2, <2>1, <2>2, <2>3, <2>4 DEF AgreeInv, ToldInv
<1>5. NumbersInv' /\ OrderInv'
  BY <1>2 DEF AgreeInv, NumbersInv, OrderInv, Seqno, Rank
<1> QED BY <1>4, <1>5 DEF AgreeInv

LEMMA ExistsAgree ==
  ASSUME BasicInv, AgreeInv, Exists
  PROVE  AgreeInv'
<1> DEFINE new == {u \in mail : \A v \in told : v < u}
<1>1. ServerTypes /\ ToldTypes /\ ViewTypes BY DEF BasicInv
<1>2. told' = told \cup new /\ UNCHANGED <<mail, uidnext, view, gap>>
      /\ ("expunge" \notin reopen' => "expunge" \notin reopen)
  BY DEF Exists, server, history
<1>3. mail \ told \subseteq new BY DEF AgreeInv, ToldInv
<1>4. mail \subseteq Int /\ told \subseteq Int
  BY <1>1 DEF ServerTypes, ToldTypes, Uids
<1>5. ASSUME NEW x \in told, NEW y \in new PROVE ~(y <= x)
  <2>1. x < y OBVIOUS
  <2>2. x \in Int /\ y \in Int BY <1>4
  <2> QED BY <2>1, <2>2
<1>6. new \cap told = {}
  <2>1. \A y \in new : y \in Int BY <1>4
  <2> QED BY <1>5, <2>1
<1> HIDE DEF new
<1>7. new \subseteq mail BY DEF new
<1>8. ToldInv'
  <2>1. mail' \ told' = {} BY <1>2, <1>3
  <2>2. mail' \cup told' = mail \cup told BY <1>2, <1>7
  <2> QED BY <1>2, <2>1, <2>2 DEF AgreeInv, ToldInv
<1>9. NumbersInv'
  <2>1. \A x \in told : Rank(told', x) = Rank(told, x) BY <1>2, <1>5, RankUnion
  <2> QED BY <1>2, <2>1 DEF AgreeInv, NumbersInv, Seqno
<1>10. ASSUME NEW i \in DOMAIN view, NEW v \in new, v < view[i].uid PROVE FALSE
  <2>1. v \in mail \ told BY <1>6, <1>7
  <2>2. view[i].uid < v BY <2>1 DEF AgreeInv, ToldInv
  <2>3. v \in Int /\ view[i].uid \in Int
    <3>1. view[i] \in Header BY <1>1, SeqHas DEF ViewTypes
    <3> QED BY <1>4, <2>1, <3>1 DEF Header, Uids
  <2> QED BY <1>10, <2>2, <2>3
<1>11. OrderInv' BY <1>2, <1>10 DEF AgreeInv, OrderInv
<1> QED BY <1>8, <1>9, <1>11 DEF AgreeInv

(* The headers behind the expunged one are renumbered as the server does.    *)
LEMMA ExpungeAgree ==
  ASSUME BasicInv, AgreeInv, NEW u \in Uids, Expunge(u)
  PROVE  AgreeInv'
<1> DEFINE k == Seqno(u)
<1>1. ServerTypes /\ ToldTypes /\ ViewTypes BY DEF BasicInv
<1>2. /\ u \in told \ mail /\ told' = told \ {u} /\ view' = Renumbered(view, k)
      /\ "expunge" \in reopen' /\ UNCHANGED <<mail, uidnext, gap>>
  BY DEF Expunge, server, history
<1>3. k \in 1..MaxUid BY <1>1, <1>2, SeqnoBounds
<1>4. /\ DOMAIN view' = DOMAIN view
      /\ \A i \in DOMAIN view :
           /\ view'[i].uid = view[i].uid
           /\ view'[i].idx = IF view[i].idx = k THEN 0
                             ELSE IF view[i].idx > k THEN view[i].idx - 1 ELSE view[i].idx
  BY <1>1, <1>2, <1>3, RenumberedIs DEF ViewTypes
<1>5. \A i \in DOMAIN view : view[i].idx \in Nat
  <2>1. \A i \in DOMAIN view : view[i] \in Header BY <1>1, SeqHas DEF ViewTypes
  <2> QED BY <2>1, ImapAssumption DEF Header
<1>6. told \in SUBSET (1..MaxUid) /\ MaxUid \in Nat BY <1>1, ToldCount, ImapAssumption
<1>7. k = Rank(told, u) BY DEF Seqno
<1> HIDE DEF k
<1>8. ASSUME NEW i \in DOMAIN view, view'[i].idx # 0
      PROVE  view'[i].uid \in told' /\ view'[i].idx = Rank(told', view'[i].uid)
  <2> DEFINE x == view[i].uid
  <2>1. view[i].idx # k /\ view[i].idx # 0 BY <1>3, <1>4, <1>5, <1>8
  <2>2. x \in told /\ view[i].idx = Rank(told, x) BY <2>1 DEF AgreeInv, NumbersInv, Seqno
  <2>3. x # u BY <1>7, <2>1, <2>2
  <2>4. Rank(told', x) = IF u < x THEN Rank(told, x) - 1 ELSE Rank(told, x)
    BY <1>2, <1>6, <2>2, <2>3, RankRemove
  <2>5. u \in Int /\ x \in Int BY <1>2, <1>6, <2>2, SubsetOfRange
  <2>6. CASE u < x
    <3>1. k < view[i].idx BY <1>2, <1>6, <1>7, <2>2, <2>6, RankLess
    <3>2. view'[i].idx = view[i].idx - 1 BY <1>3, <1>4, <1>5, <2>1, <3>1
    <3> QED BY <1>2, <1>4, <2>2, <2>3, <2>4, <2>6, <3>2
  <2>7. CASE x < u
    <3>1. view[i].idx < k BY <1>2, <1>6, <1>7, <2>2, <2>7, RankLess
    <3>2. view'[i].idx = view[i].idx BY <1>3, <1>4, <1>5, <2>1, <3>1
    <3>3. ~(u < x) BY <2>5, <2>7
    <3> QED BY <1>2, <1>4, <2>2, <2>3, <2>4, <3>2, <3>3
  <2> QED BY <2>3, <2>5, <2>6, <2>7
<1>9. ASSUME NEW i \in DOMAIN view, view'[i].idx = 0
      PROVE  view'[i].uid \notin mail' \cup told'
  <2> DEFINE x == view[i].uid
  <2>1. CASE view[i].idx = 0 BY <1>2, <1>4, <2>1 DEF AgreeInv, ToldInv
  <2>2. CASE view[i].idx # 0
    <3>1. view[i].idx = k BY <1>3, <1>4, <1>5, <1>9, <2>2
    <3>2. x \in told /\ Rank(told, x) = Rank(told, u) BY <1>7, <2>2, <3>1 DEF AgreeInv, NumbersInv, Seqno
    <3>3. x = u BY <1>2, <1>6, <3>2, RankEqual
    <3> QED BY <1>2, <1>4, <3>3
  <2> QED BY <2>1, <2>2
<1>10. ToldInv'
  <2>1. mail' \ told' = mail \ told BY <1>2
  <2> QED BY <1>2, <1>4, <1>9, <2>1 DEF AgreeInv, ToldInv
<1>11. NumbersInv' BY <1>2, <1>4, <1>8 DEF NumbersInv, Seqno
<1>12. OrderInv' BY <1>2, <1>4 DEF AgreeInv, OrderInv
<1> QED BY <1>10, <1>11, <1>12 DEF AgreeInv

LEMMA ReopenAgree ==
  ASSUME BasicInv, AgreeInv, Reopen, UNCHANGED server
  PROVE  AgreeInv'
<1>1. told' = mail /\ mail' = mail /\ uidnext' = uidnext /\ DOMAIN view' = {}
  BY DEF Reopen, server
<1> QED BY <1>1 DEF AgreeInv, ToldInv, NumbersInv, OrderInv

(* A header that is read is that of the message behind the others.           *)
LEMMA FetchHeaderAgree ==
  ASSUME BasicInv, AgreeInv, FetchHeader
  PROVE  AgreeInv'
<1> DEFINE n == Len(view)
<1>1. ServerTypes /\ ToldTypes /\ ViewTypes /\ StackTypes /\ FetchInv BY DEF BasicInv
<1>2. /\ Running("FETCH") /\ UNCHANGED <<mail, uidnext, gap>>
      /\ "expunge" \in reopen' <=> "expunge" \in reopen
  BY DEF FetchHeader, server, history
<1>3. PICK w \in told :
           /\ Seqno(w) = n + 1 /\ NewHeader(w, n + 1) \in Header
           /\ view' = Append(view, NewHeader(w, n + 1)) /\ told' = told
           /\ view' \in Seq(Header) /\ Len(view') = n + 1 /\ DOMAIN view' = 1..(n + 1)
           /\ \A i \in DOMAIN view : i \in DOMAIN view' /\ view'[i] = view[i]
           /\ view'[n + 1] = NewHeader(w, n + 1)
  BY FetchHeaderIs
<1>4. n \in Nat /\ DOMAIN view = 1..n BY <1>1, SeqHas DEF ViewTypes
<1>5. view'[n + 1].uid = w /\ view'[n + 1].idx = n + 1 /\ n + 1 # 0 BY <1>3, <1>4 DEF NewHeader
<1>6. \A i \in DOMAIN view' : i \in DOMAIN view \/ i = n + 1 BY <1>3, <1>4
<1>7. "expunge" \notin reopen BY <1>1, <1>2 DEF FetchInv, Reading, Running
<1>8. \A i \in DOMAIN view : view[i].idx # 0 BY <1>7 DEF AgreeInv, NumbersInv
<1> HIDE DEF n
<1>9. ToldInv'
  <2>1. w < uidnext /\ \A u \in mail \ told : w < u BY DEF AgreeInv, ToldInv
  <2>2. ASSUME NEW i \in DOMAIN view'
        PROVE  /\ view'[i].uid < uidnext' /\ \A u \in mail' \ told' : view'[i].uid < u
               /\ view'[i].idx = 0 => view'[i].uid \notin mail' \cup told'
    <3>1. CASE i = n + 1 BY <1>2, <1>3, <1>5, <2>1, <3>1
    <3>2. CASE i \in DOMAIN view BY <1>2, <1>3, <3>2 DEF AgreeInv, ToldInv
    <3> QED BY <1>6, <3>1, <3>2
  <2> QED BY <1>2, <1>3, <2>2 DEF AgreeInv, ToldInv
<1>10. NumbersInv'
  <2>1. ASSUME NEW i \in DOMAIN view'
        PROVE  view'[i].uid \in told' /\ view'[i].idx = Rank(told', view'[i].uid)
    <3>1. CASE i = n + 1 BY <1>3, <1>5, <3>1 DEF Seqno
    <3>2. CASE i \in DOMAIN view BY <1>3, <1>8, <3>2 DEF AgreeInv, NumbersInv, Seqno
    <3> QED BY <1>6, <3>1, <3>2
  <2>2. \A i \in DOMAIN view' : view'[i].idx # 0 BY <1>3, <1>5, <1>6, <1>8
  <2> QED BY <2>1, <2>2 DEF NumbersInv, Seqno
<1>11. ASSUME "hole" \notin gap
       PROVE  /\ \A i \in DOMAIN view : view[i].uid < w
              /\ \A v \in told : v < w => \E j \in DOMAIN view : view[j].uid = v
  <2>1. Live = DOMAIN view BY <1>8 DEF Live
  <2>2. /\ LiveUids \in SUBSET told /\ \A x \in LiveUids, y \in told : y < x => y \in LiveUids
        /\ Cardinality(LiveUids) = Cardinality(Live)
    BY <1>1, <1>11, LiveFirst
  <2>3. Cardinality(LiveUids) = n BY <1>4, <2>1, <2>2, FS_Interval
  <2>4. told \in SUBSET (1..MaxUid) /\ MaxUid \in Nat /\ told \subseteq Int
    BY <1>1, ToldCount, ImapAssumption, SubsetOfRange
  <2>5. /\ \A x \in LiveUids : Rank(told, x) \in 1..n
        /\ \A y \in told : Rank(told, y) \in 1..n => y \in LiveUids
    BY <2>2, <2>3, <2>4, RankInitial
  <2>6. Rank(told, w) = n + 1 BY <1>3 DEF Seqno
  <2>7. w \notin LiveUids BY <1>4, <2>5, <2>6
  <2>8. ASSUME NEW i \in DOMAIN view PROVE view[i].uid < w
    <3>1. view[i].uid \in LiveUids BY <2>1 DEF LiveUids
    <3>2. view[i].uid # w /\ ~(w < view[i].uid) BY <2>2, <2>7, <3>1
    <3>3. view[i].uid \in Int /\ w \in Int BY <2>2, <2>4, <3>1
    <3> QED BY <3>2, <3>3
  <2>9. ASSUME NEW v \in told, v < w PROVE \E j \in DOMAIN view : view[j].uid = v
    <3>1. Rank(told, v) < n + 1 BY <2>4, <2>6, <2>9, RankLess
    <3>2. Rank(told, v) \in 1..Cardinality(told) /\ Cardinality(told) \in Nat
      BY <2>4, RankBounds, SubsetOfRange
    <3>3. Rank(told, v) \in 1..n BY <1>4, <3>1, <3>2
    <3>4. v \in LiveUids BY <2>5, <3>3
    <3> QED BY <2>1, <3>4 DEF LiveUids
  <2> QED BY <2>8, <2>9
<1>12. OrderInv'
  <2> SUFFICES ASSUME "hole" \notin gap'
               PROVE  /\ \A i, j \in DOMAIN view' : i < j => view'[i].uid < view'[j].uid
                      /\ \A i \in DOMAIN view', v \in told' : v < view'[i].uid =>
                           \E j \in DOMAIN view' : view'[j].uid = v
    BY DEF OrderInv
  <2>1. /\ \A i \in DOMAIN view : view[i].uid < w
        /\ \A v \in told : v < w => \E j \in DOMAIN view : view[j].uid = v
        /\ \A i, j \in DOMAIN view : i < j => view[i].uid < view[j].uid
        /\ \A i \in DOMAIN view, v \in told : v < view[i].uid => \E j \in DOMAIN view : view[j].uid = v
    BY <1>2, <1>11 DEF AgreeInv, OrderInv
  <2>2. ASSUME NEW i \in DOMAIN view', NEW j \in DOMAIN view', i < j
        PROVE  view'[i].uid < view'[j].uid
    <3>1. i \in DOMAIN view BY <1>3, <1>4, <2>2
    <3>2. CASE j = n + 1 BY <1>3, <1>5, <2>1, <3>1, <3>2
    <3>3. CASE j \in DOMAIN view BY <1>3, <2>1, <2>2, <3>1, <3>3
    <3> QED BY <1>6, <3>2, <3>3
  <2>3. ASSUME NEW i \in DOMAIN view', NEW v \in told', v < view'[i].uid
        PROVE  \E j \in DOMAIN view' : view'[j].uid = v
    <3>1. \E j \in DOMAIN view : view[j].uid = v
      <4>1. CASE i = n + 1 BY <1>3, <1>5, <2>1, <2>3, <4>1
      <4>2. CASE i \in DOMAIN view BY <1>3, <2>1, <2>3, <4>2
      <4> QED BY <1>6, <4>1, <4>2
    <3> QED BY <1>3, <3>1
  <2> QED BY <2>2, <2>3
<1> QED BY <1>9, <1>10, <1>12 DEF AgreeInv

(* Only headers that have no message any more may be dropped without a hole. *)
LEMMA CompactsAgree ==
  ASSUME BasicInv, AgreeInv, NEW stk, Compacts(stk), UNCHANGED <<mail, uidnext, told>>
  PROVE  AgreeInv'
<1> DEFINE S == Stayers(view)
<1>1. ViewTypes /\ ToldTypes BY DEF BasicInv
<1>2. view' = Expunged(view)
      /\ ("hole" \notin gap' => "hole" \notin gap /\ \A i \in DOMAIN view : view[i].active \/ view[i].idx = 0)
  BY DEF Compacts
<1>3. /\ \A k \in DOMAIN view' : Nth(S, k) \in DOMAIN view /\ Stays(view[Nth(S, k)])
                                 /\ view'[k] = view[Nth(S, k)]
      /\ \A j, k \in DOMAIN view' : j < k => Nth(S, j) < Nth(S, k)
      /\ \A i \in DOMAIN view : Stays(view[i]) => \E k \in DOMAIN view' : view'[k] = view[i]
  BY <1>1, <1>2, ExpungedIs DEF ViewTypes
<1> HIDE DEF S
<1>4. \A k \in DOMAIN view' : \E i \in DOMAIN view : view'[k] = view[i] /\ view[i].idx # 0
  BY <1>3 DEF Stays
<1>5. ToldInv' BY <1>4 DEF AgreeInv, ToldInv
<1>6. NumbersInv' BY <1>4 DEF AgreeInv, NumbersInv, Seqno, Rank
<1>7. OrderInv'
  <2> SUFFICES ASSUME "hole" \notin gap'
               PROVE  /\ \A i, j \in DOMAIN view' : i < j => view'[i].uid < view'[j].uid
                      /\ \A i \in DOMAIN view', v \in told' : v < view'[i].uid =>
                           \E j \in DOMAIN view' : view'[j].uid = v
    BY DEF OrderInv
  <2>1. /\ \A i, j \in DOMAIN view : i < j => view[i].uid < view[j].uid
        /\ \A i \in DOMAIN view, v \in told : v < view[i].uid => \E j \in DOMAIN view : view[j].uid = v
    BY <1>2 DEF AgreeInv, OrderInv
  <2>2. \A i, j \in DOMAIN view' : i < j => view'[i].uid < view'[j].uid BY <1>3, <2>1
  <2>3. ASSUME NEW k \in DOMAIN view', NEW v \in told, v < view'[k].uid
        PROVE  \E j \in DOMAIN view' : view'[j].uid = v
    <3>1. PICK j \in DOMAIN view : view[j].uid = v BY <1>3, <2>1, <2>3
    <3>2. view[j].idx # 0 BY <3>1 DEF AgreeInv, ToldInv
    <3>3. Stays(view[j]) BY <1>2, <3>2 DEF Stays
    <3> QED BY <1>3, <3>1, <3>3
  <2> QED BY <2>2, <2>3
<1> QED BY <1>5, <1>6, <1>7 DEF AgreeInv

(* What a command does at its end, whatever it is for. *)
LEMMA FinishAgree ==
  ASSUME BasicInv, AgreeInv, NEW stk, Finish(stk), ViewTypes', UNCHANGED <<mail, uidnext, told>>
  PROVE  AgreeInv'
<1>1. ViewTypes BY DEF BasicInv
<1>2. CASE Settles(stk) BY <1>1, <1>2, KeepsAgree DEF Settles, client, Keeps, SameMessages
<1>3. CASE ReadsAgain(stk) BY <1>1, <1>3, KeepsAgree DEF ReadsAgain, Keeps, SameMessages
<1>4. CASE Compacts(stk) BY <1>4, CompactsAgree
<1> QED BY <1>2, <1>3, <1>4, FinishCases

(* The steps of the server and of commands that change no message. *)
LEMMA CommandsKeep ==
  ASSUME BasicInv,
         \/ \E u \in Uids : OtherExpunge(u) \/ \E f \in OtherFlags : OtherStore(u, f)
         \/ \E u \in Uids : FetchFlags(u)
         \/ Execute \/ ReadNext \/ Lose(FALSE)
  PROVE  Keeps
<1>1. ViewTypes /\ StackTypes /\ NestInv /\ PlaceInv BY DEF BasicInv
<1>2. CASE \E u \in Uids : OtherExpunge(u) \/ \E f \in OtherFlags : OtherStore(u, f)
  BY <1>2 DEF OtherExpunge, OtherStore, Keeps, SameMessages, session, client, history
<1>3. ASSUME NEW u \in Uids, FetchFlags(u) PROVE Keeps
  <2>1. /\ stack # <<>> /\ view' = ParseFetch(Seqno(u), flags[u])
        /\ UNCHANGED <<mail, flags, uidnext, told>>
        /\ reopen \subseteq reopen' /\ gap \subseteq gap'
    BY <1>3 DEF FetchFlags, GiveUp, server
  <2>2. flags[u] \in SUBSET Flags BY DEF BasicInv, ServerTypes
  <2>3. Top.op = "UID FETCH" => job.pos \in DOMAIN view
    BY <1>1, <2>1, OutermostIs DEF PlaceInv, Sent
  <2>4. SameMessages(view, view') BY <1>1, <2>1, <2>2, <2>3, ParseFetchIs
  <2> QED BY <2>1, <2>4 DEF Keeps
<1>4. CASE Execute BY <1>4 DEF Execute, Keeps, SameMessages, session, client, history
<1>5. CASE ReadNext
  <2>1. UNCHANGED <<mail, uidnext, told, view>> /\ ("expunge" \notin reopen' => "expunge" \notin reopen)
    BY <1>5, ReadNextCases
  <2>2. "hole" \notin gap' => "hole" \notin gap
    BY <1>5, ReadNextCases DEF ReadsMore, HasRead, GiveUp
  <2> QED BY <2>1, <2>2 DEF Keeps, SameMessages
<1>6. CASE Lose(FALSE) BY <1>6 DEF Lose, Keeps, SameMessages, server, session, client, history
<1> QED BY <1>2, <1>3, <1>4, <1>5, <1>6

(* The steps of the user and of what commands are sent for. *)
LEMMA JobsKeep ==
  ASSUME BasicInv,
         \/ \E i \in DOMAIN view, f \in Flags : Toggle(i, f)
         \/ \E i \in DOMAIN view : FetchMessage(i) \/ SyncMessage(i)
         \/ Check \/ \E b \in BOOLEAN : StartSync(b) \/ StartClose(b) \/ Return(b)
         \/ CloseUnchanged \/ CheckResult \/ SyncDelete \/ SyncExpunge
  PROVE  Keeps
<1>1. ViewTypes /\ StackTypes /\ PlaceInv BY DEF BasicInv
<1>2. \A i \in DOMAIN view : view[i] \in Header BY <1>1, SeqHas DEF ViewTypes
<1>3. ASSUME NEW i \in DOMAIN view, NEW h \in Header, view' = [view EXCEPT ![i] = h],
             h.uid = view[i].uid, h.idx = view[i].idx
      PROVE  SameMessages(view, view')
  <2>1. Len([view EXCEPT ![i] = h]) = Len(view) BY <1>1, HeaderChanged DEF ViewTypes
  <2>2. \A j \in DOMAIN view : view'[j].uid = view[j].uid /\ view'[j].idx = view[j].idx BY <1>3
  <2> QED BY <1>3, <2>1, <2>2 DEF SameMessages
<1>4. ASSUME NEW i \in DOMAIN view, NEW f \in Flags, Toggle(i, f) PROVE Keeps
  <2> DEFINE h == view[i]
             g == [h EXCEPT !.flags = IF f \in h.flags THEN h.flags \ {f} ELSE h.flags \cup {f},
                            !.changed = TRUE]
  <2>1. g \in Header /\ g.uid = h.uid /\ g.idx = h.idx BY <1>2 DEF Header
  <2>2. view' = [view EXCEPT ![i] = g] BY <1>4 DEF Toggle
  <2> HIDE DEF g
  <2>3. SameMessages(view, view') BY <1>3, <2>1, <2>2
  <2> QED BY <1>4, <2>3 DEF Toggle, Keeps, server, session
<1>5. ASSUME NEW i \in DOMAIN view, FetchMessage(i) PROVE Keeps
  <2> DEFINE g == [view[i] EXCEPT !.active = FALSE]
  <2>1. g \in Header /\ g.uid = view[i].uid /\ g.idx = view[i].idx BY <1>2 DEF Header
  <2>2. view' = [view EXCEPT ![i] = g] BY <1>5 DEF FetchMessage
  <2> HIDE DEF g
  <2>3. SameMessages(view, view') BY <1>3, <2>1, <2>2
  <2> QED BY <1>5, <2>3 DEF FetchMessage, Keeps, server, session, history
<1>6. ASSUME NEW i \in DOMAIN view, SyncMessage(i) PROVE Keeps
  <2> DEFINE g == [view[i] EXCEPT !.changed = FALSE, !.active = FALSE]
  <2>1. g \in Header /\ g.uid = view[i].uid /\ g.idx = view[i].idx BY <1>2 DEF Header
  <2>2. view' = [view EXCEPT ![i] = g] BY <1>6 DEF SyncMessage
  <2> HIDE DEF g
  <2>3. SameMessages(view, view') BY <1>3, <2>1, <2>2
  <2> QED BY <1>6, <2>3 DEF SyncMessage, Keeps, server, session, history
<1>7. ASSUME NEW b \in BOOLEAN, Check \/ StartSync(b) \/ StartClose(b) PROVE Keeps
  <2>1. \E j : BeginCheck(j) BY <1>7 DEF Check, StartSync, StartClose
  <2> QED BY <2>1 DEF BeginCheck, Keeps, SameMessages, server, session, history
<1>8. ASSUME NEW b \in BOOLEAN, Return(b) PROVE Keeps
  <2>1. UNCHANGED <<mail, uidnext, told, gap>> /\ stack # <<>> /\ Returned(b)
    BY <1>8, ReturnCases
  <2>2. "expunge" \notin reopen' => "expunge" \notin reopen BY <2>1 DEF Returned, Idle
  <2>3. \/ view' = view
        \/ job.pos \in DOMAIN view /\ view' = [view EXCEPT ![job.pos].active = TRUE]
    BY <1>1, <2>1 DEF Returned, PlaceInv, Sent
  <2>4. SameMessages(view, view')
    BY <1>1, <2>3, Reactivated DEF ViewTypes, SameMessages
  <2> QED BY <2>1, <2>2, <2>4 DEF Keeps
<1>9. CASE CloseUnchanged
  BY <1>9 DEF CloseUnchanged, Keeps, SameMessages, server, session, client, history
<1>10. CASE CheckResult
  BY <1>10 DEF CheckResult, Idle, Keeps, SameMessages, server, session, history
<1>11. CASE SyncDelete
  <2>1. UNCHANGED <<mail, uidnext, told, gap, reopen>> BY <1>11, SyncDeleteCases
  <2>2. ASSUME NEW hdrs, SendsDeletions(hdrs) PROVE SameMessages(view, view')
    <3> DEFINE D == {i \in DOMAIN view : IsDeleted(view[i]) /\ view[i].changed}
    <3>1. view' = [i \in DOMAIN view |-> IF i \in D THEN [view[i] EXCEPT !.active = FALSE] ELSE view[i]]
      BY <2>2 DEF SendsDeletions
    <3> HIDE DEF D
    <3> QED BY <1>1, <3>1, Deactivated DEF ViewTypes
  <2>3. view' = view => SameMessages(view, view') BY SameView
  <2>4. SameMessages(view, view') BY <1>11, <2>2, <2>3, SyncDeleteCases
  <2> QED BY <2>1, <2>4 DEF Keeps
<1>12. CASE SyncExpunge
  BY <1>12 DEF SyncExpunge, Idle, Keeps, SameMessages, server, session, history
<1>13. TRUE \in BOOLEAN OBVIOUS
<1> QED BY <1>4, <1>5, <1>6, <1>7, <1>8, <1>9, <1>10, <1>11, <1>12, <1>13

LEMMA AgreeStep ==
  ASSUME BasicInv, AgreeInv, [Next]_vars
  PROVE  AgreeInv'
<1>1. BasicInv' BY BasicStep
<1>2. ViewTypes /\ ViewTypes' BY <1>1 DEF BasicInv
<1>3. CASE Keeps BY <1>2, <1>3, KeepsAgree
<1>4. CASE UNCHANGED vars
  BY <1>3, <1>4 DEF vars, server, session, client, history, Keeps, SameMessages
<1>5. CASE Deliver BY <1>5, DeliverAgree
<1>6. ASSUME NEW u \in Uids, OtherExpunge(u) \/ \E f \in OtherFlags : OtherStore(u, f)
      PROVE  AgreeInv'
  BY <1>3, <1>6, CommandsKeep
<1>7. ASSUME NEW u \in Uids, Expunge(u) \/ FetchFlags(u) PROVE AgreeInv'
  BY <1>3, <1>7, ExpungeAgree, CommandsKeep
<1>8. ASSUME NEW b \in BOOLEAN, Tagged(b) \/ Lose(b) \/ Return(b) PROVE AgreeInv'
  <2>1. CASE Tagged(b) BY <1>2, <2>1, FinishAgree DEF Tagged
  <2>2. CASE Lose(b) /\ b BY <2>2, ReopenAgree DEF Lose
  <2>3. CASE Lose(b) /\ ~b
    <3>1. b = FALSE BY <2>3
    <3> QED BY <1>3, <2>3, <3>1, CommandsKeep
  <2>4. CASE Return(b) BY <1>3, <2>4, JobsKeep
  <2> QED BY <1>8, <2>1, <2>2, <2>3, <2>4
<1>9. CASE Exists \/ Execute \/ FetchHeader \/ ReadNext
  BY <1>3, <1>9, ExistsAgree, CommandsKeep, FetchHeaderAgree
<1>10. CASE ExpungeRefused BY <1>10, ReopenAgree DEF ExpungeRefused
<1>11. CASE CheckFinish BY <1>2, <1>11, FinishAgree DEF CheckFinish, server, session
<1>12. CASE \/ \E i \in DOMAIN view, f \in Flags : Toggle(i, f)
            \/ \E i \in DOMAIN view : FetchMessage(i) \/ SyncMessage(i)
            \/ Check \/ \E b \in BOOLEAN : StartSync(b) \/ StartClose(b)
            \/ CloseUnchanged \/ CheckResult \/ SyncDelete \/ SyncExpunge
  BY <1>3, <1>12, JobsKeep
<1>13. CASE Closed BY <1>4, <1>13 DEF Closed
<1>14. CASE Next
  BY <1>5, <1>6, <1>7, <1>8, <1>9, <1>10, <1>11, <1>12, <1>13, <1>14 DEF Next
<1> QED BY <1>4, <1>14

LEMMA InitAgree == Init => AgreeInv
<1> SUFFICES ASSUME Init PROVE AgreeInv OBVIOUS
<1>1. PICK n \in 0..MaxUid : mail = 1..n /\ uidnext = n + 1 BY DEF Init
<1>2. told = mail /\ DOMAIN view = {} BY DEF Init
<1>3. \A u \in 1..n : u < n + 1 OBVIOUS
<1> QED BY <1>1, <1>2, <1>3 DEF AgreeInv, ToldInv, NumbersInv, OrderInv

LEMMA AgreeAlways == Spec => [](BasicInv /\ AgreeInv)
<1>1. Init => BasicInv /\ AgreeInv BY InitBasic, InitAgree
<1>2. (BasicInv /\ AgreeInv) /\ [Next]_vars => (BasicInv /\ AgreeInv)' BY BasicStep, AgreeStep
<1> QED BY <1>1, <1>2, PTL DEF Spec

(* Whatever the order of EXISTS, EXPUNGE and FETCH responses, a header has   *)
(* the number the server knows its message by (cmd_parse_expunge()); and     *)
(* unless one has been dropped whose STORE was not answered with OK, headers *)
(* are those of the first messages on the server, each one once.             *)
THEOREM ImapNumbersAgree == Spec => []NumbersAgree
<1>1. ASSUME BasicInv, AgreeInv PROVE NumbersAgree
  <2>1. ToldTypes /\ ViewTypes BY <1>1 DEF BasicInv
  <2>2. \A i \in Live : view[i].uid \in told /\ view[i].idx = Seqno(view[i].uid)
    BY <1>1 DEF Live, AgreeInv, NumbersInv
  <2>3. ASSUME "hole" \notin gap PROVE {view[i].idx : i \in Live} = 1..Cardinality(Live)
    <3>1. /\ LiveUids \in SUBSET told /\ \A x \in LiveUids, y \in told : y < x => y \in LiveUids
          /\ Cardinality(LiveUids) = Cardinality(Live)
      BY <1>1, <2>1, <2>3, LiveFirst
    <3>2. told \in SUBSET (1..MaxUid) /\ MaxUid \in Nat BY <2>1, ToldCount, ImapAssumption
    <3>3. /\ \A x \in LiveUids : Rank(told, x) \in 1..Cardinality(LiveUids)
          /\ \A k \in 1..Cardinality(LiveUids) : \E x \in LiveUids : Rank(told, x) = k
      BY <3>1, <3>2, RankInitial
    <3>4. \A i \in Live : view[i].idx \in 1..Cardinality(Live)
      BY <2>2, <3>1, <3>3 DEF LiveUids, Seqno
    <3>5. \A k \in 1..Cardinality(Live) : \E i \in Live : view[i].idx = k
      BY <2>2, <3>1, <3>3 DEF LiveUids, Seqno
    <3> QED BY <3>4, <3>5
  <2> QED BY <2>2, <2>3 DEF NumbersAgree, Live
<1> QED BY <1>1, AgreeAlways, PTL

-----------------------------------------------------------------------------
(* New mail.  What a FETCH of headers that has not failed asks for is all    *)
(* the server has told of, unless new mail is announced; and between such    *)
(* commands what is not read is announced, or known to be missing.           *)
NoFetch == \A i \in DOMAIN stack : stack[i].op # "FETCH"
AllMail == Cardinality(told) <= Len(view)
MailInv ==
  /\ Reading /\ "newmail" \notin reopen => Cardinality(told) <= Top.end \/ AllMail
  /\ NoFetch /\ "mail" \notin gap => AllMail \/ "newmail" \in reopen \/ "expunge" \in reopen

LEMMA NotFetching ==
  ASSUME StackTypes, NestInv, stack = <<>> \/ Top.op # "FETCH"
  PROVE  NoFetch
<1>1. CASE stack = <<>> BY <1>1 DEF NoFetch
<1>2. CASE stack # <<>> /\ Top.op # "FETCH" BY <1>2, OutermostIs DEF NoFetch
<1> QED BY <1>1, <1>2

(* A step at which no FETCH of headers is in progress or begins. *)
Quiet ==
  /\ NoFetch /\ OneCommand(stack')
  /\ told' = told /\ SameMessages(view, view') /\ gap' = gap /\ newCount' = newCount
  /\ "newmail" \in reopen' <=> "newmail" \in reopen
  /\ "expunge" \in reopen' <=> "expunge" \in reopen

LEMMA OneCommandTop ==
  ASSUME OneCommand(stack')
  PROVE  NoFetch' /\ (stack' # <<>> => Top'.op # "FETCH") /\ ~Reading'
<1>1. CASE stack' = <<>> BY <1>1 DEF NoFetch, Reading
<1>2. ASSUME NEW c \in Frame, stack' = <<c>>, c.op # "FETCH"
      PROVE  NoFetch' /\ (stack' # <<>> => Top'.op # "FETCH") /\ ~Reading'
  <2>1. DOMAIN stack' = {1} /\ Len(stack') = 1 /\ stack'[1] = c BY <1>2, SingleIs
  <2>2. Top' = c BY <2>1 DEF Top
  <2> QED BY <1>2, <2>1, <2>2 DEF NoFetch, Reading
<1> QED BY <1>1, <1>2 DEF OneCommand

LEMMA QuietMail ==
  ASSUME MailInv, Quiet
  PROVE  MailInv'
<1>1. NoFetch' /\ ~Reading' BY OneCommandTop DEF Quiet
<1> QED BY <1>1 DEF MailInv, Quiet, AllMail, SameMessages

LEMMA JobsQuiet ==
  ASSUME BasicInv,
         \/ \E i \in DOMAIN view, f \in Flags : Toggle(i, f)
         \/ \E i \in DOMAIN view : FetchMessage(i) \/ SyncMessage(i)
         \/ Check \/ \E b \in BOOLEAN : StartSync(b) \/ StartClose(b) \/ Return(b)
         \/ CloseUnchanged \/ CheckResult \/ SyncDelete \/ SyncExpunge
  PROVE  Quiet
<1>1. StackTypes /\ NestInv /\ JobInv BY DEF BasicInv
<1>2. SameMessages(view, view') /\ told' = told BY JobsKeep DEF Keeps
<1>3. ASSUME stack = <<>> PROVE NoFetch /\ OneCommand(stack)
  BY <1>3 DEF NoFetch, OneCommand
<1>4. ASSUME job.op = "idle" PROVE stack = <<>> BY <1>1, <1>4 DEF JobInv
<1>5. \A op \in Ops \ {"FETCH"} : OneCommand(<<Command(op, {})>>) BY CommandSent
<1>6. {"NOOP", "EXPUNGE", "CLOSE", "UID FETCH"} \subseteq Ops \ {"FETCH"} BY DEF Ops
<1>7. ASSUME NEW i \in DOMAIN view, NEW f \in Flags, Toggle(i, f) PROVE Quiet
  <2>1. /\ job.op = "idle" /\ stack' = stack /\ UNCHANGED <<gap, newCount, reopen>>
    BY <1>7 DEF Toggle
  <2> QED BY <1>2, <1>3, <1>4, <2>1 DEF Quiet
<1>8. ASSUME NEW i \in DOMAIN view, FetchMessage(i) PROVE Quiet
  <2>1. /\ job.op = "idle" /\ stack' = <<Command("UID FETCH", {})>> /\ UNCHANGED <<gap, newCount, reopen>>
    BY <1>8 DEF FetchMessage, history
  <2>2. OneCommand(stack') BY <1>5, <1>6, <2>1
  <2> QED BY <1>2, <1>3, <1>4, <2>1, <2>2 DEF Quiet
<1>9. ASSUME NEW i \in DOMAIN view, SyncMessage(i) PROVE Quiet
  <2>1. /\ stack = <<>> /\ stack' = <<Command("STORE", {view[i].uid})>> /\ UNCHANGED <<gap, newCount, reopen>>
    BY <1>9 DEF SyncMessage, history
  <2>2. {view[i].uid} \in SUBSET Uids
    <3>1. view[i] \in Header BY SeqHas DEF BasicInv, ViewTypes
    <3> QED BY <3>1 DEF Header
  <2>3. "STORE" \in Ops \ {"FETCH"} BY DEF Ops
  <2>4. OneCommand(stack') BY <2>1, <2>2, <2>3, CommandSent
  <2> QED BY <1>2, <1>3, <2>1, <2>4 DEF Quiet
<1>10. ASSUME NEW b \in BOOLEAN, Check \/ StartSync(b) \/ StartClose(b) PROVE Quiet
  <2>1. job.op = "idle" /\ \E j \in Jobs : BeginCheck(j) BY <1>10, BeginsCheck
  <2>2. /\ stack' = <<Command("NOOP", {})>> \/ stack' = stack
        /\ UNCHANGED <<gap, newCount>> /\ reopen' = reopen \cup {"allow"}
    BY <2>1 DEF BeginCheck, history
  <2>3. OneCommand(stack') BY <1>3, <1>4, <1>5, <1>6, <2>1, <2>2
  <2> QED BY <1>2, <1>3, <1>4, <2>1, <2>2, <2>3 DEF Quiet
<1>11. ASSUME NEW b \in BOOLEAN, Return(b) PROVE Quiet
  <2>1. /\ Len(stack) = 1 /\ stack[1].op # "FETCH" /\ stack' = <<>> /\ UNCHANGED <<gap, newCount>>
        /\ Returned(b)
    BY <1>11, ReturnCases
  <2>2. reopen' = reopen \/ reopen' = reopen \ {"allow"} BY <2>1 DEF Returned, Idle
  <2>3. NoFetch
    <3>1. DOMAIN stack = 1..1 BY <1>1, <2>1, SeqHas DEF StackTypes
    <3>2. \A i \in DOMAIN stack : i = 1 BY <3>1
    <3> QED BY <2>1, <3>2 DEF NoFetch
  <2> QED BY <1>2, <2>1, <2>2, <2>3 DEF Quiet, OneCommand
<1>12. CASE CloseUnchanged
  <2>1. job.op = "idle" /\ stack' = <<Command("CLOSE", {})>> /\ UNCHANGED <<gap, newCount, reopen>>
    BY <1>12 DEF CloseUnchanged, client, history
  <2>2. OneCommand(stack') BY <1>5, <1>6, <2>1
  <2> QED BY <1>2, <1>3, <1>4, <2>1, <2>2 DEF Quiet
<1>13. CASE CheckResult
  <2>1. /\ stack = <<>> /\ stack' = stack /\ UNCHANGED <<gap, newCount>>
        /\ reopen' = reopen \/ reopen' = reopen \ {"allow"}
    BY <1>13 DEF CheckResult, Idle, history
  <2> QED BY <1>2, <1>3, <2>1 DEF Quiet
<1>14. CASE SyncDelete
  <2>1. stack = <<>> /\ UNCHANGED <<gap, newCount, reopen>> BY <1>14, SyncDeleteCases
  <2>2. OneCommand(stack')
    <3>1. ASSUME NEW hdrs, SendsDeletions(hdrs) PROVE OneCommand(stack')
      <4>1. "STORE deleted" \in Ops \ {"FETCH"} BY DEF Ops
      <4>2. stack' = <<Command("STORE deleted", MsgSet(hdrs))>> BY <3>1 DEF SendsDeletions
      <4> QED BY <4>1, <4>2, MsgSetIs, CommandSent
    <3>2. stack' = stack => OneCommand(stack') BY <1>3, <2>1
    <3> QED BY <1>14, <3>1, <3>2, SyncDeleteCases
  <2> QED BY <1>2, <1>3, <2>1, <2>2 DEF Quiet
<1>15. CASE SyncExpunge
  <2>1. /\ stack = <<>> /\ UNCHANGED <<gap, newCount>>
        /\ stack' = <<Command("EXPUNGE", {})>> \/ stack' = <<Command("CLOSE", {})>> \/ stack' = stack
        /\ reopen' = reopen \/ reopen' = reopen \cup {"expected"} \/ reopen' = reopen \ {"allow"}
    BY <1>15 DEF SyncExpunge, Idle, history
  <2>2. OneCommand(stack') BY <1>3, <1>5, <1>6, <2>1
  <2> QED BY <1>2, <1>3, <2>1, <2>2 DEF Quiet
<1>16. TRUE \in BOOLEAN OBVIOUS
<1> QED BY <1>7, <1>8, <1>9, <1>10, <1>11, <1>12, <1>13, <1>14, <1>15, <1>16

LEMMA Finishes ==
  ASSUME BasicInv, (\E ok \in BOOLEAN : Tagged(ok)) \/ CheckFinish
  PROVE  \E stk : Ended(stk) /\ Finish(stk) /\ told' = told /\ job'.op = job.op
<1>1. StackTypes /\ NestInv BY DEF BasicInv
<1>2. ASSUME NEW ok \in BOOLEAN, Tagged(ok)
      PROVE  \E stk : Ended(stk) /\ Finish(stk) /\ told' = told /\ job'.op = job.op
  <2> DEFINE stk == Replace([Top EXCEPT !.stage = "done", !.ok = ok])
  <2>1. stack # <<>> /\ (Top.stage = "running" \/ Top.stage = "sent")
        /\ Finish(stk) /\ told' = told /\ job' = job
    BY <1>2 DEF Tagged
  <2>2. Top.op = "FETCH" => Top.stage = "running" BY <1>1, <2>1, TopIs DEF NestInv
  <2>3. Ended(stk) BY <1>1, <2>1, <2>2, EndedIs
  <2> QED BY <2>1, <2>3
<1>3. CASE CheckFinish
  <2>1. /\ stack = <<>> /\ Finish(<<>>) /\ told' = told /\ job' = [job EXCEPT !.phase = "result"]
    BY <1>3 DEF CheckFinish, session
  <2>2. job'.op = job.op BY <1>1, <2>1 DEF StackTypes, Jobs
  <2>3. Ended(<<>>)
    <3>1. DOMAIN stack = {} /\ stack \in Seq(Frame) BY <1>1, <2>1 DEF StackTypes
    <3> QED BY <2>1, <3>1 DEF Ended
  <2> QED BY <2>1, <2>2, <2>3
<1> QED BY <1>2, <1>3

LEMMA EndedFetch ==
  ASSUME BasicInv, NEW stk, Ended(stk), stack' = stk
  PROVE  /\ NoFetch' <=> NoFetch
         /\ stack' # <<>> <=> stack # <<>>
         /\ stack' # <<>> => Top'.op = Top.op /\ Top'.old = Top.old /\ Top'.end = Top.end
         /\ Reading' => Reading
<1>1. StackTypes BY DEF BasicInv
<1>2. stk # <<>> <=> stack # <<>>
  <2>1. Len(stk) = Len(stack) /\ stk \in Seq(Frame) /\ stack \in Seq(Frame) BY <1>1 DEF Ended, StackTypes
  <2> QED BY <2>1, SeqHas
<1>3. NoFetch' <=> NoFetch BY DEF Ended, NoFetch
<1>4. ASSUME stack # <<>>
      PROVE  Top'.op = Top.op /\ Top'.old = Top.old /\ Top'.end = Top.end
  <2>1. Len(stack) \in DOMAIN stack /\ Top = stack[Len(stack)] BY <1>1, <1>4, TopIs
  <2>2. Top' = stk[Len(stack)] BY DEF Top, Ended
  <2> QED BY <2>1, <2>2 DEF Ended
<1>5. Reading' => Reading
  <2>1. ASSUME stack # <<>>, Top.op = "FETCH" PROVE Reading BY <2>1 DEF Ended, Reading
  <2> QED BY <1>2, <1>4, <2>1 DEF Reading
<1> QED BY <1>2, <1>3, <1>4, <1>5

(* After a FETCH has failed nothing is being read. *)
LEMMA NestedTop ==
  ASSUME StackTypes, NestInv, stack # <<>>, NEW ok \in BOOLEAN, stack' = Nested(ok)
  PROVE  Reading' => ok
<1> SUFFICES ASSUME Reading' PROVE ok OBVIOUS
<1>1. /\ stack' \in Seq(Frame) /\ Len(stack') = Len(stack) - 1 /\ DOMAIN stack' = 1..(Len(stack) - 1)
      /\ \A i \in DOMAIN stack' :
           /\ i \in DOMAIN stack /\ stack'[i].stage = stack[i].stage
           /\ stack'[i] = IF i = Len(stack) - 1 THEN [stack[i] EXCEPT !.ok = ok] ELSE stack[i]
  BY NestedIs
<1>2. stack' # <<>> BY DEF Reading
<1>3. Len(stack) \in Nat \ {0} /\ DOMAIN stack = 1..Len(stack) BY TopIs
<1> DEFINE k == Len(stack) - 1
<1>4. k \in Nat \ {0} /\ k \in DOMAIN stack' /\ k < Len(stack) BY <1>1, <1>2, <1>3, SeqHas
<1>5. Top' = stack'[k] BY <1>1 DEF Top
<1>6. k \in DOMAIN stack /\ stack'[k].stage = "done" BY <1>1, <1>4 DEF NestInv
<1>7. stack'[k] = [stack[k] EXCEPT !.ok = ok] BY <1>1, <1>4
<1>8. stack[k] \in Frame BY <1>6, SeqHas DEF StackTypes
<1>9. stack'[k].ok => ok BY <1>7, <1>8 DEF Frame
<1> QED BY <1>5, <1>6, <1>9 DEF Reading

LEMMA GiveUpMail ==
  ASSUME StackTypes, NestInv, stack # <<>>, GiveUp
  PROVE  MailInv'
<1>1. stack' = Nested(FALSE) /\ "mail" \in gap' BY DEF GiveUp
<1>2. ~Reading' BY <1>1, NestedTop
<1> QED BY <1>1, <1>2 DEF MailInv

LEMMA FetchHeaderTop ==
  ASSUME BasicInv, FetchHeader
  PROVE  /\ stack' # <<>> /\ Top'.op = "FETCH" /\ Top'.old = Top.old /\ DOMAIN stack' = DOMAIN stack
         /\ Len(stack') = Len(stack)
         /\ \A i \in DOMAIN stack : stack'[i].op = stack[i].op
         /\ \/ /\ "newmail" \in reopen /\ Top.next < Top.last /\ Top'.end = newCount
               /\ reopen' = reopen \ {"newmail"}
            \/ reopen' = reopen /\ Top'.end = Top.end
<1> DEFINE f == Top
           more == "newmail" \in reopen /\ f.next < f.last
           g == [f EXCEPT !.next = @ + 1, !.end = IF more THEN newCount ELSE @]
<1>1. StackTypes /\ ClientTypes BY DEF BasicInv
<1>2. stack' = Replace(g) /\ Running("FETCH") /\ reopen' = (IF more THEN reopen \ {"newmail"} ELSE reopen)
  BY DEF FetchHeader
<1>3. f \in Frame /\ f.op = "FETCH" /\ f = stack[Len(stack)] /\ stack # <<>> /\ Len(stack) \in DOMAIN stack
  BY <1>1, <1>2, TopIs DEF Running
<1>4. newCount \in Nat /\ f.next + 1 \in Nat /\ f.end \in Nat
  BY <1>1, <1>3, ImapAssumption DEF ClientTypes, Frame
<1>5. more <=> "newmail" \in reopen /\ f.next < f.last OBVIOUS
<1>6. /\ g \in Frame /\ g.op = "FETCH" /\ g.old = f.old /\ g.end = IF more THEN newCount ELSE f.end
  <2> HIDE DEF more
  <2> QED BY <1>3, <1>4 DEF Frame
<1> HIDE DEF more, f, g
<1>7. /\ stack' \in Seq(Frame) /\ Len(stack') = Len(stack) /\ DOMAIN stack' = DOMAIN stack /\ stack' # <<>>
      /\ stack'[Len(stack)] = g /\ \A i \in DOMAIN stack : i # Len(stack) => stack'[i] = stack[i]
  BY <1>1, <1>2, <1>3, <1>6, ReplaceIs
<1>8. Top' = g BY <1>7 DEF Top
<1>9. \A i \in DOMAIN stack : stack'[i].op = stack[i].op BY <1>3, <1>6, <1>7
<1> QED BY <1>2, <1>5, <1>6, <1>7, <1>8, <1>9 DEF f

LEMMA FetchHeaderMail ==
  ASSUME BasicInv, MailInv, FetchHeader
  PROVE  MailInv'
<1>1. ToldTypes /\ ViewTypes /\ StackTypes /\ FetchInv /\ AnnouncedInv BY DEF BasicInv
<1>2. /\ stack' # <<>> /\ Top'.op = "FETCH" /\ DOMAIN stack' = DOMAIN stack
      /\ Len(stack') = Len(stack) /\ \A i \in DOMAIN stack : stack'[i].op = stack[i].op
      /\ \/ /\ "newmail" \in reopen /\ Top'.end = newCount
         \/ reopen' = reopen /\ Top'.end = Top.end
  BY FetchHeaderTop
<1>3. Len(view') = Len(view) + 1 /\ told' = told BY FetchHeaderIs
<1>4. Running("FETCH") /\ Reading BY DEF FetchHeader, Running, Reading
<1>5. "expunge" \notin reopen BY <1>1, <1>4 DEF FetchInv
<1>6. Len(view) \in Nat /\ Cardinality(told) \in 0..MaxUid BY <1>1, SeqHas, ToldCount DEF ViewTypes
<1>7. "newmail" \notin reopen' => Cardinality(told') <= Top'.end \/ AllMail'
  <2>1. CASE "newmail" \in reopen /\ Top'.end = newCount
    <3>1. newCount = Cardinality(told) BY <1>1, <1>5, <2>1 DEF AnnouncedInv
    <3>2. newCount <= newCount BY <1>6, <3>1
    <3> QED BY <1>3, <2>1, <3>1, <3>2
  <2>2. CASE reopen' = reopen /\ Top'.end = Top.end
    <3>1. AllMail => Cardinality(told) <= Len(view) + 1 BY <1>6 DEF AllMail
    <3> QED BY <1>3, <1>4, <2>2, <3>1 DEF MailInv, AllMail
  <2> QED BY <1>2, <2>1, <2>2
<1>8. ~NoFetch'
  <2>1. Len(stack) \in DOMAIN stack /\ Top.op = "FETCH" /\ Top = stack[Len(stack)]
    BY <1>1, <1>4, TopIs DEF Reading
  <2> QED BY <1>2, <2>1 DEF NoFetch
<1> QED BY <1>7, <1>8 DEF MailInv

LEMMA ReadNextMail ==
  ASSUME BasicInv, MailInv, ReadNext
  PROVE  MailInv'
<1>1. /\ ToldTypes /\ ViewTypes /\ ClientTypes /\ StackTypes /\ NestInv /\ FetchInv /\ AnnouncedInv
  BY DEF BasicInv
<1>2. stack # <<>> /\ Top.op = "FETCH" /\ UNCHANGED <<told, view>> BY ReadNextCases
<1>3. CASE GiveUp BY <1>1, <1>2, <1>3, GiveUpMail
<1>4. CASE Top.ok /\ (ReadsMore(Top) \/ HasRead(Top)) /\ reopen' = reopen \ {"newmail"}
  <2> DEFINE e == ReadEnd(Top)
  <2>1. e \in Nat /\ MsgNo(Top) = Len(view) + 1 /\ "expunge" \notin reopen /\ Len(view) \in Nat
    BY <1>2, <1>4, ReadEndIs
  <2>2. Cardinality(told) \in Nat BY <1>1, ToldCount, ImapAssumption
  <2>3. Cardinality(told) <= e \/ AllMail
    <3>1. CASE "newmail" \in reopen
      <4>1. newCount = Cardinality(told) /\ e = newCount BY <1>1, <2>1, <3>1 DEF AnnouncedInv, ReadEnd
      <4> QED BY <2>2, <4>1
    <3>2. CASE "newmail" \notin reopen
      <4>1. Reading BY <1>2, <1>4 DEF Reading
      <4> QED BY <3>2, <4>1 DEF MailInv, ReadEnd
    <3> QED BY <3>1, <3>2
  <2> HIDE DEF e
  <2>4. CASE ReadsMore(Top)
    <3> DEFINE g == [Top EXCEPT !.stage = "running", !.next = MsgNo(Top), !.last = ReadEnd(Top), !.end = ReadEnd(Top)]
    <3>1. Top \in Frame /\ Len(stack) \in DOMAIN stack /\ stack # <<>> BY <1>1, <1>2, TopIs
    <3>2. e = ReadEnd(Top) /\ MsgNo(Top) \in Nat BY <2>1 DEF e
    <3>3. g \in Frame /\ g.end = e /\ g.op = "FETCH" BY <1>2, <2>1, <3>1, <3>2 DEF Frame
    <3>4. stack' = Replace(g) BY <2>4 DEF ReadsMore
    <3> HIDE DEF g
    <3>5. Len(stack') = Len(stack) /\ stack'[Len(stack)] = g /\ DOMAIN stack' = DOMAIN stack
      BY <1>1, <3>1, <3>3, <3>4, ReplaceIs
    <3>6. Top' = g BY <3>5 DEF Top
    <3>7. ~NoFetch' BY <3>1, <3>3, <3>5 DEF NoFetch
    <3> QED BY <1>2, <2>3, <3>3, <3>6, <3>7 DEF MailInv, AllMail
  <2>5. CASE HasRead(Top)
    <3>1. ~(Len(view) + 1 <= e) BY <2>1, <2>5 DEF HasRead, e
    <3>2. AllMail BY <2>1, <2>2, <2>3, <3>1 DEF AllMail
    <3> QED BY <1>2, <3>2 DEF MailInv, AllMail
  <2> QED BY <1>4, <2>4, <2>5
<1> QED BY <1>3, <1>4, ReadNextCases

LEMMA FinishMail ==
  ASSUME BasicInv, MailInv, NEW stk, Ended(stk), Finish(stk), told' = told
  PROVE  MailInv'
<1>1. /\ ToldTypes /\ ViewTypes /\ ClientTypes /\ StackTypes /\ NestInv /\ FetchInv /\ AnnouncedInv
  BY DEF BasicInv
<1>2. CASE Settles(stk)
  <2>1. stack' = stk /\ UNCHANGED <<view, reopen, gap>> BY <1>2 DEF Settles, client
  <2>2. (NoFetch' <=> NoFetch) /\ (Reading' => Reading /\ Top'.end = Top.end)
    BY <2>1, EndedFetch DEF Reading
  <2> QED BY <2>1, <2>2 DEF MailInv, AllMail
<1>3. CASE ReadsAgain(stk)
  <2> DEFINE a == Len(view) + 1
             g == ReadHeaders(a, newCount)
  <2>1. stack' = Append(stk, g) /\ "expunge" \notin reopen /\ "newmail" \in reopen /\ view' = view
    BY <1>3 DEF ReadsAgain, ReadsNew
  <2>2. Len(view) \in Nat /\ newCount \in Nat
    BY <1>1, SeqHas, ImapAssumption DEF ViewTypes, ClientTypes
  <2>3. a \in Nat \ {0} BY <2>2
  <2> HIDE DEF a
  <2>4. g \in Frame /\ g.op = "FETCH" /\ g.end = newCount BY <2>2, <2>3, ReadHeadersIs
  <2> HIDE DEF g
  <2>5. stk \in Seq(Frame) BY DEF Ended
  <2>6. Len(stack') = Len(stk) + 1 /\ stack'[Len(stk) + 1] = g /\ DOMAIN stack' = 1..(Len(stk) + 1)
    BY <2>1, <2>4, <2>5, AppendIs
  <2>7. Top' = g BY <2>6 DEF Top
  <2>8. newCount = Cardinality(told) BY <1>1, <2>1 DEF AnnouncedInv
  <2>9. Len(stk) + 1 \in DOMAIN stack' BY <2>5, <2>6, SeqHas
  <2>10. ~NoFetch' BY <2>4, <2>6, <2>9 DEF NoFetch
  <2>11. newCount <= newCount BY <2>2
  <2> QED BY <2>4, <2>7, <2>8, <2>10, <2>11 DEF MailInv
<1>4. CASE Compacts(stk)
  <2>1. stack' = stk /\ "expunge" \in reopen BY <1>4 DEF Compacts
  <2>2. ~Reading' BY <1>1, <2>1, EndedFetch DEF FetchInv
  <2>3. Cardinality(told) > Len(view') => "mail" \in gap' BY <1>4 DEF Compacts
  <2>4. Len(view') \in Nat /\ Cardinality(told) \in Nat
    <3>1. view' \in Seq(Header) BY <1>1, <1>4, ExpungedIs DEF Compacts, ViewTypes
    <3> QED BY <1>1, <3>1, SeqHas, ToldCount, ImapAssumption
  <2>5. "mail" \notin gap' => Cardinality(told) <= Len(view') BY <2>3, <2>4
  <2> QED BY <2>2, <2>5 DEF MailInv, AllMail
<1> QED BY <1>2, <1>3, <1>4, FinishCases

LEMMA ExistsMail ==
  ASSUME BasicInv, MailInv, Exists
  PROVE  MailInv'
<1> DEFINE n == Cardinality(told')
<1>1. ToldTypes /\ ServerTypes /\ ViewTypes BY DEF BasicInv
<1>2. /\ view' = view /\ gap' = gap
      /\ \/ n < Len(view) /\ stack' = <<>>
         \/ /\ reopen' = IF n = Len(view) \/ "expunge" \in reopen THEN reopen
                         ELSE reopen \cup {"newmail"}
            /\ UNCHANGED stack
  BY DEF Exists, history
<1>3. Len(view) \in Nat /\ n \in Nat
  BY <1>1, SeqHas, ExistsCounts, ImapAssumption DEF ViewTypes
<1> HIDE DEF n
<1>4. CASE n < Len(view) /\ stack' = <<>>
  <2>1. n <= Len(view) BY <1>3, <1>4
  <2> QED BY <1>2, <1>4, <2>1 DEF MailInv, Reading, AllMail, n
<1>5. CASE n = Len(view)
  <2>1. n <= Len(view) BY <1>3, <1>5
  <2> QED BY <1>2, <2>1 DEF MailInv, AllMail, n
<1>6. CASE n # Len(view) /\ "expunge" \in reopen /\ UNCHANGED <<stack, reopen>>
  <2>1. ~Reading BY <1>6 DEF BasicInv, FetchInv
  <2> QED BY <1>6, <2>1 DEF MailInv, Reading, Top
<1>7. CASE "newmail" \in reopen' BY <1>7 DEF MailInv
<1> QED BY <1>2, <1>4, <1>5, <1>6, <1>7

LEMMA FetchFlagsMail ==
  ASSUME BasicInv, MailInv, NEW u \in Uids, FetchFlags(u)
  PROVE  MailInv'
<1>1. StackTypes /\ NestInv BY DEF BasicInv
<1>2. /\ stack # <<>> /\ reopen \subseteq reopen' /\ told' = told
      /\ "newmail" \in reopen' <=> "newmail" \in reopen
      /\ \/ GiveUp
         \/ Top.op # "FETCH" /\ UNCHANGED <<stack, gap, job>>
  BY DEF FetchFlags
<1>3. CASE GiveUp BY <1>1, <1>2, <1>3, GiveUpMail
<1>4. CASE Top.op # "FETCH" /\ UNCHANGED <<stack, gap, job>>
  <2>1. Top' = Top BY <1>4 DEF Top
  <2>2. SameMessages(view, view') BY CommandsKeep DEF Keeps
  <2>3. NoFetch' <=> NoFetch BY <1>4 DEF NoFetch
  <2> QED BY <1>2, <1>4, <2>1, <2>2, <2>3 DEF MailInv, AllMail, Reading, SameMessages
<1> QED BY <1>2, <1>3, <1>4

LEMMA ExpungeMail ==
  ASSUME BasicInv, MailInv, NEW u \in Uids, Expunge(u)
  PROVE  MailInv'
<1>1. Top.op # "FETCH" /\ UNCHANGED stack /\ "expunge" \in reopen' BY DEF Expunge
<1>2. ~Reading' BY <1>1 DEF Reading, Top
<1> QED BY <1>1, <1>2 DEF MailInv

(* The mailbox is selected, at the beginning or again. *)
LEMMA OpeningMail ==
  ASSUME ServerTypes, told' = mail, stack' = Opening, view' = <<>>
  PROVE  MailInv'
<1>1. /\ IsFiniteSet(mail) /\ Cardinality(mail) \in 0..MaxUid
      /\ \/ mail = {} /\ Opening = <<>> /\ Cardinality(mail) = 0
         \/ /\ Opening # <<>> /\ Len(Opening) = 1 /\ DOMAIN Opening = {1}
            /\ Opening[1].op = "FETCH" /\ Opening[1].end = Cardinality(mail)
  BY OpeningIs
<1>2. CASE Opening = <<>> /\ Cardinality(mail) = 0
  <2>1. 0 <= Len(view') OBVIOUS
  <2> QED BY <1>2, <2>1 DEF MailInv, AllMail
<1>3. CASE /\ Opening # <<>> /\ Len(Opening) = 1 /\ DOMAIN Opening = {1}
           /\ Opening[1].op = "FETCH" /\ Opening[1].end = Cardinality(mail)
  <2>1. Top' = Opening[1] BY <1>3 DEF Top
  <2>2. ~NoFetch' BY <1>3 DEF NoFetch
  <2>3. Cardinality(mail) <= Cardinality(mail) BY <1>1, ImapAssumption
  <2> QED BY <1>3, <2>1, <2>2, <2>3 DEF MailInv
<1> QED BY <1>1, <1>2, <1>3

LEMMA ExecuteTop ==
  ASSUME BasicInv, Execute
  PROVE  NoFetch /\ OneCommand(stack')
<1>1. StackTypes /\ NestInv BY DEF BasicInv
<1> DEFINE g == [Top EXCEPT !.stage = "running"]
<1>2. stack # <<>> /\ Top.stage = "sent" /\ stack' = Replace(g) BY DEF Execute
<1>3. Top \in Frame /\ Top = stack[Len(stack)] /\ Len(stack) \in DOMAIN stack BY <1>1, <1>2, TopIs
<1>4. Top.op \in {"EXPUNGE", "CLOSE"} BY <1>1, <1>2, <1>3 DEF NestInv
<1>5. Len(stack) = 1 BY <1>1, <1>2, <1>4, OutermostIs
<1>6. g \in Frame /\ g.op = Top.op BY <1>3 DEF Frame
<1> HIDE DEF g
<1>7. stack' \in Seq(Frame) /\ Len(stack') = 1 /\ stack'[1] = g
  BY <1>1, <1>2, <1>5, <1>6, ReplaceIs
<1>8. stack' = <<g>> BY <1>7
<1>9. OneCommand(stack') BY <1>4, <1>6, <1>8 DEF OneCommand
<1> QED BY <1>1, <1>4, <1>9, NotFetching

(* Steps that change neither headers nor counters nor commands. *)
LEMMA LoseMail ==
  ASSUME BasicInv, NEW b \in BOOLEAN, Lose(b)
  PROVE  \/ Reopen
         \/ /\ stack' = <<>> /\ Quiet /\ UNCHANGED <<view, ctx>> /\ job'.op = "closed"
<1>1. StackTypes /\ NestInv BY DEF BasicInv
<1>2. stack # <<>> /\ Top.op # "FETCH" BY DEF Lose
<1>3. NoFetch BY <1>1, <1>2, NotFetching
<1>4. CASE ~b
  <2>1. stack' = <<>> /\ job' = Job("closed", "-") /\ UNCHANGED <<told, view, ctx, reopen, newCount, gap>>
    BY <1>4 DEF Lose, session, client, history
  <2>2. job'.op = "closed" BY <2>1, JobIs
  <2> QED BY <1>3, <2>1, <2>2 DEF Quiet, OneCommand, SameMessages
<1> QED BY <1>4 DEF Lose

(* Every step, by what it does to headers and commands. *)
LEMMA StepCases ==
  ASSUME BasicInv, [Next]_vars
  PROVE  \/ UNCHANGED <<told, view, ctx, reopen, newCount, stack, gap, job>>
         \/ Exists \/ (\E u \in Uids : Expunge(u) \/ FetchFlags(u))
         \/ (\E b \in BOOLEAN : Tagged(b)) \/ CheckFinish
         \/ Reopen /\ UNCHANGED server
         \/ \E b \in BOOLEAN : Lose(b)
         \/ Execute \/ FetchHeader \/ ReadNext
         \/ \E i \in DOMAIN view, f \in Flags : Toggle(i, f)
         \/ \E i \in DOMAIN view : FetchMessage(i) \/ SyncMessage(i)
         \/ Check \/ \E b \in BOOLEAN : StartSync(b) \/ StartClose(b) \/ Return(b)
         \/ CloseUnchanged \/ CheckResult \/ SyncDelete \/ SyncExpunge
<1>1. ASSUME Deliver \/ \E u \in Uids : OtherExpunge(u) \/ \E f \in OtherFlags : OtherStore(u, f)
      PROVE  UNCHANGED <<told, view, ctx, reopen, newCount, stack, gap, job>>
  BY <1>1 DEF Deliver, OtherExpunge, OtherStore, session, client, history
<1>2. ASSUME Closed \/ UNCHANGED vars
      PROVE  UNCHANGED <<told, view, ctx, reopen, newCount, stack, gap, job>>
  BY <1>2 DEF Closed, vars, session, client, history
<1>3. ASSUME ExpungeRefused PROVE Reopen /\ UNCHANGED server BY <1>3 DEF ExpungeRefused
<1> QED BY <1>1, <1>2, <1>3 DEF Next

LEMMA MailStep ==
  ASSUME BasicInv, MailInv, [Next]_vars
  PROVE  MailInv'
<1>1. StackTypes /\ NestInv /\ ServerTypes BY DEF BasicInv
<1>2. CASE UNCHANGED <<told, view, ctx, reopen, newCount, stack, gap, job>>
  BY <1>2 DEF MailInv, AllMail, Reading, NoFetch, Top
<1>3. CASE Exists \/ (\E u \in Uids : Expunge(u) \/ FetchFlags(u))
  BY <1>3, ExistsMail, ExpungeMail, FetchFlagsMail
<1>4. CASE (\E b \in BOOLEAN : Tagged(b)) \/ CheckFinish BY <1>4, Finishes, FinishMail
<1>5. CASE Reopen BY <1>1, <1>5, OpeningMail DEF Reopen
<1>6. CASE \E b \in BOOLEAN : Lose(b) BY <1>5, <1>6, LoseMail, QuietMail
<1>7. CASE Execute
  <2>1. UNCHANGED <<told, view, reopen, newCount, gap>> BY <1>7 DEF Execute, session, client, history
  <2>2. Quiet BY <1>7, <2>1, ExecuteTop DEF Quiet, SameMessages
  <2> QED BY <2>2, QuietMail
<1>8. CASE FetchHeader \/ ReadNext BY <1>8, FetchHeaderMail, ReadNextMail
<1>9. CASE \/ \E i \in DOMAIN view, f \in Flags : Toggle(i, f)
           \/ \E i \in DOMAIN view : FetchMessage(i) \/ SyncMessage(i)
           \/ Check \/ \E b \in BOOLEAN : StartSync(b) \/ StartClose(b) \/ Return(b)
           \/ CloseUnchanged \/ CheckResult \/ SyncDelete \/ SyncExpunge
  BY <1>9, JobsQuiet, QuietMail
<1> QED BY <1>2, <1>3, <1>4, <1>5, <1>6, <1>7, <1>8, <1>9, StepCases

LEMMA InitMail == Init => MailInv
<1> SUFFICES ASSUME Init PROVE MailInv OBVIOUS
<1>1. ServerTypes BY InitBasic DEF BasicInv
<1>2. told = mail /\ stack = Opening /\ view = <<>> BY DEF Init
<1>3. /\ IsFiniteSet(mail) /\ Cardinality(mail) \in 0..MaxUid
      /\ \/ mail = {} /\ Opening = <<>> /\ Cardinality(mail) = 0
         \/ /\ Opening # <<>> /\ Len(Opening) = 1 /\ DOMAIN Opening = {1}
            /\ Opening[1].op = "FETCH" /\ Opening[1].end = Cardinality(mail)
  BY <1>1, OpeningIs
<1>4. CASE Opening = <<>> /\ Cardinality(mail) = 0
  <2>1. 0 <= Len(view) BY <1>2
  <2> QED BY <1>2, <1>4, <2>1 DEF MailInv, AllMail
<1>5. CASE /\ Opening # <<>> /\ Len(Opening) = 1 /\ DOMAIN Opening = {1}
           /\ Opening[1].op = "FETCH" /\ Opening[1].end = Cardinality(mail)
  <2>1. Top = Opening[1] BY <1>2, <1>5 DEF Top
  <2>2. ~NoFetch BY <1>2, <1>5 DEF NoFetch
  <2>3. Cardinality(mail) <= Cardinality(mail) BY <1>3, ImapAssumption
  <2> QED BY <1>2, <1>5, <2>1, <2>2, <2>3 DEF MailInv
<1> QED BY <1>3, <1>4, <1>5

LEMMA MailAlways == Spec => [](BasicInv /\ MailInv)
<1>1. Init => BasicInv /\ MailInv BY InitBasic, InitMail
<1>2. (BasicInv /\ MailInv) /\ [Next]_vars => (BasicInv /\ MailInv)' BY BasicStep, MailStep
<1> QED BY <1>1, <1>2, PTL DEF Spec

(* New mail the server has announced is read, or will be read by the next    *)
(* check (imap_cmd_finish()), unless an EXPUNGE is pending or has come       *)
(* between, or reading headers has failed.                                   *)
THEOREM ImapNoMailForgotten == Spec => []NoMailForgotten
<1>1. ASSUME BasicInv, MailInv PROVE NoMailForgotten
  <2>1. job.op = "idle" => NoFetch
    <3>1. job.op = "idle" => stack = <<>> BY <1>1 DEF BasicInv, JobInv
    <3> QED BY <1>1, <3>1, NotFetching DEF BasicInv
  <2>2. Cardinality(told) \in Nat /\ Len(view) \in Nat
    BY <1>1, ToldCount, SeqHas, ImapAssumption DEF BasicInv, ViewTypes
  <2>3. Cardinality(told) > Len(view) => ~AllMail BY <2>2 DEF AllMail
  <2> QED BY <1>1, <2>1, <2>3 DEF MailInv, NoMailForgotten
<1> QED BY <1>1, MailAlways, PTL

-----------------------------------------------------------------------------
(* The counters.  Between FETCHes of headers they count all headers, and     *)
(* while the only FETCH is in progress those that were there before it.      *)
OuterFetch ==
  stack # <<>> /\ Top.op = "FETCH" /\ \A i \in 1..(Len(stack) - 1) : stack[i].op # "FETCH"
Counted(v) == ctx.vcount = Len(v) /\ ctx.deleted = NumDeleted(v)
CountInv ==
  "count" \notin gap /\ job.op # "closed" =>
    /\ NoFetch => Counted(view)
    /\ OuterFetch => Counted(SubSeq(view, 1, Top.old))

LEMMA SubSeqIs ==
  ASSUME NEW v \in Seq(Header), NEW a \in Nat, NEW b \in Nat, a <= b, b <= Len(v)
  PROVE  /\ SubSeq(v, a + 1, b) \in Seq(Header) /\ Len(SubSeq(v, a + 1, b)) = b - a
         /\ DOMAIN SubSeq(v, a + 1, b) = 1..(b - a)
         /\ \A i \in 1..(b - a) : SubSeq(v, a + 1, b)[i] = v[a + i]
<1>1. Len(v) \in Nat /\ DOMAIN v = 1..Len(v) /\ \A i \in DOMAIN v : v[i] \in Header BY SeqHas
<1> DEFINE n == b - a
           w == SubSeq(v, a + 1, b)
<1>2. n \in Nat OBVIOUS
<1>3. w = [i \in 1..n |-> v[a + i]]
  <2>1. (1 + b) - (a + 1) = n OBVIOUS
  <2>2. w = [i \in 1..(1 + b - (a + 1)) |-> v[i + (a + 1) - 1]] BY DEF SubSeq
  <2>3. \A i \in 1..n : i + (a + 1) - 1 = a + i OBVIOUS
  <2> QED BY <2>1, <2>2, <2>3
<1>4. \A i \in 1..n : a + i \in DOMAIN v BY <1>1
<1>5. w \in [1..n -> Header] BY <1>1, <1>3, <1>4
<1> HIDE DEF w, n
<1>6. w \in Seq(Header) /\ Len(w) = n /\ DOMAIN w = 1..n BY <1>2, <1>5, SeqIs
<1> QED BY <1>3, <1>6 DEF w, n

(* The deleted headers of two parts are those of the whole. *)
LEMMA DeletedInParts ==
  ASSUME NEW v \in Seq(Header), NEW k \in Nat, k <= Len(v)
  PROVE  NumDeleted(v) = NumDeleted(SubSeq(v, 1, k)) + NumDeleted(SubSeq(v, k + 1, Len(v)))
<1> DEFINE n == Len(v)
           m == n - k
           x == SubSeq(v, 1, k)
           y == SubSeq(v, k + 1, n)
           X == {i \in DOMAIN x : IsDeleted(x[i])}
           Y == {i \in DOMAIN y : IsDeleted(y[i])}
           Z == {i \in DOMAIN v : k < i /\ IsDeleted(v[i])}
           V == {i \in DOMAIN v : IsDeleted(v[i])}
<1>1. n \in Nat /\ DOMAIN v = 1..n /\ m \in Nat BY SeqHas
<1>2. DOMAIN x = 1..k /\ \A i \in 1..k : x[i] = v[i]
  <2>1. 0 \in Nat /\ 0 <= k /\ k - 0 = k /\ 0 + 1 = 1 OBVIOUS
  <2>2. DOMAIN SubSeq(v, 0 + 1, k) = 1..(k - 0)
        /\ \A i \in 1..(k - 0) : SubSeq(v, 0 + 1, k)[i] = v[0 + i]
    BY <2>1, SubSeqIs
  <2>3. \A i \in 1..k : 0 + i = i OBVIOUS
  <2> QED BY <2>1, <2>2, <2>3
<1>3. DOMAIN y = 1..m /\ \A i \in 1..m : y[i] = v[k + i]
  <2>1. n <= Len(v) /\ n \in Nat BY <1>1
  <2> QED BY <2>1, SubSeqIs
<1> HIDE DEF x, y, n, m
<1>4. X \in SUBSET (1..k) /\ Y \in SUBSET (1..m) /\ Z \in SUBSET (1..n) BY <1>1, <1>2, <1>3
<1>5. /\ IsFiniteSet(X) /\ Cardinality(X) \in Nat /\ IsFiniteSet(Y) /\ Cardinality(Y) \in Nat
      /\ IsFiniteSet(Z) /\ Cardinality(Z) \in Nat /\ Y \subseteq Int /\ Z \subseteq Int
  BY <1>1, <1>4, SubsetOfRange
<1>6. V = X \cup Z /\ X \cap Z = {}
  <2>1. k <= n BY DEF n
  <2>2. \A i \in V : i \in X \/ i \in Z BY <1>1, <1>2
  <2>3. \A i \in X : i \in V /\ i \notin Z BY <1>1, <1>2, <2>1
  <2> QED BY <2>2, <2>3
<1>7. Cardinality(Y) = Cardinality(Z)
  <2> DEFINE f == [i \in Y |-> k + i]
  <2>1. \A i \in Y : k + i \in Z BY <1>1, <1>3, <1>4 DEF m
  <2>2. \A j \in Z : \E i \in Y : k + i = j
    <3> SUFFICES ASSUME NEW j \in Z PROVE \E i \in Y : k + i = j OBVIOUS
    <3>1. j - k \in 1..m /\ k + (j - k) = j BY <1>1 DEF m
    <3>2. y[j - k] = v[j] BY <1>3, <3>1
    <3>3. j - k \in Y BY <1>3, <3>1, <3>2
    <3> QED BY <3>1, <3>3
  <2>3. \A i, j \in Y : k + i = k + j => i = j BY <1>5
  <2> HIDE DEF Y, Z
  <2>4. f \in Injection(Y, Z) BY <2>1, <2>3 DEF Injection, IsInjective
  <2>5. f \in Surjection(Y, Z) BY <2>1, <2>2 DEF Surjection
  <2>6. ExistsBijection(Y, Z) BY <2>4, <2>5 DEF ExistsBijection, Bijection
  <2> QED BY <1>5, <2>6, FS_Bijection
<1>8. Cardinality(V) = Cardinality(X) + Cardinality(Z)
  <2>1. Cardinality(X \cap Z) = 0 BY <1>6, FS_EmptySet
  <2> HIDE DEF X, Z, V
  <2>2. Cardinality(X \cup Z) = Cardinality(X) + Cardinality(Z) - Cardinality(X \cap Z)
    BY <1>5, FS_Union
  <2> QED BY <1>5, <1>6, <2>1, <2>2
<1> QED BY <1>7, <1>8 DEF NumDeleted, x, y, n

LEMMA SameDeleted ==
  ASSUME NEW v, NEW w, DOMAIN w = DOMAIN v, \A i \in DOMAIN v : w[i].flags = v[i].flags
  PROVE  NumDeleted(w) = NumDeleted(v)
<1>1. {i \in DOMAIN w : IsDeleted(w[i])} = {i \in DOMAIN v : IsDeleted(v[i])} BY DEF IsDeleted
<1> QED BY <1>1 DEF NumDeleted

(* At a quiet step all headers are counted, and the counter moves with the   *)
(* flags.                                                                    *)
LEMMA QuietCount ==
  ASSUME ViewTypes, CountInv, Quiet, ctx'.vcount = ctx.vcount,
         ctx.deleted \in Int, NumDeleted(view) \in Nat, NumDeleted(view') \in Nat,
         ctx'.deleted = ctx.deleted + NumDeleted(view') - NumDeleted(view),
         job.op = "closed" => job'.op = "closed"
  PROVE  CountInv'
<1>1. NoFetch' /\ ~OuterFetch' BY OneCommandTop DEF Quiet, OuterFetch
<1>2. Len(view') = Len(view) /\ gap' = gap /\ NoFetch BY DEF Quiet, SameMessages
<1> SUFFICES ASSUME "count" \notin gap', job'.op # "closed" PROVE Counted(view)'
  BY <1>1 DEF CountInv
<1>3. Counted(view) BY <1>2 DEF CountInv
<1>4. ctx'.vcount = Len(view') /\ ctx'.deleted = NumDeleted(view')
  BY <1>2, <1>3 DEF Counted
<1> QED BY <1>4 DEF Counted

(* The counter moves with the flags. *)
CountFollows ==
  /\ ctx'.vcount = ctx.vcount
  /\ ctx'.deleted = ctx.deleted + NumDeleted(view') - NumDeleted(view)
  /\ job.op # "closed"

LEMMA JobsCount ==
  ASSUME BasicInv,
         \/ \E i \in DOMAIN view, f \in Flags : Toggle(i, f)
         \/ \E i \in DOMAIN view : FetchMessage(i) \/ SyncMessage(i)
         \/ Check \/ \E b \in BOOLEAN : StartSync(b) \/ StartClose(b) \/ Return(b)
         \/ CloseUnchanged \/ CheckResult \/ SyncDelete \/ SyncExpunge
  PROVE  CountFollows
<1>1. view \in Seq(Header) /\ StackTypes /\ JobInv /\ PlaceInv BY DEF BasicInv, ViewTypes
<1>2. ctx \in [changed : 0..1, deleted : Int, vcount : Nat] BY DEF BasicInv, ClientTypes
<1>3. NumDeleted(view) \in Nat BY <1>1, NumTypes
<1>4. ASSUME ctx'.vcount = ctx.vcount, ctx'.deleted = ctx.deleted, DOMAIN view' = DOMAIN view,
             \A i \in DOMAIN view : view'[i].flags = view[i].flags, job.op # "closed"
      PROVE  CountFollows
  <2>1. NumDeleted(view') = NumDeleted(view) BY <1>4, SameDeleted
  <2>2. ctx.deleted = ctx.deleted + NumDeleted(view) - NumDeleted(view) BY <1>2, <1>3
  <2> QED BY <1>4, <2>1, <2>2 DEF CountFollows
<1>5. ASSUME view' = view PROVE DOMAIN view' = DOMAIN view /\ \A i \in DOMAIN view : view'[i].flags = view[i].flags
  BY <1>5
<1>6. ASSUME NEW i \in DOMAIN view, NEW f \in Flags, Toggle(i, f) PROVE CountFollows
  <2>1. /\ job.op = "idle"
        /\ ctx' = [ctx EXCEPT !.changed = 1, !.deleted = @ + NumDeleted(view') - NumDeleted(view)]
    BY <1>6 DEF Toggle
  <2> QED BY <1>2, <2>1 DEF CountFollows
<1>7. ASSUME NEW i \in DOMAIN view, FetchMessage(i) PROVE CountFollows
  <2>1. /\ job.op = "idle" /\ view' = [view EXCEPT ![i].active = FALSE] /\ ctx' = ctx
    BY <1>7 DEF FetchMessage
  <2>2. \A j \in DOMAIN view : view'[j].flags = view[j].flags
    <3>1. view[i] \in Header BY <1>1, SeqHas
    <3>2. [view[i] EXCEPT !.active = FALSE].flags = view[i].flags BY <3>1 DEF Header
    <3> QED BY <2>1, <3>2
  <2> QED BY <1>4, <2>1, <2>2
<1>8. ASSUME NEW i \in DOMAIN view, SyncMessage(i) PROVE CountFollows
  <2>1. /\ job.phase = "flags" /\ ctx' = ctx
        /\ view' = [view EXCEPT ![i].changed = FALSE, ![i].active = FALSE]
    BY <1>8 DEF SyncMessage
  <2>2. \A j \in DOMAIN view : view'[j].flags = view[j].flags
    <3> DEFINE g == [view[i] EXCEPT !.changed = FALSE, !.active = FALSE]
    <3>1. view[i] \in Header BY <1>1, SeqHas
    <3>2. g.flags = view[i].flags BY <3>1 DEF Header
    <3>3. view' = [view EXCEPT ![i] = g] BY <2>1
    <3> HIDE DEF g
    <3> QED BY <3>2, <3>3
  <2>3. job.op # "closed" /\ DOMAIN view' = DOMAIN view BY <1>1, <2>1 DEF JobInv
  <2> QED BY <1>4, <2>1, <2>2, <2>3
<1>9. ASSUME NEW b \in BOOLEAN, Check \/ StartSync(b) \/ StartClose(b) PROVE CountFollows
  <2>1. job.op = "idle" /\ \E j \in Jobs : BeginCheck(j) BY <1>9, BeginsCheck
  <2>2. view' = view /\ ctx' = ctx BY <2>1 DEF BeginCheck
  <2> QED BY <1>4, <1>5, <2>1, <2>2
<1>10. ASSUME NEW b \in BOOLEAN, Return(b) PROVE CountFollows
  <2>1. stack # <<>> /\ Returned(b) BY <1>10, ReturnCases
  <2>2. job.op # "closed" BY <1>1, <2>1 DEF JobInv
  <2>3. ctx'.vcount = ctx.vcount /\ ctx'.deleted = ctx.deleted
    <3>1. ctx' = ctx \/ ctx' = [ctx EXCEPT !.changed = (@ + 1) % 2] BY <2>1 DEF Returned
    <3> QED BY <1>2, <3>1
  <2>4. \/ view' = view
        \/ job.pos \in DOMAIN view /\ view' = [view EXCEPT ![job.pos].active = TRUE]
    BY <1>1, <2>1 DEF Returned, PlaceInv, Sent
  <2>5. CASE view' = view BY <1>4, <1>5, <2>2, <2>3, <2>5
  <2>6. CASE job.pos \in DOMAIN view /\ view' = [view EXCEPT ![job.pos].active = TRUE]
    <3>1. DOMAIN view' = DOMAIN view /\ \A i \in DOMAIN view : view'[i].flags = view[i].flags
      BY <1>1, <2>6, Reactivated
    <3> QED BY <1>4, <2>2, <2>3, <3>1
  <2> QED BY <2>4, <2>5, <2>6
<1>11. CASE CloseUnchanged
  <2>1. job.op = "idle" /\ view' = view /\ ctx' = ctx BY <1>11 DEF CloseUnchanged, client
  <2> QED BY <1>4, <1>5, <2>1
<1>12. CASE CheckResult
  <2>1. job.phase = "result" /\ view' = view /\ ctx' = ctx BY <1>12 DEF CheckResult
  <2>2. job.op # "closed" BY <1>1, <2>1 DEF JobInv
  <2> QED BY <1>4, <1>5, <2>1, <2>2
<1>13. CASE SyncDelete
  <2>1. job.phase = "delete" /\ ctx' = ctx BY <1>13, SyncDeleteCases
  <2>2. job.op # "closed" BY <1>1, <2>1 DEF JobInv
  <2>3. ASSUME NEW hdrs, SendsDeletions(hdrs)
        PROVE  DOMAIN view' = DOMAIN view /\ \A i \in DOMAIN view : view'[i].flags = view[i].flags
    <3> DEFINE D == {i \in DOMAIN view : IsDeleted(view[i]) /\ view[i].changed}
    <3>1. view' = [i \in DOMAIN view |-> IF i \in D THEN [view[i] EXCEPT !.active = FALSE] ELSE view[i]]
      BY <2>3 DEF SendsDeletions
    <3> HIDE DEF D
    <3> QED BY <1>1, <3>1, Deactivated
  <2>4. DOMAIN view' = DOMAIN view /\ \A i \in DOMAIN view : view'[i].flags = view[i].flags
    BY <1>5, <1>13, <2>3, SyncDeleteCases
  <2> QED BY <1>4, <2>1, <2>2, <2>4
<1>14. CASE SyncExpunge
  <2>1. job.phase = "flags" /\ view' = view /\ ctx' = [ctx EXCEPT !.changed = 0] BY <1>14 DEF SyncExpunge
  <2>2. job.op # "closed" BY <1>1, <2>1 DEF JobInv
  <2>3. ctx'.vcount = ctx.vcount /\ ctx'.deleted = ctx.deleted BY <1>2, <2>1
  <2> QED BY <1>4, <1>5, <2>1, <2>2, <2>3
<1>15. TRUE \in BOOLEAN OBVIOUS
<1> QED BY <1>6, <1>7, <1>8, <1>9, <1>10, <1>11, <1>12, <1>13, <1>14, <1>15

LEMMA ExistsCount ==
  ASSUME CountInv, Exists
  PROVE  CountInv'
<1>1. \/ job'.op = "closed"
      \/ UNCHANGED <<view, ctx, stack, job, gap>>
  BY JobIs DEF Exists, history
<1> QED BY <1>1 DEF CountInv, NoFetch, OuterFetch, Top, Counted

LEMMA ExpungeCount ==
  ASSUME BasicInv, CountInv, NEW u \in Uids, Expunge(u)
  PROVE  CountInv'
<1>1. ToldTypes /\ ViewTypes BY DEF BasicInv
<1>2. /\ stack # <<>> /\ Top.op # "FETCH" /\ u \in told /\ view' = Renumbered(view, Seqno(u))
      /\ UNCHANGED <<ctx, stack, job, gap>>
  BY DEF Expunge, history
<1>3. /\ Len(view') = Len(view) /\ DOMAIN view' = DOMAIN view
      /\ \A i \in DOMAIN view : view'[i].flags = view[i].flags
  BY <1>1, <1>2, SeqnoBounds, RenumberedIs DEF ViewTypes
<1>4. NumDeleted(view') = NumDeleted(view) BY <1>3, SameDeleted
<1>5. (NoFetch' => NoFetch) /\ ~OuterFetch' BY <1>2 DEF NoFetch, OuterFetch, Top
<1> QED BY <1>2, <1>3, <1>4, <1>5 DEF CountInv, Counted

LEMMA FetchFlagsCount ==
  ASSUME BasicInv, CountInv, NEW u \in Uids, FetchFlags(u)
  PROVE  CountInv'
<1>1. ViewTypes /\ ctx \in [changed : 0..1, deleted : Int, vcount : Nat]
  BY DEF BasicInv, ClientTypes
<1>2. /\ ctx' = [ctx EXCEPT !.changed = IF view' # view THEN 1 ELSE @,
                            !.deleted = @ + NumDeleted(view') - NumDeleted(view)]
      /\ "count" \in gap' \/ (Top.op # "FETCH" /\ UNCHANGED <<stack, gap, job>>)
  BY DEF FetchFlags, GiveUp
<1>3. ctx'.vcount = ctx.vcount /\ ctx'.deleted = ctx.deleted + NumDeleted(view') - NumDeleted(view)
  BY <1>1, <1>2
<1>4. Len(view') = Len(view) BY CommandsKeep DEF Keeps, SameMessages
<1>5. NumDeleted(view) \in Nat /\ NumDeleted(view') \in Nat
  <2>1. ViewTypes' BY FetchFlagsStep DEF BasicInv
  <2> QED BY <1>1, <2>1, NumTypes DEF ViewTypes
<1>6. CASE "count" \in gap' BY <1>6 DEF CountInv
<1>7. CASE Top.op # "FETCH" /\ UNCHANGED <<stack, gap, job>>
  <2>1. (NoFetch' => NoFetch) /\ ~OuterFetch' BY <1>7 DEF NoFetch, OuterFetch, Top
  <2>2. Counted(view) => ctx'.vcount = Len(view') /\ ctx'.deleted = NumDeleted(view')
    BY <1>3, <1>4, <1>5 DEF Counted
  <2> QED BY <1>7, <2>1, <2>2 DEF CountInv, Counted
<1> QED BY <1>2, <1>6, <1>7

LEMMA FetchHeaderCount ==
  ASSUME BasicInv, CountInv, FetchHeader
  PROVE  CountInv'
<1> DEFINE k == Top.old
<1>1. ViewTypes /\ StackTypes /\ FetchInv BY DEF BasicInv
<1>2. Running("FETCH") /\ UNCHANGED <<ctx, job, gap>> BY DEF FetchHeader, history
<1>3. /\ stack' # <<>> /\ Top'.op = "FETCH" /\ Top'.old = k /\ DOMAIN stack' = DOMAIN stack
      /\ Len(stack') = Len(stack) /\ \A i \in DOMAIN stack : stack'[i].op = stack[i].op
  BY FetchHeaderTop
<1>4. Len(stack) \in DOMAIN stack /\ Top = stack[Len(stack)] /\ Top \in Frame /\ stack # <<>>
      /\ DOMAIN stack = 1..Len(stack) /\ Len(stack) \in Nat
  BY <1>1, <1>2, TopIs DEF Running
<1>5. /\ view' \in Seq(Header) /\ Len(view') = Len(view) + 1
      /\ \A i \in DOMAIN view : view'[i] = view[i]
  BY FetchHeaderIs
<1>6. k \in Nat /\ k <= Len(view) /\ Len(view) \in Nat /\ DOMAIN view = 1..Len(view)
  BY <1>1, <1>2, <1>4, SeqHas DEF Frame, FetchInv, Running, ViewTypes
<1>7. ~NoFetch' BY <1>2, <1>3, <1>4 DEF NoFetch, Running
<1>8. OuterFetch' => OuterFetch
  <2>1. \A i \in 1..(Len(stack) - 1) : i \in DOMAIN stack BY <1>4
  <2> QED BY <1>2, <1>3, <1>4, <2>1 DEF OuterFetch, Running
<1> HIDE DEF k
<1>9. SubSeq(view', 1, k) = SubSeq(view, 1, k)
  <2>1. 0 + 1 = 1 /\ 0 \in Nat /\ 0 <= k /\ k - 0 = k /\ k <= Len(view') BY <1>5, <1>6
  <2>2. \A i \in 1..k : 0 + i = i /\ i \in DOMAIN view BY <1>6
  <2>3. /\ SubSeq(view, 0 + 1, k) \in Seq(Header) /\ DOMAIN SubSeq(view, 0 + 1, k) = 1..(k - 0)
        /\ \A i \in 1..(k - 0) : SubSeq(view, 0 + 1, k)[i] = view[0 + i]
        /\ Len(SubSeq(view, 0 + 1, k)) = k - 0
    BY <1>1, <1>6, <2>1, SubSeqIs DEF ViewTypes
  <2>4. /\ SubSeq(view', 0 + 1, k) \in Seq(Header) /\ DOMAIN SubSeq(view', 0 + 1, k) = 1..(k - 0)
        /\ \A i \in 1..(k - 0) : SubSeq(view', 0 + 1, k)[i] = view'[0 + i]
        /\ Len(SubSeq(view', 0 + 1, k)) = k - 0
    BY <1>5, <1>6, <2>1, SubSeqIs
  <2>5. \A i \in 1..k : SubSeq(view', 1, k)[i] = SubSeq(view, 1, k)[i]
    BY <1>5, <2>1, <2>2, <2>3, <2>4
  <2>6. /\ SubSeq(view, 1, k) \in Seq(Header) /\ SubSeq(view', 1, k) \in Seq(Header)
        /\ Len(SubSeq(view, 1, k)) = k /\ Len(SubSeq(view', 1, k)) = k
    BY <2>1, <2>3, <2>4
  <2> QED BY <1>6, <2>5, <2>6
<1>10. (OuterFetch /\ "count" \notin gap /\ job.op # "closed") => Counted(SubSeq(view, 1, k))
  BY DEF CountInv, k
<1> QED BY <1>2, <1>3, <1>7, <1>8, <1>9, <1>10 DEF CountInv, Counted

(* What a FETCH has read is counted with what was there before. *)
LEMMA ReadNextCount ==
  ASSUME BasicInv, CountInv, ReadNext
  PROVE  CountInv'
<1>1. ViewTypes /\ StackTypes /\ ClientTypes BY DEF BasicInv
<1>2. /\ stack # <<>> /\ Top.op = "FETCH" /\ view' = view BY ReadNextCases
<1>3. Len(stack) \in DOMAIN stack /\ Top = stack[Len(stack)] /\ Top \in Frame
      /\ DOMAIN stack = 1..Len(stack) /\ Len(stack) \in Nat \ {0}
  BY <1>1, <1>2, TopIs
<1>4. \A i \in 1..(Len(stack) - 1) : i \in DOMAIN stack /\ i # Len(stack)
  <2>1. Len(stack) \in Nat BY <1>3
  <2>2. \A i \in 1..(Len(stack) - 1) : i \in 1..Len(stack) /\ i # Len(stack) BY <2>1
  <2>3. DOMAIN stack = 1..Len(stack) BY <1>3
  <2> QED BY <2>2, <2>3
<1>5. CASE GiveUp BY <1>5 DEF GiveUp, CountInv
<1>6. CASE Top.ok /\ ReadsMore(Top)
  <2> DEFINE g == [Top EXCEPT !.stage = "running", !.next = MsgNo(Top), !.last = ReadEnd(Top), !.end = ReadEnd(Top)]
  <2>1. ReadEnd(Top) \in Nat /\ MsgNo(Top) \in Nat BY <1>2, <1>6, ReadEndIs
  <2>2. g \in Frame /\ g.old = Top.old /\ g.op = "FETCH" BY <1>2, <1>3, <2>1 DEF Frame
  <2>3. stack' = Replace(g) /\ UNCHANGED <<ctx, gap, job>> BY <1>6 DEF ReadsMore
  <2> HIDE DEF g
  <2>4. /\ Len(stack') = Len(stack) /\ DOMAIN stack' = DOMAIN stack /\ stack'[Len(stack)] = g
        /\ \A i \in DOMAIN stack : i # Len(stack) => stack'[i] = stack[i]
    BY <1>1, <1>2, <2>2, <2>3, ReplaceIs
  <2>5. Top' = g BY <2>4 DEF Top
  <2>6. ~NoFetch' BY <1>3, <2>2, <2>4 DEF NoFetch
  <2>7. OuterFetch' => OuterFetch BY <1>2, <1>4, <2>4 DEF OuterFetch
  <2> QED BY <1>2, <2>2, <2>3, <2>5, <2>6, <2>7 DEF CountInv, Counted
<1>7. CASE Top.ok /\ HasRead(Top)
  <2> DEFINE k == Top.old
             n == Len(view)
             new == SubSeq(view, k + 1, n)
  <2>1. /\ stack' = Nested(TRUE)
        /\ ctx' = [ctx EXCEPT !.deleted = @ + NumDeleted(new), !.vcount = @ + Len(new)]
        /\ (\E i \in 1..(Len(stack) - 1) : stack[i].op = "FETCH") => "count" \in gap'
        /\ "count" \notin gap' => "count" \notin gap
        /\ job.op = "closed" => job'.op = "closed"
    <3>1. (\E i \in 1..(Len(stack) - 1) : stack[i].op = "FETCH") => "count" \in gap' BY <1>7 DEF HasRead
    <3>2. job.op = "closed" => job'.op = "closed" BY <1>7 DEF HasRead
    <3>3. "count" \notin gap' => "count" \notin gap BY <1>7 DEF HasRead
    <3>4. stack' = Nested(TRUE)
          /\ ctx' = [ctx EXCEPT !.deleted = @ + NumDeleted(new), !.vcount = @ + Len(new)]
      BY <1>7 DEF HasRead
    <3> QED BY <3>1, <3>2, <3>3, <3>4
  <2> SUFFICES ASSUME "count" \notin gap', job'.op # "closed"
               PROVE  Counted(view)' /\ ~OuterFetch'
    BY DEF CountInv
  <2>2. \A i \in 1..(Len(stack) - 1) : stack[i].op # "FETCH" BY <1>7 DEF HasRead
  <2>3. OuterFetch BY <1>2, <2>2 DEF OuterFetch
  <2>4. ctx.vcount = Len(SubSeq(view, 1, k)) /\ ctx.deleted = NumDeleted(SubSeq(view, 1, k))
    BY <2>1, <2>3 DEF CountInv, Counted
  <2>5. k \in Nat /\ k <= n /\ n \in Nat BY <1>2, <1>7, ReadEndIs
  <2>6. Len(new) = n - k /\ new \in Seq(Header)
    <3>1. n <= Len(view) BY <2>5
    <3> QED BY <1>1, <2>5, <3>1, SubSeqIs DEF ViewTypes
  <2>7. Len(SubSeq(view, 1, k)) = k /\ SubSeq(view, 1, k) \in Seq(Header)
    <3>1. 0 + 1 = 1 /\ 0 \in Nat /\ 0 <= k /\ k - 0 = k BY <2>5
    <3>2. Len(SubSeq(view, 0 + 1, k)) = k - 0 /\ SubSeq(view, 0 + 1, k) \in Seq(Header)
      BY <1>1, <2>5, <3>1, SubSeqIs DEF ViewTypes
    <3> QED BY <3>1, <3>2
  <2>8. NumDeleted(view) = NumDeleted(SubSeq(view, 1, k)) + NumDeleted(new)
    BY <1>1, <2>5, DeletedInParts DEF ViewTypes
  <2>9. NumDeleted(new) \in Nat BY <2>6, NumTypes
  <2>10. ctx \in [changed : 0..1, deleted : Int, vcount : Nat] BY <1>1 DEF ClientTypes
  <2> HIDE DEF k, n, new
  <2>11. ctx'.deleted = ctx.deleted + NumDeleted(new) /\ ctx'.vcount = ctx.vcount + Len(new)
    BY <2>1, <2>10
  <2>12. ctx'.vcount = n /\ ctx'.deleted = NumDeleted(view)
    BY <2>4, <2>5, <2>6, <2>7, <2>8, <2>11
  <2>13. ~OuterFetch'
    <3>1. /\ Len(stack') = Len(stack) - 1 /\ DOMAIN stack' = 1..(Len(stack) - 1)
          /\ stack' \in Seq(Frame)
          /\ \A i \in DOMAIN stack' : stack'[i].op = stack[i].op
      BY <1>1, <1>2, <2>1, NestedIs
    <3>2. stack' # <<>> => Len(stack') \in DOMAIN stack' BY <3>1, SeqHas
    <3>3. \A i \in DOMAIN stack' : stack'[i].op # "FETCH" BY <2>2, <3>1
    <3> QED BY <3>2, <3>3 DEF OuterFetch, Top
  <2> QED BY <1>2, <2>12, <2>13 DEF Counted, n
<1> QED BY <1>5, <1>6, <1>7, ReadNextCases

LEMMA FinishCount ==
  ASSUME BasicInv, CountInv, NEW stk, Ended(stk), Finish(stk), told' = told, job'.op = job.op
  PROVE  CountInv'
<1>1. ViewTypes /\ StackTypes /\ NestInv /\ FetchInv BY DEF BasicInv
<1>2. CASE Settles(stk)
  <2>1. stack' = stk /\ UNCHANGED <<view, ctx, gap>> BY <1>2 DEF Settles, client
  <2>2. NoFetch' <=> NoFetch BY <2>1, EndedFetch
  <2>3. OuterFetch' => OuterFetch /\ Top'.old = Top.old
    <3>1. Len(stack') = Len(stack) /\ DOMAIN stack' = DOMAIN stack
          /\ \A i \in DOMAIN stack : stack'[i].op = stack[i].op
      BY <2>1 DEF Ended
    <3>2. stack # <<>> => \A i \in 1..(Len(stack) - 1) : i \in DOMAIN stack
      BY <1>1, TopIs
    <3>3. (stack' # <<>> <=> stack # <<>>) /\ (stack' # <<>> => Top'.op = Top.op /\ Top'.old = Top.old)
      BY <2>1, EndedFetch
    <3> QED BY <3>1, <3>2, <3>3 DEF OuterFetch
  <2> QED BY <2>1, <2>2, <2>3 DEF CountInv, Counted
<1>3. CASE ReadsAgain(stk)
  <2> DEFINE a == Len(view) + 1
             g == ReadHeaders(a, newCount)
  <2>1. stack' = Append(stk, g) /\ UNCHANGED <<view, ctx, gap>>
    BY <1>3 DEF ReadsAgain
  <2>2. Len(view) \in Nat /\ newCount \in Nat
    BY <1>1, SeqHas, ImapAssumption DEF ViewTypes, BasicInv, ClientTypes
  <2>3. a \in Nat \ {0} /\ a - 1 = Len(view) BY <2>2
  <2> HIDE DEF a
  <2>4. g \in Frame /\ g.op = "FETCH" BY <2>2, <2>3, ReadHeadersIs
  <2>5. g.old = a - 1 BY <2>2, <2>3, ReadHeadersIs
  <2> HIDE DEF g
  <2>6. stk \in Seq(Frame) /\ Len(stk) \in Nat /\ DOMAIN stk = 1..Len(stk) BY SeqHas DEF Ended
  <2>7. /\ Len(stack') = Len(stk) + 1 /\ stack'[Len(stk) + 1] = g /\ DOMAIN stack' = 1..(Len(stk) + 1)
        /\ \A i \in DOMAIN stk : stack'[i] = stk[i]
    BY <2>1, <2>4, <2>6, AppendIs
  <2>8. Top' = g BY <2>7 DEF Top
  <2>9. ~NoFetch'
    <3>1. Len(stk) + 1 \in DOMAIN stack' BY <2>6, <2>7
    <3> QED BY <2>4, <2>7, <3>1 DEF NoFetch
  <2>10. OuterFetch' => NoFetch
    <3>1. Len(stack') - 1 = Len(stk) BY <2>6, <2>7
    <3>2. OuterFetch' => \A i \in DOMAIN stk : stk[i].op # "FETCH" BY <2>6, <2>7, <3>1 DEF OuterFetch
    <3> QED BY <3>2 DEF NoFetch, Ended
  <2>11. SubSeq(view, 1, Len(view)) = view
    <3>1. 0 + 1 = 1 /\ 0 \in Nat /\ 0 <= Len(view) /\ Len(view) - 0 = Len(view) /\ Len(view) <= Len(view) BY <2>2
    <3>2. /\ SubSeq(view, 0 + 1, Len(view)) \in Seq(Header)
          /\ Len(SubSeq(view, 0 + 1, Len(view))) = Len(view) - 0
          /\ \A i \in 1..(Len(view) - 0) : SubSeq(view, 0 + 1, Len(view))[i] = view[0 + i]
      BY <1>1, <2>2, <3>1, SubSeqIs DEF ViewTypes
    <3>3. \A i \in 1..Len(view) : 0 + i = i OBVIOUS
    <3>4. \A i \in 1..Len(view) : SubSeq(view, 1, Len(view))[i] = view[i] BY <3>1, <3>2, <3>3
    <3>5. SubSeq(view, 1, Len(view)) \in Seq(Header) /\ Len(SubSeq(view, 1, Len(view))) = Len(view)
      BY <3>1, <3>2
    <3> QED BY <1>1, <3>4, <3>5 DEF ViewTypes
  <2> QED BY <2>1, <2>3, <2>5, <2>8, <2>9, <2>10, <2>11 DEF CountInv, Counted
<1>4. CASE Compacts(stk)
  <2>1. stack' = stk /\ "expunge" \in reopen /\ ctx' = Updated(view') BY <1>4 DEF Compacts
  <2>2. Counted(view)' BY <2>1 DEF Updated, Counted
  <2>3. ~OuterFetch'
    <3>1. ~Reading BY <1>1, <2>1 DEF FetchInv
    <3>2. stack # <<>> => Top.op # "FETCH" BY <3>1 DEF Ended, Reading
    <3> QED BY <2>1, <3>2, EndedFetch DEF OuterFetch
  <2> QED BY <2>2, <2>3 DEF CountInv
<1> QED BY <1>2, <1>3, <1>4, FinishCases

LEMMA NothingDeleted == NumDeleted(<<>>) = 0 /\ Len(<<>>) = 0 /\ SubSeq(<<>>, 1, 0) = <<>>
<1>1. DOMAIN <<>> = {} OBVIOUS
<1>2. {i \in DOMAIN <<>> : IsDeleted(<<>>[i])} = {} BY <1>1
<1>3. NumDeleted(<<>>) = 0 BY <1>2, FS_EmptySet DEF NumDeleted
<1> QED BY <1>3

LEMMA OpeningCount ==
  ASSUME ServerTypes, stack' = Opening, view' = <<>>,
         ctx' = [changed |-> 0, deleted |-> 0, vcount |-> 0]
  PROVE  CountInv'
<1>1. \/ Opening = <<>>
      \/ /\ Opening # <<>> /\ Len(Opening) = 1 /\ Opening[1].old = 0
  BY OpeningIs
<1>2. ctx'.deleted = 0 /\ ctx'.vcount = 0 OBVIOUS
<1>3. Counted(view)' BY <1>2, NothingDeleted DEF Counted
<1>4. CASE Opening = <<>> BY <1>3, <1>4 DEF CountInv, OuterFetch
<1>5. CASE Opening # <<>> /\ Len(Opening) = 1 /\ Opening[1].old = 0
  <2>1. Top'.old = 0 BY <1>5 DEF Top
  <2> QED BY <1>2, <1>3, <2>1, NothingDeleted DEF CountInv, Counted
<1> QED BY <1>1, <1>4, <1>5

LEMMA InitCount == Init => CountInv
<1> SUFFICES ASSUME Init PROVE CountInv OBVIOUS
<1>1. ServerTypes BY InitBasic DEF BasicInv
<1>2. stack = Opening /\ view = <<>> /\ ctx = [changed |-> 0, deleted |-> 0, vcount |-> 0] BY DEF Init
<1>3. \/ Opening = <<>>
      \/ /\ Opening # <<>> /\ Len(Opening) = 1 /\ Opening[1].old = 0
  BY <1>1, OpeningIs
<1>4. ctx.deleted = 0 /\ ctx.vcount = 0 BY <1>2
<1>5. Counted(view) BY <1>2, <1>4, NothingDeleted DEF Counted
<1>6. CASE Opening = <<>> BY <1>2, <1>5, <1>6 DEF CountInv, OuterFetch
<1>7. CASE Opening # <<>> /\ Len(Opening) = 1 /\ Opening[1].old = 0
  <2>1. Top.old = 0 BY <1>2, <1>7 DEF Top
  <2> QED BY <1>2, <1>4, <1>5, <2>1, NothingDeleted DEF CountInv, Counted
<1> QED BY <1>3, <1>6, <1>7

LEMMA CountStep ==
  ASSUME BasicInv, CountInv, [Next]_vars
  PROVE  CountInv'
<1>1. StackTypes /\ NestInv /\ ServerTypes /\ ViewTypes BY DEF BasicInv
<1>2. CASE UNCHANGED <<told, view, ctx, reopen, newCount, stack, gap, job>>
  BY <1>2 DEF CountInv, Counted, OuterFetch, NoFetch, Top
<1>3. CASE Exists \/ (\E u \in Uids : Expunge(u) \/ FetchFlags(u))
  BY <1>3, ExistsCount, ExpungeCount, FetchFlagsCount
<1>4. CASE (\E b \in BOOLEAN : Tagged(b)) \/ CheckFinish BY <1>4, Finishes, FinishCount
<1>5. CASE Reopen BY <1>1, <1>5, OpeningCount DEF Reopen
<1>6. ASSUME NEW b \in BOOLEAN, Lose(b) PROVE CountInv'
  <2>1. CASE job'.op = "closed" BY <2>1 DEF CountInv
  <2> QED BY <1>5, <1>6, <2>1, LoseMail
<1>7. NumDeleted(view) \in Nat /\ NumDeleted(view') \in Nat
  <2>1. ViewTypes' BY BasicStep DEF BasicInv
  <2> QED BY <1>1, <2>1, NumTypes DEF ViewTypes
<1>8. ctx.deleted \in Int BY DEF BasicInv, ClientTypes
<1>9. CASE Execute
  <2>1. UNCHANGED <<told, view, ctx, reopen, newCount, gap, job>>
    BY <1>9 DEF Execute, session, client, history
  <2>2. Quiet BY <1>9, <2>1, ExecuteTop DEF Quiet, SameMessages
  <2>3. ctx'.deleted = ctx.deleted + NumDeleted(view') - NumDeleted(view) BY <1>7, <1>8, <2>1
  <2> QED BY <1>1, <1>7, <1>8, <2>1, <2>2, <2>3, QuietCount
<1>10. CASE FetchHeader \/ ReadNext BY <1>10, FetchHeaderCount, ReadNextCount
<1>11. CASE \/ \E i \in DOMAIN view, f \in Flags : Toggle(i, f)
            \/ \E i \in DOMAIN view : FetchMessage(i) \/ SyncMessage(i)
            \/ Check \/ \E b \in BOOLEAN : StartSync(b) \/ StartClose(b) \/ Return(b)
            \/ CloseUnchanged \/ CheckResult \/ SyncDelete \/ SyncExpunge
  <2>1. Quiet /\ CountFollows BY <1>11, JobsQuiet, JobsCount
  <2> QED BY <1>1, <1>7, <1>8, <2>1, QuietCount DEF CountFollows
<1> QED BY <1>2, <1>3, <1>4, <1>5, <1>6, <1>9, <1>10, <1>11, StepCases

LEMMA CountAlways == Spec => [](BasicInv /\ CountInv)
<1>1. Init => BasicInv /\ CountInv BY InitBasic, InitCount
<1>2. (BasicInv /\ CountInv) /\ [Next]_vars => (BasicInv /\ CountInv)' BY BasicStep, CountStep
<1> QED BY <1>1, <1>2, PTL DEF Spec

(* The counters agree with the headers when nothing is going on              *)
(* (mx_update_context() adds what has been read, mx_update_tables() counts   *)
(* anew), unless new mail was announced at the end of a FETCH of headers or  *)
(* that FETCH failed.                                                        *)
THEOREM ImapCountsRight == Spec => []CountsRight
<1>1. ASSUME BasicInv, CountInv PROVE CountsRight
  <2>1. job.op = "idle" => NoFetch
    <3>1. job.op = "idle" => stack = <<>> BY <1>1 DEF BasicInv, JobInv
    <3> QED BY <1>1, <3>1, NotFetching DEF BasicInv
  <2> QED BY <1>1, <2>1 DEF CountInv, Counted, CountsRight
<1> QED BY <1>1, CountAlways, PTL

-----------------------------------------------------------------------------
(* What a response of the server may do to headers, and what reading more    *)
(* headers does: those there are stay what they are, but for flags and       *)
(* numbers, and new ones are active and unchanged.  The outermost command    *)
(* goes on.                                                                  *)
Advances ==
  /\ DOMAIN view \subseteq DOMAIN view'
  /\ \A i \in DOMAIN view :
       /\ view'[i].uid = view[i].uid /\ view'[i].active = view[i].active
       /\ view'[i].changed = view[i].changed
       /\ view[i].changed \/ (~view[i].active /\ ~Sent("UID FETCH")) => view'[i].flags = view[i].flags
  /\ \A i \in DOMAIN view' : i \notin DOMAIN view => view'[i].active /\ ~view'[i].changed
OuterStays ==
  /\ stack' # <<>> => /\ stack # <<>> /\ stack'[1].op = stack[1].op
                      /\ stack'[1].uids = stack[1].uids
  /\ stack # <<>> /\ stack[1].op # "FETCH" => stack' # <<>> /\ stack'[1].stage = stack[1].stage
Responds ==
  /\ Advances
  /\ \/ stack' = <<>> /\ job'.op = "closed" /\ job'.phase = "-"
     \/ OuterStays /\ (job' = job \/ (job.op = "open" /\ job'.phase = "-"))
  /\ \A g \in {"hole", "skip"} : g \notin gap' => g \notin gap
  /\ UNCHANGED <<mail, flags, uidnext, wanted, swept, marked>> /\ off \subseteq off'

LEMMA ReplaceOuter ==
  ASSUME StackTypes, stack # <<>>, Top.op = "FETCH",
         NEW f \in Frame, f.op = "FETCH", f.uids = Top.uids, stack' = Replace(f)
  PROVE  OuterStays
<1>1. /\ Len(stack) \in Nat \ {0} /\ 1 \in DOMAIN stack /\ DOMAIN stack = 1..Len(stack)
      /\ Top = stack[Len(stack)]
  BY TopIs
<1>2. /\ stack' # <<>> /\ stack'[Len(stack)] = f
      /\ \A i \in DOMAIN stack : i # Len(stack) => stack'[i] = stack[i]
  BY ReplaceIs
<1>3. CASE Len(stack) = 1 BY <1>1, <1>2, <1>3 DEF OuterStays
<1>4. CASE Len(stack) # 1 BY <1>1, <1>2, <1>4 DEF OuterStays
<1> QED BY <1>3, <1>4

LEMMA NestedOuter ==
  ASSUME StackTypes, stack # <<>>, Top.op = "FETCH", NEW ok \in BOOLEAN, stack' = Nested(ok)
  PROVE  OuterStays
<1>1. /\ Len(stack) \in Nat \ {0} /\ DOMAIN stack = 1..Len(stack) /\ Top = stack[Len(stack)]
  BY TopIs
<1>2. /\ stack' \in Seq(Frame) /\ Len(stack') = Len(stack) - 1
      /\ DOMAIN stack' = 1..(Len(stack) - 1)
      /\ \A i \in DOMAIN stack' : /\ stack'[i].op = stack[i].op /\ stack'[i].uids = stack[i].uids
                                  /\ stack'[i].stage = stack[i].stage
  BY NestedIs
<1>3. stack' # <<>> => 1 \in DOMAIN stack' /\ Len(stack') # 0 BY <1>1, <1>2, SeqHas
<1>4. stack[1].op # "FETCH" => Len(stack) # 1 BY <1>1
<1>5. Len(stack) # 1 => Len(stack') # 0 BY <1>1, <1>2
<1>6. Len(stack') # 0 => stack' # <<>> BY <1>2, SeqHas
<1> QED BY <1>2, <1>3, <1>4, <1>5, <1>6 DEF OuterStays

LEMMA GiveUpOuter ==
  ASSUME StackTypes, stack # <<>>, Top.op = "FETCH", GiveUp
  PROVE  /\ OuterStays /\ (job' = job \/ (job.op = "open" /\ job'.phase = "-"))
         /\ \A g \in {"hole", "skip"} : g \notin gap' => g \notin gap
<1>1. stack' = Nested(FALSE) /\ gap' = gap \cup {"mail", "count"}
      /\ job' = IF job.op = "open" THEN Job("closed", "-") ELSE job
  BY DEF GiveUp
<1>2. OuterStays BY <1>1, NestedOuter
<1>3. Job("closed", "-").phase = "-" BY JobIs
<1> QED BY <1>1, <1>2, <1>3

(* Headers that stay as they are. *)
LEMMA SameAdvances ==
  ASSUME view' = view
  PROVE  Advances
  BY DEF Advances

LEMMA ExistsResponds ==
  ASSUME BasicInv, Exists
  PROVE  Responds
<1>1. \/ stack' = <<>> /\ job' = Job("closed", "-")
      \/ UNCHANGED <<stack, job>>
  BY DEF Exists
<1>2. view' = view /\ UNCHANGED <<mail, flags, uidnext, gap, off, wanted, swept, marked>>
  BY DEF Exists, server, history
<1>3. Job("closed", "-").phase = "-" /\ Job("closed", "-").op = "closed" BY JobIs
<1>4. Advances BY <1>2, SameAdvances
<1>5. UNCHANGED <<stack, job>> => OuterStays BY DEF OuterStays
<1> QED BY <1>1, <1>2, <1>3, <1>4, <1>5 DEF Responds

LEMMA ExpungeResponds ==
  ASSUME BasicInv, NEW u \in Uids, Expunge(u)
  PROVE  Responds
<1>1. ToldTypes /\ ViewTypes BY DEF BasicInv
<1>2. /\ u \in told /\ view' = Renumbered(view, Seqno(u))
      /\ UNCHANGED <<mail, flags, uidnext, stack, job, gap, off, wanted, swept, marked>>
  BY DEF Expunge, server, history
<1>3. /\ DOMAIN view' = DOMAIN view
      /\ \A i \in DOMAIN view :
           /\ view'[i].uid = view[i].uid /\ view'[i].active = view[i].active
           /\ view'[i].flags = view[i].flags /\ view'[i].changed = view[i].changed
  BY <1>1, <1>2, SeqnoBounds, RenumberedIs DEF ViewTypes
<1>4. Advances BY <1>3 DEF Advances
<1>5. OuterStays BY <1>2 DEF OuterStays
<1> QED BY <1>2, <1>4, <1>5 DEF Responds

(* What a FETCH response with flags does to headers: for the first active    *)
(* header with the number, and for the header that is being fetched.         *)
LEMMA FetchFlagsIs ==
  ASSUME BasicInv, NEW u \in Uids, FetchFlags(u)
  PROVE  /\ DOMAIN view' = DOMAIN view
         /\ \A i \in DOMAIN view :
              /\ view'[i].uid = view[i].uid /\ view'[i].idx = view[i].idx
              /\ view'[i].active = view[i].active /\ view'[i].changed = view[i].changed
              /\ Told(i, Seqno(u)) => view'[i].flags = flags[u]
              /\ ~Told(i, Seqno(u)) => view'[i].flags = view[i].flags
         /\ Top.op = "UID FETCH" => Sent("UID FETCH")
         /\ stack # <<>> /\ Top.stage = "running"
<1> DEFINE k == Seqno(u)
           fl == flags[u]
<1>1. ViewTypes /\ StackTypes /\ NestInv /\ PlaceInv /\ ServerTypes BY DEF BasicInv
<1>2. stack # <<>> /\ Top.stage = "running" /\ view' = ParseFetch(k, fl) BY DEF FetchFlags
<1>3. Top.op = "UID FETCH" => Sent("UID FETCH") /\ job.pos \in DOMAIN view
  <2>1. ASSUME Top.op = "UID FETCH" PROVE Top = stack[1] BY <1>1, <1>2, <2>1, OutermostIs
  <2> QED BY <1>1, <1>2, <2>1 DEF PlaceInv, Sent
<1>4. fl \in SUBSET Flags BY <1>1 DEF ServerTypes
<1> HIDE DEF k, fl
<1>5. /\ SameMessages(view, ParseFetch(k, fl))
      /\ DOMAIN ParseFetch(k, fl) = DOMAIN view
      /\ \A i \in DOMAIN view :
              /\ ParseFetch(k, fl)[i].active = view[i].active
              /\ ParseFetch(k, fl)[i].changed = view[i].changed
              /\ Told(i, k) => ParseFetch(k, fl)[i].flags = fl
              /\ ~Told(i, k) => ParseFetch(k, fl)[i].flags = view[i].flags
  BY <1>1, <1>2, <1>3, <1>4, ParseFetchIs
<1> QED BY <1>2, <1>3, <1>5 DEF k, fl, SameMessages

LEMMA FetchFlagsResponds ==
  ASSUME BasicInv, NEW u \in Uids, FetchFlags(u)
  PROVE  Responds
<1>1. StackTypes /\ NestInv BY DEF BasicInv
<1>2. /\ UNCHANGED <<mail, flags, uidnext, wanted, swept, marked>> /\ off' = off \cup Inactive
      /\ stack # <<>>
      /\ (GiveUp /\ Top.op = "FETCH") \/ (Top.op # "FETCH" /\ UNCHANGED <<stack, gap, job>>)
  BY DEF FetchFlags, server
<1>3. Advances
  <2>1. \A i \in DOMAIN view : Told(i, Seqno(u)) =>
          ~view[i].changed /\ (view[i].active \/ Sent("UID FETCH"))
    BY FetchFlagsIs DEF Told, Found
  <2> QED BY <2>1, FetchFlagsIs DEF Advances
<1>4. CASE GiveUp /\ Top.op = "FETCH" BY <1>1, <1>2, <1>3, <1>4, GiveUpOuter DEF Responds
<1>5. CASE Top.op # "FETCH" /\ UNCHANGED <<stack, gap, job>>
  <2>1. OuterStays BY <1>5 DEF OuterStays
  <2> QED BY <1>2, <1>3, <1>5, <2>1 DEF Responds
<1> QED BY <1>2, <1>4, <1>5

LEMMA FetchHeaderResponds ==
  ASSUME BasicInv, FetchHeader
  PROVE  Responds
<1>1. StackTypes /\ ViewTypes BY DEF BasicInv
<1>2. /\ Running("FETCH") /\ UNCHANGED <<mail, flags, uidnext, job, gap, off, wanted, swept, marked>>
      /\ \E e : stack' = Replace([Top EXCEPT !.next = @ + 1, !.end = e]) /\ e \in {newCount, Top.end}
  BY DEF FetchHeader, server, history
<1>3. PICK e : stack' = Replace([Top EXCEPT !.next = @ + 1, !.end = e]) /\ e \in {newCount, Top.end}
  BY <1>2
<1> DEFINE g == [Top EXCEPT !.next = @ + 1, !.end = e]
<1>4. Top \in Frame /\ stack # <<>> /\ Top.op = "FETCH" BY <1>1, <1>2, TopIs DEF Running
<1>5. e \in Nat
  <2>1. newCount \in Nat BY ImapAssumption DEF BasicInv, ClientTypes
  <2>2. Top.end \in Nat BY <1>4 DEF Frame
  <2> QED BY <1>3, <2>1, <2>2
<1>6. g \in Frame /\ g.op = "FETCH" /\ g.uids = Top.uids
  <2>1. Top.next + 1 \in Nat BY <1>4 DEF Frame
  <2> QED BY <1>4, <1>5, <2>1 DEF Frame
<1>7. stack' = Replace(g) BY <1>3
<1> HIDE DEF g
<1>8. OuterStays BY <1>1, <1>4, <1>6, <1>7, ReplaceOuter
<1>9. Advances
  <2>1. PICK u \in told :
           /\ DOMAIN view' = 1..(Len(view) + 1)
           /\ \A i \in DOMAIN view : i \in DOMAIN view' /\ view'[i] = view[i]
           /\ view'[Len(view) + 1] = NewHeader(u, Len(view) + 1)
    BY FetchHeaderIs
  <2>2. NewHeader(u, Len(view) + 1).active /\ ~NewHeader(u, Len(view) + 1).changed BY DEF NewHeader
  <2>3. Len(view) \in Nat /\ DOMAIN view = 1..Len(view) BY <1>1, SeqHas DEF ViewTypes
  <2>4. \A i \in DOMAIN view' : i \notin DOMAIN view => i = Len(view) + 1 BY <2>1, <2>3
  <2> QED BY <2>1, <2>2, <2>4 DEF Advances
<1> QED BY <1>2, <1>8, <1>9 DEF Responds

LEMMA ReadNextResponds ==
  ASSUME BasicInv, ReadNext
  PROVE  Responds
<1>1. StackTypes BY DEF BasicInv
<1>2. /\ stack # <<>> /\ Top.op = "FETCH" /\ view' = view
      /\ UNCHANGED <<mail, flags, uidnext, off, swept, wanted, marked>>
  BY ReadNextCases
<1>3. Advances BY <1>2, SameAdvances
<1>4. Top \in Frame BY <1>1, <1>2, TopIs
<1>5. CASE GiveUp BY <1>1, <1>2, <1>3, <1>5, GiveUpOuter DEF Responds
<1>6. CASE Top.ok /\ ReadsMore(Top)
  <2> DEFINE g == [Top EXCEPT !.stage = "running", !.next = MsgNo(Top), !.last = ReadEnd(Top), !.end = ReadEnd(Top)]
  <2>1. ReadEnd(Top) \in Nat /\ MsgNo(Top) \in Nat BY <1>2, <1>6, ReadEndIs
  <2>2. g \in Frame /\ g.uids = Top.uids /\ g.op = "FETCH" BY <1>2, <1>4, <2>1 DEF Frame
  <2>3. stack' = Replace(g) /\ UNCHANGED <<gap, job>> BY <1>6 DEF ReadsMore
  <2> HIDE DEF g
  <2>4. OuterStays BY <1>1, <1>2, <2>2, <2>3, ReplaceOuter
  <2> QED BY <1>2, <1>3, <2>3, <2>4 DEF Responds
<1>7. CASE Top.ok /\ HasRead(Top)
  <2>1. stack' = Nested(TRUE) /\ job' = IF job.op = "open" THEN Job("idle", "-") ELSE job
    BY <1>7 DEF HasRead
  <2>2. \A g \in {"hole", "skip"} : g \notin gap' => g \notin gap BY <1>7 DEF HasRead
  <2>3. Job("idle", "-").phase = "-" BY JobIs
  <2>4. OuterStays BY <1>1, <1>2, <2>1, NestedOuter
  <2> QED BY <1>2, <1>3, <2>1, <2>2, <2>3, <2>4 DEF Responds
<1> QED BY <1>5, <1>6, <1>7, ReadNextCases

LEMMA Responses ==
  ASSUME BasicInv,
         Exists \/ (\E u \in Uids : Expunge(u) \/ FetchFlags(u)) \/ FetchHeader \/ ReadNext
  PROVE  Responds
  BY ExistsResponds, ExpungeResponds, FetchFlagsResponds, FetchHeaderResponds, ReadNextResponds

(* What the end of a command does: the headers stay, or those of expunged    *)
(* messages are dropped, and with them the inactive ones, which is a hole if *)
(* their messages are still there.                                           *)
Ends ==
  /\ \/ view' = view
     \/ /\ \A k \in DOMAIN view' : view'[k].active /\ \E i \in DOMAIN view : view'[k] = view[i]
        /\ "skip" \notin gap' => job.phase # "flags"
  /\ "hole" \notin gap' =>
       \A i \in DOMAIN view : view[i].idx # 0 => \E k \in DOMAIN view' : view'[k] = view[i]
  /\ \A g \in {"hole", "skip"} : g \notin gap' => g \notin gap
  /\ stack # <<>> => /\ stack' # <<>> /\ stack'[1].op = stack[1].op
                     /\ stack'[1].uids = stack[1].uids /\ stack'[1].stage = "done"
  /\ stack = <<>> /\ stack' # <<>> => stack'[1].op = "FETCH" /\ stack'[1].uids = {}

LEMMA FinishEnds ==
  ASSUME BasicInv, NEW stk, Ended(stk), Finish(stk)
  PROVE  Ends
<1>1. ViewTypes /\ StackTypes BY DEF BasicInv
<1>2. stk \in Seq(Frame) /\ Len(stk) \in Nat /\ DOMAIN stk = 1..Len(stk) /\ (stk = <<>> <=> Len(stk) = 0)
  BY SeqHas DEF Ended
<1>3. (stk = <<>> <=> stack = <<>>) /\ (stk # <<>> => 1 \in DOMAIN stk)
  BY <1>1, <1>2, SeqHas DEF StackTypes, Ended
<1>4. stk # <<>> => stk[1].op = stack[1].op /\ stk[1].uids = stack[1].uids /\ stk[1].stage = "done"
  BY <1>3 DEF Ended
<1>5. \A i \in DOMAIN view : \E k \in DOMAIN view : view[k] = view[i] OBVIOUS
<1>6. CASE Settles(stk) BY <1>3, <1>4, <1>5, <1>6 DEF Settles, client, Ends
<1>7. CASE ReadsAgain(stk)
  <2> DEFINE g == ReadHeaders(Len(view) + 1, newCount)
  <2>1. stack' = Append(stk, g) /\ UNCHANGED <<view, gap>> BY <1>7 DEF ReadsAgain
  <2>2. newCount \in Nat BY ImapAssumption DEF BasicInv, ClientTypes
  <2>3. Len(view) + 1 \in Nat \ {0} BY <1>1, SeqHas DEF ViewTypes
  <2>4. g \in Frame /\ g.op = "FETCH" BY <2>2, <2>3, ReadHeadersIs
  <2>5. g.uids = {} BY DEF ReadHeaders, Command
  <2> HIDE DEF g
  <2>6. /\ stack' # <<>> /\ stack'[Len(stk) + 1] = g
        /\ \A i \in DOMAIN stk : stack'[i] = stk[i]
    BY <1>2, <2>1, <2>4, AppendIs
  <2>7. stk = <<>> => stack'[1] = g BY <1>2, <2>6
  <2> QED BY <1>3, <1>4, <1>5, <2>1, <2>4, <2>5, <2>6, <2>7 DEF Ends
<1>8. CASE Compacts(stk)
  <2>1. /\ stack' = stk /\ view' = Expunged(view)
        /\ "hole" \notin gap' => "hole" \notin gap /\ \A i \in DOMAIN view : view[i].active \/ view[i].idx = 0
        /\ "skip" \notin gap' => "skip" \notin gap /\ job.phase # "flags"
    BY <1>8 DEF Compacts
  <2>2. /\ \A k \in DOMAIN view' : \E i \in DOMAIN view : Stays(view[i]) /\ view'[k] = view[i]
        /\ \A i \in DOMAIN view : Stays(view[i]) => \E k \in DOMAIN view' : view'[k] = view[i]
    BY <1>1, <2>1, ExpungedIs DEF ViewTypes
  <2>3. "hole" \notin gap' => \A i \in DOMAIN view : view[i].idx # 0 => Stays(view[i])
    BY <2>1 DEF Stays
  <2>4. \A k \in DOMAIN view' : view'[k].active /\ \E i \in DOMAIN view : view'[k] = view[i]
    BY <2>2 DEF Stays
  <2> QED BY <1>3, <1>4, <2>1, <2>2, <2>3, <2>4 DEF Ends
<1> QED BY <1>6, <1>7, <1>8, FinishCases

LEMMA TaggedEnds ==
  ASSUME BasicInv, NEW ok \in BOOLEAN, Tagged(ok)
  PROVE  Ends /\ job' = job /\ UNCHANGED <<mail, uidnext, told, swept, wanted>> /\ stack # <<>>
<1>1. StackTypes /\ NestInv BY DEF BasicInv
<1> DEFINE stk == Replace([Top EXCEPT !.stage = "done", !.ok = ok])
<1>2. stack # <<>> /\ (Top.stage = "running" \/ Top.stage = "sent")
      /\ Finish(stk) /\ UNCHANGED <<job, mail, uidnext, told, swept, wanted>>
  BY DEF Tagged
<1>3. Top.op = "FETCH" => Top.stage = "running" BY <1>1, <1>2, TopIs DEF NestInv
<1>4. Ended(stk) BY <1>1, <1>2, <1>3, EndedIs
<1> QED BY <1>2, <1>4, FinishEnds

LEMMA CheckFinishEnds ==
  ASSUME BasicInv, CheckFinish
  PROVE  /\ Ends /\ stack = <<>> /\ job.phase = "checked" /\ job'.phase = "result" /\ job'.op = job.op
         /\ UNCHANGED <<mail, uidnext, told, flags, toldFlags, off, swept, wanted, marked>>
<1>1. StackTypes BY DEF BasicInv
<1>2. /\ stack = <<>> /\ Finish(<<>>) /\ job.phase = "checked" /\ job' = [job EXCEPT !.phase = "result"]
      /\ UNCHANGED <<mail, uidnext, told, flags, toldFlags, off, swept, wanted, marked>>
  BY DEF CheckFinish, server, session
<1>3. job'.phase = "result" /\ job'.op = job.op BY <1>1, <1>2 DEF StackTypes, Jobs
<1>4. Ended(<<>>)
  <2>1. DOMAIN stack = {} /\ stack \in Seq(Frame) BY <1>1, <1>2 DEF StackTypes
  <2> QED BY <1>2, <2>1 DEF Ended
<1> QED BY <1>2, <1>3, <1>4, FinishEnds

(* Where jobs begin anew. *)
LEMMA ReopenIs ==
  ASSUME BasicInv, Reopen, UNCHANGED server
  PROVE  /\ view' = <<>> /\ DOMAIN view' = {} /\ job'.phase = "-" /\ UNCHANGED <<mail, flags, uidnext>>
         /\ \/ stack' = <<>>
            \/ /\ stack' # <<>> /\ Len(stack') = 1 /\ stack'[1].op = "FETCH"
               /\ stack'[1].stage = "running" /\ stack'[1].uids = {}
         /\ \A u \in mail : "deleted" \in flags[u] => u \in wanted'
         /\ off' = {} /\ swept' = {} /\ told' = mail /\ toldFlags' = flags
<1>1. ServerTypes BY DEF BasicInv
<1>2. /\ view' = <<>> /\ stack' = Opening /\ job' = OpenJob /\ UNCHANGED <<mail, flags, uidnext>>
      /\ wanted' = {u \in mail : "deleted" \in flags[u]}
      /\ off' = {} /\ swept' = {} /\ told' = mail /\ toldFlags' = flags
  BY DEF Reopen, server
<1>3. DOMAIN view' = {} BY <1>2
<1>4. mail # {} => Opening[1].uids = {} BY DEF Opening, ReadHeaders, Command
<1> QED BY <1>1, <1>2, <1>3, <1>4, OpeningIs

LEMMA LoseIs ==
  ASSUME BasicInv, NEW b \in BOOLEAN, Lose(b)
  PROVE  \/ Reopen /\ UNCHANGED server
         \/ /\ stack' = <<>> /\ job'.op = "closed" /\ job'.phase = "-" /\ view' = view
            /\ UNCHANGED <<mail, flags, uidnext, told, toldFlags, gap, off, swept, wanted, marked>>
<1>1. Job("closed", "-").phase = "-" /\ Job("closed", "-").op = "closed" BY JobIs
<1> QED BY <1>1 DEF Lose, server, session, client, history

-----------------------------------------------------------------------------
(* A sync saves all that has been changed.  Behind the place it has come to  *)
(* there is no active header left that is changed, unless headers have been  *)
(* dropped and so moved (gap "skip").                                        *)
Unsaved(i) == view[i].active /\ view[i].changed
SaveInv ==
  "skip" \notin gap =>
    /\ job.phase = "flags" => \A i \in DOMAIN view : i < job.pos => ~Unsaved(i)
    /\ Sent("STORE") => job.pos \in DOMAIN view /\ ~view[job.pos].changed
    /\ job.phase = "expunge" => \A i \in DOMAIN view : ~Unsaved(i)

LEMMA OtherPhase ==
  ASSUME BasicInv', job'.phase \notin {"flags", "expunge"}
  PROVE  SaveInv'
<1>1. ~Sent("STORE")' BY DEF BasicInv, JobInv
<1> QED BY <1>1 DEF SaveInv

LEMMA RespondsSave ==
  ASSUME BasicInv', SaveInv, Responds
  PROVE  SaveInv'
<1>1. CASE job'.phase = "-" BY <1>1, OtherPhase
<1>2. CASE OuterStays /\ job' = job
  <2>1. /\ DOMAIN view \subseteq DOMAIN view'
        /\ \A i \in DOMAIN view : (Unsaved(i)' <=> Unsaved(i)) /\ view'[i].changed = view[i].changed
        /\ \A i \in DOMAIN view' : i \notin DOMAIN view => ~Unsaved(i)'
    BY DEF Responds, Advances, Unsaved
  <2>2. Sent("STORE")' => Sent("STORE") BY <1>2 DEF OuterStays, Sent
  <2>3. "skip" \notin gap' => "skip" \notin gap BY DEF Responds
  <2> QED BY <1>2, <2>1, <2>2, <2>3 DEF SaveInv
<1> QED BY <1>1, <1>2 DEF Responds

LEMMA EndsSave ==
  ASSUME BasicInv', SaveInv, Ends, job' = job, stack # <<>>
  PROVE  SaveInv'
<1>1. "skip" \notin gap' => "skip" \notin gap BY DEF Ends
<1>2. Sent("STORE")' => Sent("STORE") BY DEF Ends, Sent
<1>3. CASE view' = view BY <1>1, <1>2, <1>3 DEF SaveInv, Unsaved
<1>4. CASE /\ \A k \in DOMAIN view' : view'[k].active /\ \E i \in DOMAIN view : view'[k] = view[i]
           /\ "skip" \notin gap' => job.phase # "flags"
  <2>1. CASE "skip" \in gap' BY <2>1 DEF SaveInv
  <2>2. CASE "skip" \notin gap'
    <3>1. job'.phase # "flags" /\ ~Sent("STORE")' BY <1>4, <2>2 DEF BasicInv, JobInv
    <3>2. job.phase = "expunge" => \A k \in DOMAIN view' : ~Unsaved(k)'
      BY <1>1, <1>4, <2>2 DEF SaveInv, Unsaved
    <3> QED BY <3>1, <3>2 DEF SaveInv
  <2> QED BY <2>1, <2>2
<1> QED BY <1>3, <1>4 DEF Ends

(* A set of numbers has a least one. *)
LEMMA LeastNat ==
  ASSUME NEW T \in SUBSET Nat, T # {}
  PROVE  \E x \in T : \A y \in T : x <= y
<1> DEFINE R == {p \in Nat \X Nat : p[1] < p[2]}
<1>1. IsWellFoundedOn(R, Nat) BY NatLessThanWellFounded, Zenon DEF OpToRel
<1>2. PICK x \in T : \A y \in T : ~(<<y, x>> \in R) BY <1>1, WFMin, Zenon
<1>3. \A y \in T : ~(y < x) BY <1>2
<1> QED BY <1>3

(* Where no header is left to be saved. *)
LEMMA NoneLeft ==
  ASSUME ViewTypes, job.pos \in Nat, NextChanged = {}
  PROVE  \A i \in DOMAIN view : Unsaved(i) => i < job.pos
<1>1. DOMAIN view = 1..Len(view) /\ Len(view) \in Nat BY SeqHas DEF ViewTypes
<1> DEFINE T == {i \in job.pos..Len(view) : Unsaved(i)}
<1>2. T = {}
  <2> SUFFICES ASSUME T # {} PROVE FALSE OBVIOUS
  <2>1. T \in SUBSET Nat BY <1>1
  <2> HIDE DEF T
  <2>2. PICK x \in T : \A y \in T : x <= y BY <2>1, LeastNat
  <2>3. x \in job.pos..Len(view) /\ Unsaved(x) BY <2>2 DEF T
  <2>4. \A k \in job.pos..(x - 1) : ~Unsaved(k)
    <3> SUFFICES ASSUME NEW k \in job.pos..(x - 1), Unsaved(k) PROVE FALSE OBVIOUS
    <3>1. k \in job.pos..Len(view) /\ ~(x <= k) BY <1>1, <2>3
    <3> QED BY <2>2, <3>1 DEF T
  <2>5. x \in NextChanged BY <2>3, <2>4 DEF NextChanged, Unsaved
  <2> QED BY <2>5
<1>3. ASSUME NEW i \in DOMAIN view, Unsaved(i), ~(i < job.pos) PROVE FALSE
  <2>1. i \in job.pos..Len(view) BY <1>1, <1>3
  <2> QED BY <1>2, <1>3, <2>1
<1> QED BY <1>3

LEMMA SyncMessageSave ==
  ASSUME BasicInv, SaveInv, NEW i \in DOMAIN view, SyncMessage(i)
  PROVE  SaveInv'
<1>1. ViewTypes /\ StackTypes BY DEF BasicInv
<1>2. /\ job.phase = "flags" /\ i \in NextChanged /\ job' = [job EXCEPT !.pos = i] /\ gap' = gap
      /\ view' = [view EXCEPT ![i].changed = FALSE, ![i].active = FALSE]
  BY DEF SyncMessage, history
<1> DEFINE g == [view[i] EXCEPT !.changed = FALSE, !.active = FALSE]
<1>3. view[i] \in Header /\ DOMAIN view = 1..Len(view) /\ Len(view) \in Nat BY <1>1, SeqHas DEF ViewTypes
<1>4. g \in Header /\ ~g.changed BY <1>3 DEF Header
<1>5. view' = [view EXCEPT ![i] = g] BY <1>2
<1> HIDE DEF g
<1>6. /\ DOMAIN view' = DOMAIN view /\ view'[i] = g
      /\ \A j \in DOMAIN view : j # i => view'[j] = view[j]
  BY <1>1, <1>4, <1>5, HeaderChanged DEF ViewTypes
<1>7. job'.phase = "flags" /\ job'.pos = i /\ job.pos \in Nat BY <1>1, <1>2 DEF StackTypes, Jobs
<1>8. "skip" \notin gap => \A j \in DOMAIN view : j < i => ~Unsaved(j)
  <2>1. \A k \in job.pos..(i - 1) : ~Unsaved(k) BY <1>2 DEF NextChanged, Unsaved
  <2>2. \A j \in DOMAIN view : j < i => j < job.pos \/ j \in job.pos..(i - 1) BY <1>3, <1>7
  <2> QED BY <1>2, <2>1, <2>2 DEF SaveInv
<1>9. "skip" \notin gap => \A j \in DOMAIN view' : j < i => ~Unsaved(j)'
  BY <1>3, <1>6, <1>8 DEF Unsaved
<1> QED BY <1>2, <1>4, <1>6, <1>7, <1>9 DEF SaveInv

LEMMA SyncExpungeSave ==
  ASSUME BasicInv, BasicInv', SaveInv, SyncExpunge
  PROVE  SaveInv'
<1>1. ViewTypes /\ StackTypes BY DEF BasicInv
<1>2. job.phase = "flags" /\ NextChanged = {} /\ UNCHANGED <<view, gap>>
  BY DEF SyncExpunge, history
<1>3. job.pos \in Nat BY <1>1 DEF StackTypes, Jobs
<1>4. "skip" \notin gap => \A i \in DOMAIN view : ~Unsaved(i) BY <1>1, <1>2, <1>3, NoneLeft DEF SaveInv
<1>5. \/ Idle
      \/ job' = Job("closed", "-")
      \/ job' = [job EXCEPT !.phase = "expunge"]
  BY DEF SyncExpunge
<1>6. Job("idle", "-").phase = "-" /\ Job("closed", "-").phase = "-" BY JobIs
<1>7. CASE Idle \/ job' = Job("closed", "-") BY <1>6, <1>7, OtherPhase DEF Idle
<1>8. CASE job' = [job EXCEPT !.phase = "expunge"]
  <2>1. job'.phase = "expunge" BY <1>1, <1>8 DEF StackTypes, Jobs
  <2>2. ~Sent("STORE")' BY <2>1 DEF BasicInv, JobInv
  <2> QED BY <1>2, <1>4, <2>1, <2>2 DEF SaveInv, Unsaved
<1> QED BY <1>5, <1>7, <1>8

LEMMA ReturnSave ==
  ASSUME BasicInv, BasicInv', SaveInv, NEW b \in BOOLEAN, Return(b)
  PROVE  SaveInv'
<1>1. ViewTypes /\ StackTypes /\ JobInv BY DEF BasicInv
<1>2. stack # <<>> /\ stack' = <<>> /\ gap' = gap /\ Returned(b) BY ReturnCases
<1>3. ~Sent("STORE")' BY <1>2 DEF Sent
<1>4. Job("idle", "-").phase = "-" /\ Job("closed", "-").phase = "-" BY JobIs
<1>5. DOMAIN view = 1..Len(view) BY <1>1, SeqHas DEF ViewTypes
<1>6. CASE stack[1].op \in {"NOOP", "UID FETCH", "EXPUNGE", "CLOSE"}
  <2>1. Idle \/ job' = Job("closed", "-") \/ job' = [job EXCEPT !.phase = "checked"]
    BY <1>2, <1>6 DEF Returned
  <2>2. job'.phase \notin {"flags", "expunge"} BY <1>1, <1>4, <2>1 DEF Idle, StackTypes, Jobs
  <2> QED BY <2>2, OtherPhase
<1>7. CASE Idle BY <1>4, <1>7, OtherPhase DEF Idle
<1>8. CASE stack[1].op = "STORE deleted" /\ ~Idle
  <2>1. job' = [job EXCEPT !.phase = "flags", !.pos = 1] BY <1>2, <1>8 DEF Returned
  <2>2. job'.phase = "flags" /\ job'.pos = 1 /\ view' = view
    BY <1>1, <1>2, <1>8, <2>1 DEF Returned, StackTypes, Jobs
  <2>3. \A i \in DOMAIN view : ~(i < 1) BY <1>5
  <2> QED BY <1>3, <2>2, <2>3 DEF SaveInv
<1>9. CASE stack[1].op = "STORE" /\ ~Idle
  <2>1. /\ view' = (IF job.pos \in DOMAIN view /\ view[job.pos].uid \in stack[1].uids
                    THEN [view EXCEPT ![job.pos].active = TRUE] ELSE view)
        /\ \E y : job' = [job EXCEPT !.pos = @ + 1, !.go = y]
    BY <1>2, <1>9 DEF Returned
  <2>2. job.phase = "flags" BY <1>1, <1>2, <1>9 DEF JobInv, Sent
  <2>3. job'.phase = "flags" /\ job'.pos = job.pos + 1 /\ job.pos \in Nat
    BY <1>1, <2>1, <2>2 DEF StackTypes, Jobs
  <2>4. ASSUME "skip" \notin gap
        PROVE  \A i \in DOMAIN view' : i < job.pos + 1 => ~Unsaved(i)'
    <3>1. job.pos \in DOMAIN view /\ ~view[job.pos].changed BY <1>2, <1>9, <2>4 DEF SaveInv, Sent
    <3>2. /\ DOMAIN view' = DOMAIN view
          /\ \A i \in DOMAIN view : view'[i].changed = view[i].changed
          /\ \A i \in DOMAIN view : i # job.pos => view'[i] = view[i]
      <4>1. CASE view' = view BY <4>1
      <4>2. CASE view' = [view EXCEPT ![job.pos].active = TRUE]
        BY <1>1, <3>1, <4>2, Reactivated DEF ViewTypes
      <4> QED BY <2>1, <4>1, <4>2
    <3>3. \A i \in DOMAIN view : i < job.pos + 1 => i < job.pos \/ i = job.pos BY <1>5, <2>3
    <3>4. \A i \in DOMAIN view : i < job.pos => ~Unsaved(i) BY <2>2, <2>4 DEF SaveInv
    <3> QED BY <3>1, <3>2, <3>3, <3>4 DEF Unsaved
  <2> QED BY <1>2, <1>3, <2>3, <2>4 DEF SaveInv
<1> QED BY <1>2, <1>6, <1>7, <1>8, <1>9 DEF Returned

LEMMA JobsSave ==
  ASSUME BasicInv, BasicInv', SaveInv,
         \/ \E i \in DOMAIN view, f \in Flags : Toggle(i, f)
         \/ \E i \in DOMAIN view : FetchMessage(i)
         \/ Check \/ \E b \in BOOLEAN : StartSync(b) \/ StartClose(b)
         \/ CloseUnchanged \/ CheckResult \/ SyncDelete
  PROVE  SaveInv'
<1>1. ViewTypes /\ StackTypes /\ JobInv BY DEF BasicInv
<1>2. CASE \E i \in DOMAIN view, f \in Flags : Toggle(i, f)
  <2>1. job.op = "idle" /\ job' = job BY <1>2 DEF Toggle
  <2>2. job'.phase = "-" BY <1>1, <2>1 DEF JobInv
  <2> QED BY <2>2, OtherPhase
<1>3. ASSUME NEW i \in DOMAIN view, FetchMessage(i) PROVE SaveInv'
  <2>1. job' = [Job("fetch", "-") EXCEPT !.pos = i] BY <1>3 DEF FetchMessage
  <2>2. job'.phase = "-" BY <2>1, JobIs DEF Job
  <2> QED BY <2>2, OtherPhase
<1>4. ASSUME NEW b \in BOOLEAN, Check \/ StartSync(b) \/ StartClose(b) PROVE SaveInv'
  <2>1. PICK j \in Jobs : BeginCheck(j) BY <1>4, BeginsCheck
  <2>2. job' = [j EXCEPT !.phase = "noop"] \/ job' = [j EXCEPT !.phase = "checked"]
    BY <2>1 DEF BeginCheck
  <2>3. job'.phase \in {"noop", "checked"} BY <2>2 DEF Jobs
  <2> QED BY <2>3, OtherPhase
<1>5. CASE CloseUnchanged
  <2>1. job'.phase = "-" BY <1>5, JobIs DEF CloseUnchanged
  <2> QED BY <2>1, OtherPhase
<1>6. CASE CheckResult
  <2>1. job' = Job("idle", "-") \/ job' = [job EXCEPT !.phase = "delete"] BY <1>6 DEF CheckResult, Idle
  <2>2. Job("idle", "-").phase = "-" BY JobIs
  <2>3. [job EXCEPT !.phase = "delete"].phase = "delete" BY <1>1 DEF StackTypes, Jobs
  <2> QED BY <2>1, <2>2, <2>3, OtherPhase
<1>7. CASE SyncDelete
  <2>1. job.phase = "delete"
        /\ (job' = job \/ (job' = [job EXCEPT !.phase = "flags", !.pos = 1] /\ UNCHANGED <<view, stack>>))
    BY <1>7, SyncDeleteCases DEF SendsDeletions
  <2>2. CASE job' = job BY <2>1, <2>2, OtherPhase
  <2>3. CASE job' = [job EXCEPT !.phase = "flags", !.pos = 1] /\ UNCHANGED <<view, stack>>
    <3>1. job'.phase = "flags" /\ job'.pos = 1 BY <1>1, <2>3 DEF StackTypes, Jobs
    <3>2. \A i \in DOMAIN view : ~(i < 1) BY <1>1, SeqHas DEF ViewTypes
    <3>3. ~Sent("STORE")'
      <4>1. stack = <<>> BY <1>7, SyncDeleteCases
      <4> QED BY <2>3, <4>1 DEF Sent
    <3> QED BY <2>3, <3>1, <3>2, <3>3 DEF SaveInv
  <2> QED BY <2>1, <2>2, <2>3
<1> QED BY <1>2, <1>3, <1>4, <1>5, <1>6, <1>7

LEMMA ExecuteIs ==
  ASSUME BasicInv, Execute
  PROVE  /\ stack # <<>> /\ Len(stack) = 1 /\ stack[1].op \in {"EXPUNGE", "CLOSE"} /\ stack[1].stage = "sent"
         /\ stack' # <<>> /\ Len(stack') = 1 /\ stack'[1].op = stack[1].op
         /\ stack'[1].uids = stack[1].uids /\ stack'[1].stage = "running"
         /\ mail' = {u \in mail : "deleted" \notin flags[u]}
         /\ UNCHANGED <<view, job, flags, uidnext, told, toldFlags, ctx, reopen, newCount, status>>
         /\ UNCHANGED <<gap, off, swept, wanted, marked>>
<1>1. StackTypes /\ NestInv BY DEF BasicInv
<1>2. /\ stack # <<>> /\ Top.stage = "sent"
      /\ stack' = Replace([Top EXCEPT !.stage = "running"])
      /\ mail' = {u \in mail : "deleted" \notin flags[u]}
      /\ UNCHANGED <<view, job, flags, uidnext, told, toldFlags, ctx, reopen, newCount, status>>
      /\ UNCHANGED <<gap, off, swept, wanted, marked>>
  BY DEF Execute, session, client, history
<1>3. Top.op \in {"EXPUNGE", "CLOSE"} /\ Top \in Frame BY <1>1, <1>2, TopIs DEF NestInv
<1>4. Len(stack) = 1 /\ Top = stack[1] BY <1>1, <1>2, <1>3, OutermostIs
<1> DEFINE g == [Top EXCEPT !.stage = "running"]
<1>5. g \in Frame /\ g.op = Top.op /\ g.uids = Top.uids /\ g.stage = "running" BY <1>3 DEF Frame
<1>6. stack' = Replace(g) BY <1>2
<1> HIDE DEF g
<1>7. stack' # <<>> /\ Len(stack') = 1 /\ stack'[1] = g BY <1>1, <1>2, <1>4, <1>5, <1>6, ReplaceIs
<1> QED BY <1>2, <1>3, <1>4, <1>5, <1>7

LEMMA SaveStep ==
  ASSUME BasicInv, BasicInv', SaveInv, [Next]_vars
  PROVE  SaveInv'
<1>1. CASE UNCHANGED <<told, view, ctx, reopen, newCount, stack, gap, job>>
  BY <1>1 DEF SaveInv, Unsaved, Sent
<1>2. CASE Exists \/ (\E u \in Uids : Expunge(u) \/ FetchFlags(u)) \/ FetchHeader \/ ReadNext
  BY <1>2, Responses, RespondsSave
<1>3. ASSUME NEW b \in BOOLEAN, Tagged(b) PROVE SaveInv' BY <1>3, TaggedEnds, EndsSave
<1>4. CASE CheckFinish BY <1>4, CheckFinishEnds, OtherPhase
<1>5. CASE Reopen /\ UNCHANGED server BY <1>5, ReopenIs, OtherPhase
<1>6. ASSUME NEW b \in BOOLEAN, Lose(b) PROVE SaveInv'
  BY <1>5, <1>6, LoseIs, OtherPhase
<1>7. CASE Execute
  <2>1. /\ UNCHANGED <<view, job, gap>> /\ stack[1].op \in {"EXPUNGE", "CLOSE"}
        /\ stack'[1].op = stack[1].op
    BY <1>7, ExecuteIs
  <2>2. ~Sent("STORE")' BY <2>1 DEF Sent
  <2> QED BY <2>1, <2>2 DEF SaveInv, Unsaved
<1>8. ASSUME NEW b \in BOOLEAN, Return(b) PROVE SaveInv' BY <1>8, ReturnSave
<1>9. CASE \E i \in DOMAIN view : SyncMessage(i) BY <1>9, SyncMessageSave
<1>10. CASE SyncExpunge BY <1>10, SyncExpungeSave
<1>11. CASE \/ \E i \in DOMAIN view, f \in Flags : Toggle(i, f)
            \/ \E i \in DOMAIN view : FetchMessage(i)
            \/ Check \/ \E b \in BOOLEAN : StartSync(b) \/ StartClose(b)
            \/ CloseUnchanged \/ CheckResult \/ SyncDelete
  BY <1>11, JobsSave
<1> QED BY <1>1, <1>2, <1>3, <1>4, <1>5, <1>6, <1>7, <1>8, <1>9, <1>10, <1>11, StepCases

LEMMA InitSave ==
  ASSUME Init
  PROVE  SaveInv
<1>1. BasicInv BY InitBasic
<1>2. job = OpenJob BY DEF Init
<1>3. job.phase = "-" BY <1>1, <1>2, OpeningIs DEF BasicInv
<1>4. ~Sent("STORE") BY <1>1, <1>3 DEF BasicInv, JobInv
<1> QED BY <1>1, <1>3, <1>4 DEF SaveInv

LEMMA SaveAlways == Spec => [](BasicInv /\ SaveInv)
<1>1. Init => BasicInv /\ SaveInv BY InitBasic, InitSave
<1>2. (BasicInv /\ SaveInv) /\ [Next]_vars => (BasicInv /\ SaveInv)' BY BasicStep, SaveStep
<1> QED BY <1>1, <1>2, PTL DEF Spec

-----------------------------------------------------------------------------
(* The set of a STORE that marks deletions.  The headers it is made from are *)
(* those of the view, in some order.                                         *)
LEMMA OrdersAre ==
  ASSUME ViewTypes, NEW hdrs \in Orders
  PROVE  /\ Len(hdrs) = Len(view) /\ DOMAIN hdrs = DOMAIN view
         /\ \A k \in DOMAIN view : \E i \in DOMAIN view : hdrs[k] = view[i]
         /\ \A i \in DOMAIN view : \E k \in DOMAIN view : hdrs[k] = view[i]
<1>1. DOMAIN view = 1..Len(view) /\ Len(view) \in Nat BY SeqHas DEF ViewTypes
<1>2. CASE hdrs = view BY <1>2
<1>3. ASSUME NEW p \in Bijection(DOMAIN view, DOMAIN view),
             hdrs = [i \in DOMAIN view |-> view[p[i]]]
      PROVE  /\ Len(hdrs) = Len(view) /\ DOMAIN hdrs = DOMAIN view
             /\ \A k \in DOMAIN view : \E i \in DOMAIN view : hdrs[k] = view[i]
             /\ \A i \in DOMAIN view : \E k \in DOMAIN view : hdrs[k] = view[i]
  <2>1. p \in [DOMAIN view -> DOMAIN view] /\ \A i \in DOMAIN view : \E k \in DOMAIN view : p[k] = i
    BY DEF Bijection, Surjection
  <2>2. hdrs \in [1..Len(view) -> Header]
    <3>1. \A i \in DOMAIN view : p[i] \in DOMAIN view /\ view[p[i]] \in Header
      BY <2>1, SeqHas DEF ViewTypes
    <3> QED BY <1>1, <1>3, <3>1
  <2>3. Len(hdrs) = Len(view) BY <1>1, <2>2, SeqIs
  <2>4. \A k \in DOMAIN view : hdrs[k] = view[p[k]] /\ p[k] \in DOMAIN view BY <1>3, <2>1
  <2> QED BY <1>3, <2>1, <2>3, <2>4
<1> QED BY <1>2, <1>3 DEF Orders

LEMMA HeaderUid ==
  ASSUME ViewTypes
  PROVE  \A i \in DOMAIN view : view[i] \in Header /\ view[i].uid \in Uids /\ view[i].uid \in Int
<1> SUFFICES ASSUME NEW i \in DOMAIN view
             PROVE  view[i] \in Header /\ view[i].uid \in Uids /\ view[i].uid \in Int
  OBVIOUS
<1>1. view[i] \in Header BY SeqHas DEF ViewTypes
<1>2. view[i].uid \in Uids BY <1>1 DEF Header
<1> QED BY <1>1, <1>2, ImapAssumption DEF Uids

(* No UID in the set is greater than that of some header. *)
LEMMA MsgSetBelow ==
  ASSUME ViewTypes, NEW hdrs \in Orders, NEW u \in MsgSet(hdrs)
  PROVE  \E i \in DOMAIN view : u <= view[i].uid
<1>1. DOMAIN view = 1..Len(view) /\ Len(view) \in Nat BY SeqHas DEF ViewTypes
<1>2. /\ Len(hdrs) = Len(view)
      /\ \A k \in DOMAIN view : \E i \in DOMAIN view : hdrs[k] = view[i]
  BY OrdersAre
<1>3. u \in Int BY ImapAssumption, MsgSetIs DEF Uids
<1>4. \E k \in 1..Len(hdrs) : u <= hdrs[k].uid
  <2>1. PICK i \in 1..Len(hdrs) :
          \/ u = hdrs[i].uid
          \/ \E k \in (i + 1)..Len(hdrs) : u \in hdrs[i].uid..RangeEnd(hdrs, k)
          \/ u \in hdrs[i].uid..hdrs[Len(hdrs)].uid \cup hdrs[Len(hdrs)].uid..hdrs[i].uid
    BY DEF MsgSet
  <2>2. CASE u = hdrs[i].uid BY <1>3, <2>2
  <2>3. ASSUME NEW k \in (i + 1)..Len(hdrs), u \in hdrs[i].uid..RangeEnd(hdrs, k)
        PROVE  \E j \in 1..Len(hdrs) : u <= hdrs[j].uid
    <3>1. k - 1 \in 1..Len(hdrs) BY <1>1, <1>2
    <3> QED BY <2>3, <3>1 DEF RangeEnd
  <2>4. CASE u \in hdrs[i].uid..hdrs[Len(hdrs)].uid \cup hdrs[Len(hdrs)].uid..hdrs[i].uid
    <3>1. Len(hdrs) \in 1..Len(hdrs) BY <1>1, <1>2
    <3> QED BY <2>4, <3>1
  <2> QED BY <2>1, <2>2, <2>3, <2>4
<1> QED BY <1>1, <1>2, <1>4

(* With no EXPUNGE pending and no header missing, the order is that of UIDs. *)
LEMMA OrdersAscend ==
  ASSUME ToldTypes, ViewTypes, AgreeInv, "hole" \notin gap, "expunge" \notin reopen,
         NEW hdrs \in Orders, NEW i \in DOMAIN view, NEW j \in DOMAIN view, i < j
  PROVE  hdrs[i].uid < hdrs[j].uid
<1>1. DOMAIN view = 1..Len(view) /\ Len(view) \in Nat BY SeqHas DEF ViewTypes
<1>2. \A a, b \in DOMAIN view : a < b => view[a].uid < view[b].uid BY DEF AgreeInv, OrderInv
<1>3. CASE hdrs = view BY <1>2, <1>3
<1>4. ASSUME NEW p \in Bijection(DOMAIN view, DOMAIN view), Sorted(p),
             hdrs = [k \in DOMAIN view |-> view[p[k]]]
      PROVE  hdrs[i].uid < hdrs[j].uid
  <2>1. p[i] \in DOMAIN view /\ p[j] \in DOMAIN view /\ p[i] # p[j]
    <3>1. i # j BY <1>1
    <3> QED BY <3>1 DEF Bijection, Injection, IsInjective
  <2>2. hdrs[i] = view[p[i]] /\ hdrs[j] = view[p[j]] BY <1>4
  <2>3. view[p[i]].idx <= view[p[j]].idx BY <1>4 DEF Sorted
  <2>4. \A k \in DOMAIN view : view[k].uid \in told /\ view[k].idx = Rank(told, view[k].uid)
    BY DEF AgreeInv, NumbersInv, Seqno
  <2>5. told \in SUBSET (1..MaxUid) /\ MaxUid \in Nat BY ToldCount, ImapAssumption
  <2> DEFINE x == view[p[i]].uid
             y == view[p[j]].uid
  <2>6. x \in told /\ y \in told /\ Rank(told, x) <= Rank(told, y) BY <2>1, <2>3, <2>4
  <2>10. x \in Int /\ y \in Int BY <2>1, HeaderUid
  <2>7. x # y
    <3>1. p[i] < p[j] \/ p[j] < p[i] BY <1>1, <2>1
    <3>2. x < y \/ y < x BY <1>2, <2>1, <3>1
    <3> QED BY <2>10, <3>2
  <2> HIDE DEF x, y
  <2>8. ~(y < x)
    <3> SUFFICES ASSUME y < x PROVE FALSE OBVIOUS
    <3>1. Rank(told, y) < Rank(told, x) BY <2>5, <2>6, RankLess
    <3>2. Rank(told, y) \in 1..Cardinality(told) /\ Rank(told, x) \in 1..Cardinality(told)
      BY <2>5, <2>6, RankBounds
    <3> QED BY <2>6, <3>1, <3>2
  <2>9. x < y BY <2>5, <2>6, <2>7, <2>8
  <2> QED BY <2>2, <2>9 DEF x, y
<1> QED BY <1>3, <1>4 DEF Orders

(* The set names then the messages of headers that are deleted and changed,  *)
(* and no other message that is in the mailbox.                              *)
Marks(h) == IsDeleted(h) /\ h.changed
LEMMA MsgSetExact ==
  ASSUME ServerTypes, ToldTypes, ViewTypes, AgreeInv, "hole" \notin gap, "expunge" \notin reopen,
         \A i \in DOMAIN view : view[i].active,
         NEW hdrs \in Orders, NEW u \in MsgSet(hdrs)
  PROVE  /\ \A i \in DOMAIN view : view[i].uid = u => Marks(view[i])
         /\ u \in mail => \E i \in DOMAIN view : view[i].uid = u
<1>1. DOMAIN view = 1..Len(view) /\ Len(view) \in Nat BY SeqHas DEF ViewTypes
<1>2. /\ Len(hdrs) = Len(view) /\ DOMAIN hdrs = DOMAIN view
      /\ \A k \in DOMAIN view : \E i \in DOMAIN view : hdrs[k] = view[i]
      /\ \A i \in DOMAIN view : \E k \in DOMAIN view : hdrs[k] = view[i]
  BY OrdersAre
<1> DEFINE n == Len(hdrs)
<1>3. u \in Int /\ \A k \in 1..n : hdrs[k].uid \in Int /\ hdrs[k].active
  <2>1. \A i \in DOMAIN view : view[i].uid \in Int BY HeaderUid
  <2>2. u \in Int BY MsgSetIs, ImapAssumption DEF Uids
  <2>3. ASSUME NEW k \in 1..n PROVE hdrs[k].uid \in Int /\ hdrs[k].active
    <3>1. k \in DOMAIN view BY <1>1, <1>2, <2>3
    <3>2. PICK i \in DOMAIN view : hdrs[k] = view[i] BY <1>2, <3>1
    <3> QED BY <2>1, <3>2
  <2> QED BY <2>2, <2>3
<1>4. \A a, b \in 1..n : a < b => hdrs[a].uid < hdrs[b].uid BY <1>1, <1>2, OrdersAscend
<1> DEFINE Run(i, e) == \A k \in i..e : Marks(hdrs[k])
<1>5. \E i, e \in 1..n : i <= e /\ Run(i, e) /\ hdrs[i].uid <= u /\ u <= hdrs[e].uid
  <2> DEFINE Matches(i) == hdrs[i].active /\ IsDeleted(hdrs[i]) /\ hdrs[i].changed
             Over(i) == hdrs[i].active /\ ~Matches(i)
  <2>1. PICK i \in 1..n :
          /\ Matches(i)
          /\ \/ u = hdrs[i].uid
             \/ \E k \in (i + 1)..n : /\ \A j \in (i + 1)..(k - 1) : ~Over(j)
                                      /\ u \in hdrs[i].uid..RangeEnd(hdrs, k)
             \/ /\ \A k \in (i + 1)..n : ~Over(k)
                /\ u \in hdrs[i].uid..hdrs[n].uid \cup hdrs[n].uid..hdrs[i].uid
    BY DEF MsgSet
  <2>2. \A k \in 1..n : Marks(hdrs[k]) <=> ~Over(k) BY <1>3 DEF Marks
  <2>3. Marks(hdrs[i]) BY <2>1 DEF Marks
  <2> HIDE DEF Matches, Over
  <2>4. CASE u = hdrs[i].uid
    <3>1. Run(i, i) BY <2>3
    <3> QED BY <1>3, <2>4, <3>1
  <2>5. ASSUME NEW k \in (i + 1)..n, \A j \in (i + 1)..(k - 1) : ~Over(j),
               u \in hdrs[i].uid..RangeEnd(hdrs, k)
        PROVE  \E a, e \in 1..n : a <= e /\ Run(a, e) /\ hdrs[a].uid <= u /\ u <= hdrs[e].uid
    <3>1. k - 1 \in 1..n /\ i <= k - 1 BY <1>1, <1>2
    <3>2. \A j \in i..(k - 1) : j \in 1..n /\ (j = i \/ j \in (i + 1)..(k - 1)) BY <1>1, <1>2
    <3>3. Run(i, k - 1) BY <2>2, <2>3, <2>5, <3>2
    <3>4. hdrs[i].uid <= u /\ u <= hdrs[k - 1].uid BY <2>5 DEF RangeEnd
    <3> HIDE DEF Run
    <3> QED BY <3>1, <3>3, <3>4
  <2>6. CASE /\ \A k \in (i + 1)..n : ~Over(k)
             /\ u \in hdrs[i].uid..hdrs[n].uid \cup hdrs[n].uid..hdrs[i].uid
    <3>1. n \in 1..n /\ i <= n BY <1>1, <1>2
    <3>2. \A j \in i..n : j \in 1..n /\ (j = i \/ j \in (i + 1)..n) BY <1>1, <1>2
    <3>3. Run(i, n) BY <2>2, <2>3, <2>6, <3>2
    <3>4. hdrs[i].uid <= hdrs[n].uid
      <4>1. CASE i = n BY <1>3, <4>1
      <4>2. CASE i < n BY <1>3, <1>4, <3>1, <4>2
      <4> QED BY <3>1, <4>1, <4>2
    <3>5. hdrs[i].uid \in Int /\ hdrs[n].uid \in Int BY <1>3, <3>1
    <3>6. hdrs[i].uid <= u /\ u <= hdrs[n].uid BY <1>3, <2>6, <3>4, <3>5
    <3> HIDE DEF Run
    <3> QED BY <3>1, <3>3, <3>6
  <2> HIDE DEF Run
  <2> QED BY <2>1, <2>4, <2>5, <2>6
<1>6. PICK i \in 1..n, e \in 1..n : i <= e /\ Run(i, e) /\ hdrs[i].uid <= u /\ u <= hdrs[e].uid
  BY <1>5
<1>7. ASSUME NEW m \in DOMAIN view, view[m].uid = u PROVE Marks(view[m])
  <2>1. PICK k \in 1..n : hdrs[k] = view[m] BY <1>1, <1>2
  <2>2. ~(k < i) /\ ~(e < k)
    <3>1. k < i => hdrs[k].uid < hdrs[i].uid BY <1>4
    <3>2. e < k => hdrs[e].uid < hdrs[k].uid BY <1>4
    <3>3. hdrs[k].uid = u /\ hdrs[i].uid \in Int /\ hdrs[e].uid \in Int BY <1>3, <1>7, <2>1
    <3> QED BY <1>3, <1>6, <3>1, <3>2, <3>3
  <2>3. k \in i..e BY <2>2
  <2> QED BY <1>6, <2>1, <2>3
<1>8. ASSUME u \in mail PROVE \E m \in DOMAIN view : view[m].uid = u
  <2>1. PICK m \in DOMAIN view : u <= view[m].uid BY MsgSetBelow
  <2>2. view[m].uid \in Int BY HeaderUid
  <2>3. ~(view[m].uid < u) BY <1>3, <2>1, <2>2
  <2>4. u \in told BY <1>8, <2>3 DEF AgreeInv, ToldInv
  <2>5. u < view[m].uid \/ u = view[m].uid BY <1>3, <2>1, <2>2
  <2> QED BY <2>4, <2>5 DEF AgreeInv, OrderInv
<1> QED BY <1>7, <1>8

-----------------------------------------------------------------------------
(* Every step, by what it does to headers, their flags and the outermost     *)
(* command.                                                                  *)
LEMMA UntouchedIs ==
  ASSUME UNCHANGED vars
  PROVE  /\ UNCHANGED <<mail, flags, uidnext, told, toldFlags, view, ctx, reopen, newCount, status>>
         /\ UNCHANGED <<stack, job, events, gap, off, swept, wanted, marked>>
  BY DEF vars, server, session, client, history

(* Steps that send a command that is not about single messages, or none. *)
Begins ==
  /\ stack = <<>> /\ job.op # "closed" /\ view' = view
  /\ stack' # <<>> => stack'[1].op \in {"NOOP", "EXPUNGE", "CLOSE"} /\ stack'[1].uids = {}
  /\ UNCHANGED <<mail, flags, uidnext, told, toldFlags, gap, off, swept, wanted, marked>>

LEMMA Beginning ==
  ASSUME BasicInv,
         \/ Check \/ \E b \in BOOLEAN : StartSync(b) \/ StartClose(b)
         \/ CloseUnchanged \/ CheckResult \/ SyncExpunge
  PROVE  Begins
<1>1. JobInv BY DEF BasicInv
<1>2. \A op \in {"NOOP", "EXPUNGE", "CLOSE"} :
         <<Command(op, {})>>[1].op = op /\ <<Command(op, {})>>[1].uids = {}
  <2> SUFFICES ASSUME NEW op \in {"NOOP", "EXPUNGE", "CLOSE"}
               PROVE  <<Command(op, {})>>[1].op = op /\ <<Command(op, {})>>[1].uids = {}
    OBVIOUS
  <2>1. op \in Ops \ {"FETCH"} /\ {} \in SUBSET Uids BY DEF Ops
  <2> QED BY <2>1, CommandSent
<1>3. ASSUME NEW b \in BOOLEAN, Check \/ StartSync(b) \/ StartClose(b) PROVE Begins
  <2>1. PICK j \in Jobs : job.op = "idle" /\ BeginCheck(j) BY <1>3, BeginsCheck
  <2>2. stack = <<>> BY <1>1, <2>1 DEF JobInv
  <2> QED BY <1>2, <2>1, <2>2 DEF BeginCheck, Begins, server, session, history
<1>4. CASE CloseUnchanged
  <2>1. stack = <<>> BY <1>1, <1>4 DEF CloseUnchanged, JobInv
  <2> QED BY <1>2, <1>4, <2>1 DEF CloseUnchanged, Begins, server, session, client, history
<1>5. CASE CheckResult
  <2>1. job.op # "closed" BY <1>1, <1>5 DEF CheckResult, JobInv
  <2> QED BY <1>5, <2>1 DEF CheckResult, Begins, server, session, history
<1>6. CASE SyncExpunge
  <2>1. job.op # "closed" BY <1>1, <1>6 DEF SyncExpunge, JobInv
  <2> QED BY <1>2, <1>6, <2>1 DEF SyncExpunge, Begins, server, session, history
<1>7. TRUE \in BOOLEAN OBVIOUS
<1> QED BY <1>3, <1>4, <1>5, <1>6, <1>7

LEMMA StepKinds ==
  ASSUME BasicInv, [Next]_vars
  PROVE  \/ UNCHANGED vars
         \/ Deliver \/ (\E u \in Uids : OtherExpunge(u) \/ \E f \in OtherFlags : OtherStore(u, f))
         \/ Exists \/ (\E u \in Uids : Expunge(u) \/ FetchFlags(u)) \/ FetchHeader \/ ReadNext
         \/ (\E b \in BOOLEAN : Tagged(b)) \/ CheckFinish
         \/ Reopen /\ UNCHANGED server
         \/ \E b \in BOOLEAN : Lose(b)
         \/ Execute
         \/ \E i \in DOMAIN view, f \in Flags : Toggle(i, f)
         \/ (\E i \in DOMAIN view : FetchMessage(i)) \/ (\E i \in DOMAIN view : SyncMessage(i))
         \/ Check \/ \E b \in BOOLEAN : StartSync(b) \/ StartClose(b)
         \/ CloseUnchanged \/ CheckResult \/ SyncExpunge
         \/ \E b \in BOOLEAN : Return(b)
         \/ SyncDelete
<1>1. ExpungeRefused => Reopen /\ UNCHANGED server BY DEF ExpungeRefused
<1>2. Closed => UNCHANGED vars BY DEF Closed
<1> QED BY <1>1, <1>2 DEF Next

(* What is done to one header. *)
LEMMA OneHeader ==
  ASSUME ViewTypes, NEW i \in DOMAIN view, NEW h \in Header, view' = [view EXCEPT ![i] = h]
  PROVE  /\ DOMAIN view' = DOMAIN view /\ view'[i] = h
         /\ \A j \in DOMAIN view : j # i => view'[j] = view[j]
  BY HeaderChanged DEF ViewTypes

LEMMA ToggleIs ==
  ASSUME BasicInv, NEW i \in DOMAIN view, NEW flag \in Flags, Toggle(i, flag)
  PROVE  /\ DOMAIN view' = DOMAIN view /\ view'[i].uid = view[i].uid /\ view'[i].idx = view[i].idx
         /\ view'[i].active = view[i].active /\ view'[i].changed
         /\ \A j \in DOMAIN view : j # i => view'[j] = view[j]
         /\ wanted' = (IF IsDeleted(view'[i]) THEN wanted \cup {view[i].uid} ELSE wanted \ {view[i].uid})
         /\ stack = <<>> /\ stack' = <<>>
         /\ job' = job /\ job.op = "idle"
         /\ UNCHANGED <<mail, flags, uidnext, told, toldFlags, gap, off, swept, marked>>
<1>1. ViewTypes /\ JobInv BY DEF BasicInv
<1> DEFINE h == view[i]
           f == IF flag \in h.flags THEN h.flags \ {flag} ELSE h.flags \cup {flag}
           g == [h EXCEPT !.flags = f, !.changed = TRUE]
<1>2. h \in Header BY <1>1, HeaderUid
<1>3. g \in Header /\ g.uid = h.uid /\ g.idx = h.idx /\ g.active = h.active /\ g.changed /\ g.flags = f
  BY <1>2 DEF Header
<1>4. view' = [view EXCEPT ![i] = g] BY DEF Toggle
<1>5. wanted' = IF "deleted" \in f THEN wanted \cup {h.uid} ELSE wanted \ {h.uid} BY DEF Toggle
<1>6. /\ job' = job /\ job.op = "idle" /\ stack' = stack
      /\ UNCHANGED <<mail, flags, uidnext, told, toldFlags, gap, off, swept, marked>>
  BY DEF Toggle, server, session
<1>7. stack = <<>> BY <1>1, <1>6 DEF JobInv
<1> HIDE DEF f, g
<1>8. DOMAIN view' = DOMAIN view /\ view'[i] = g /\ \A j \in DOMAIN view : j # i => view'[j] = view[j]
  BY <1>1, <1>3, <1>4, OneHeader
<1>9. wanted' = (IF IsDeleted(view'[i]) THEN wanted \cup {h.uid} ELSE wanted \ {h.uid})
  BY <1>3, <1>5, <1>8 DEF IsDeleted
<1> QED BY <1>3, <1>6, <1>7, <1>8, <1>9

LEMMA FetchMessageIs ==
  ASSUME BasicInv, NEW i \in DOMAIN view, FetchMessage(i)
  PROVE  /\ DOMAIN view' = DOMAIN view /\ view'[i].uid = view[i].uid /\ view'[i].idx = view[i].idx
         /\ ~view'[i].active /\ view'[i].changed = view[i].changed /\ view'[i].flags = view[i].flags
         /\ \A j \in DOMAIN view : j # i => view'[j] = view[j]
         /\ stack = <<>> /\ job.op = "idle"
         /\ stack' # <<>> /\ stack'[1].op = "UID FETCH" /\ stack'[1].uids = {}
         /\ stack'[1].stage = "running"
         /\ job'.pos = i /\ job'.op = "fetch" /\ job'.phase = "-"
         /\ UNCHANGED <<mail, flags, uidnext, told, toldFlags, gap, off, swept, wanted, marked>>
<1>1. ViewTypes /\ JobInv BY DEF BasicInv
<1> DEFINE g == [view[i] EXCEPT !.active = FALSE]
<1>2. view[i] \in Header BY <1>1, HeaderUid
<1>3. /\ g \in Header /\ g.uid = view[i].uid /\ g.idx = view[i].idx /\ ~g.active
      /\ g.changed = view[i].changed /\ g.flags = view[i].flags
  BY <1>2 DEF Header
<1>4. /\ view' = [view EXCEPT ![i] = g] /\ stack' = <<Command("UID FETCH", {})>> /\ job.op = "idle"
      /\ job' = [Job("fetch", "-") EXCEPT !.pos = i]
      /\ UNCHANGED <<mail, flags, uidnext, told, toldFlags, gap, off, swept, wanted, marked>>
  BY DEF FetchMessage, server, session, history
<1>5. stack = <<>> BY <1>1, <1>4 DEF JobInv
<1>6. job'.pos = i /\ job'.op = "fetch" /\ job'.phase = "-" BY <1>4 DEF Job
<1>7. "UID FETCH" \in Ops \ {"FETCH"} /\ {} \in SUBSET Uids BY DEF Ops
<1>8. /\ stack' # <<>> /\ stack'[1].op = "UID FETCH" /\ stack'[1].uids = {}
      /\ stack'[1].stage = "running"
  <2>1. Command("UID FETCH", {}).stage = "running" BY DEF Command
  <2>2. stack'[1] = Command("UID FETCH", {}) BY <1>4
  <2> QED BY <1>4, <1>7, <2>1, <2>2, CommandSent
<1> HIDE DEF g
<1>9. DOMAIN view' = DOMAIN view /\ view'[i] = g /\ \A j \in DOMAIN view : j # i => view'[j] = view[j]
  BY <1>1, <1>3, <1>4, OneHeader
<1> QED BY <1>3, <1>4, <1>5, <1>6, <1>8, <1>9

LEMMA SyncMessageIs ==
  ASSUME BasicInv, NEW i \in DOMAIN view, SyncMessage(i)
  PROVE  /\ DOMAIN view' = DOMAIN view /\ view'[i].uid = view[i].uid /\ view'[i].idx = view[i].idx
         /\ ~view'[i].active /\ ~view'[i].changed /\ view'[i].flags = view[i].flags
         /\ view[i].active /\ view[i].changed
         /\ \A j \in DOMAIN view : j # i => view'[j] = view[j]
         /\ stack = <<>> /\ job.phase = "flags"
         /\ stack' # <<>> /\ stack'[1].op = "STORE" /\ stack'[1].uids = {view[i].uid}
         /\ stack'[1].stage = "running"
         /\ job'.pos = i /\ job'.op = job.op /\ job'.phase = job.phase /\ job'.purge = job.purge
         /\ UNCHANGED <<mail, flags, uidnext, told, toldFlags, gap, off, swept, wanted, marked>>
<1>1. ViewTypes /\ StackTypes BY DEF BasicInv
<1> DEFINE g == [view[i] EXCEPT !.changed = FALSE, !.active = FALSE]
<1>2. view[i] \in Header /\ view[i].uid \in Uids BY <1>1, HeaderUid
<1>3. /\ g \in Header /\ g.uid = view[i].uid /\ g.idx = view[i].idx /\ ~g.active
      /\ ~g.changed /\ g.flags = view[i].flags
  BY <1>2 DEF Header
<1>4. /\ view' = [view EXCEPT ![i] = g] /\ stack' = <<Command("STORE", {view[i].uid})>>
      /\ job.phase = "flags" /\ stack = <<>> /\ i \in NextChanged
      /\ job' = [job EXCEPT !.pos = i]
      /\ UNCHANGED <<mail, flags, uidnext, told, toldFlags, gap, off, swept, wanted, marked>>
  BY DEF SyncMessage, server, session, history
<1>5. view[i].active /\ view[i].changed BY <1>4 DEF NextChanged
<1>6. job'.pos = i /\ job'.op = job.op /\ job'.phase = job.phase /\ job'.purge = job.purge
  BY <1>1, <1>4 DEF StackTypes, Jobs
<1>7. "STORE" \in Ops \ {"FETCH"} /\ {view[i].uid} \in SUBSET Uids BY <1>2 DEF Ops
<1>8. /\ stack' # <<>> /\ stack'[1].op = "STORE" /\ stack'[1].uids = {view[i].uid}
      /\ stack'[1].stage = "running"
  <2>1. Command("STORE", {view[i].uid}).stage = "running" BY DEF Command
  <2>2. stack'[1] = Command("STORE", {view[i].uid}) BY <1>4
  <2> QED BY <1>4, <1>7, <2>1, <2>2, CommandSent
<1> HIDE DEF g
<1>9. DOMAIN view' = DOMAIN view /\ view'[i] = g /\ \A j \in DOMAIN view : j # i => view'[j] = view[j]
  BY <1>1, <1>3, <1>4, OneHeader
<1> QED BY <1>3, <1>4, <1>5, <1>6, <1>8, <1>9

(* Headers that are deleted and changed become inactive, and a set is made   *)
(* that stands for them.                                                     *)
LEMMA DeletionsAre ==
  ASSUME BasicInv, NEW hdrs \in Orders, SendsDeletions(hdrs)
  PROVE  /\ DOMAIN view' = DOMAIN view
         /\ \A i \in DOMAIN view :
              /\ view'[i].uid = view[i].uid /\ view'[i].idx = view[i].idx
              /\ view'[i].flags = view[i].flags /\ view'[i].changed = view[i].changed
              /\ Marks(view[i]) => ~view'[i].active
              /\ ~Marks(view[i]) => view'[i] = view[i]
         /\ stack' # <<>> /\ stack'[1].op = "STORE deleted" /\ stack'[1].uids = MsgSet(hdrs)
         /\ stack'[1].stage = "running" /\ job' = job /\ job.purge
         /\ swept \subseteq swept'
         /\ \/ MsgSet(hdrs) \subseteq swept'
            \/ "expunge" \notin reopen /\ \A i \in DOMAIN view : view[i].active
<1>1. ViewTypes BY DEF BasicInv
<1> DEFINE D == {i \in DOMAIN view : IsDeleted(view[i]) /\ view[i].changed}
<1>2. /\ view' = [i \in DOMAIN view |-> IF i \in D THEN [view[i] EXCEPT !.active = FALSE] ELSE view[i]]
      /\ stack' = <<Command("STORE deleted", MsgSet(hdrs))>> /\ job' = job /\ job.purge
      /\ swept' = (IF "expunge" \in reopen \/ Inactive # {} THEN swept \cup MsgSet(hdrs) ELSE swept)
  BY DEF SendsDeletions
<1>3. \A i \in DOMAIN view : i \in D <=> Marks(view[i]) BY DEF Marks
<1> HIDE DEF D
<1>4. /\ SameMessages(view, view') /\ DOMAIN view' = DOMAIN view
      /\ \A i \in DOMAIN view : view'[i].flags = view[i].flags /\ view'[i].changed = view[i].changed
      /\ \A i \in DOMAIN view : i \notin D => view'[i] = view[i]
      /\ \A i \in DOMAIN view : i \in D => ~view'[i].active
  <2>1. view \in Seq(Header) BY <1>1 DEF ViewTypes
  <2> DEFINE w == [i \in DOMAIN view |-> IF i \in D THEN [view[i] EXCEPT !.active = FALSE] ELSE view[i]]
  <2>2. view' = w BY <1>2
  <2>3. SameMessages(view, w) /\ DOMAIN w = DOMAIN view BY <2>1, Deactivated
  <2>4. \A i \in DOMAIN view : w[i].flags = view[i].flags /\ w[i].changed = view[i].changed
    BY <2>1, Deactivated
  <2>5. \A i \in DOMAIN view : i \notin D => w[i] = view[i] BY <2>1, Deactivated
  <2>6. \A i \in DOMAIN view : i \in D => ~w[i].active BY <2>1, Deactivated
  <2> HIDE DEF w
  <2> QED BY <2>2, <2>3, <2>4, <2>5, <2>6
<1>5. \A i \in DOMAIN view :
              /\ view'[i].uid = view[i].uid /\ view'[i].idx = view[i].idx
              /\ view'[i].flags = view[i].flags /\ view'[i].changed = view[i].changed
              /\ Marks(view[i]) => ~view'[i].active
              /\ ~Marks(view[i]) => view'[i] = view[i]
  BY <1>3, <1>4 DEF SameMessages
<1>6. "STORE deleted" \in Ops \ {"FETCH"} /\ MsgSet(hdrs) \in SUBSET Uids BY MsgSetIs DEF Ops
<1>7. /\ stack' # <<>> /\ stack'[1].op = "STORE deleted" /\ stack'[1].uids = MsgSet(hdrs)
      /\ stack'[1].stage = "running"
  <2>1. Command("STORE deleted", MsgSet(hdrs)).stage = "running" BY DEF Command
  <2>2. stack'[1] = Command("STORE deleted", MsgSet(hdrs)) BY <1>2
  <2> QED BY <1>2, <1>6, <2>1, <2>2, CommandSent
<1>8. Inactive = {} => \A i \in DOMAIN view : view[i].active BY DEF Inactive
<1> QED BY <1>2, <1>4, <1>5, <1>7, <1>8

(* The caller of a command makes the header it is about active again. *)
LEMMA ReturnIs ==
  ASSUME BasicInv, NEW b \in BOOLEAN, Return(b)
  PROVE  /\ stack # <<>> /\ stack[1].stage = "done" /\ stack' = <<>> /\ Top = stack[1]
         /\ UNCHANGED <<mail, flags, uidnext, told, toldFlags, gap, off, swept, wanted, marked>>
         /\ DOMAIN view' = DOMAIN view
         /\ \A i \in DOMAIN view :
              /\ view'[i].uid = view[i].uid /\ view'[i].idx = view[i].idx
              /\ view'[i].flags = view[i].flags /\ view'[i].changed = view[i].changed
              /\ \/ view'[i] = view[i]
                 \/ /\ i = job.pos /\ view'[i].active
                    /\ Sent("UID FETCH") \/ (Sent("STORE") /\ view[i].uid \in stack[1].uids)
         /\ Sent("UID FETCH") => view'[job.pos].active
         /\ Sent("STORE") /\ stack[1].ok /\ job.pos \in DOMAIN view /\ view[job.pos].uid \in stack[1].uids
              => view'[job.pos].active
<1>1. ViewTypes /\ PlaceInv BY DEF BasicInv
<1>2. /\ Len(stack) = 1 /\ stack[1].stage = "done" /\ stack' = <<>> /\ Returned(b)
      /\ UNCHANGED <<mail, flags, uidnext, told, toldFlags, gap, off, swept, wanted, marked>>
  BY ReturnCases
<1>3. stack # <<>> /\ Top = stack[1] BY <1>2 DEF Top
<1>4. \/ view' = view
      \/ /\ job.pos \in DOMAIN view /\ view' = [view EXCEPT ![job.pos].active = TRUE]
         /\ Sent("UID FETCH") \/ (Sent("STORE") /\ view[job.pos].uid \in stack[1].uids)
  BY <1>1, <1>2, <1>3 DEF Returned, PlaceInv, Sent
<1>7. /\ Sent("UID FETCH") => view'[job.pos].active
      /\ Sent("STORE") /\ stack[1].ok /\ job.pos \in DOMAIN view /\ view[job.pos].uid \in stack[1].uids
           => view'[job.pos].active
  <2>1. view \in Seq(Header) BY <1>1 DEF ViewTypes
  <2>2. job.pos \in DOMAIN view => [view EXCEPT ![job.pos].active = TRUE][job.pos].active
    <3> SUFFICES ASSUME job.pos \in DOMAIN view
                 PROVE  [view EXCEPT ![job.pos].active = TRUE][job.pos].active
      OBVIOUS
    <3> QED BY <2>1, Reactivated
  <2>3. Sent("UID FETCH") => job.pos \in DOMAIN view /\ view' = [view EXCEPT ![job.pos].active = TRUE]
    BY <1>1, <1>2 DEF Returned, PlaceInv, Sent
  <2>4. Sent("STORE") /\ stack[1].ok /\ job.pos \in DOMAIN view /\ view[job.pos].uid \in stack[1].uids
           => view' = [view EXCEPT ![job.pos].active = TRUE]
    BY <1>2 DEF Returned, Sent
  <2> QED BY <2>2, <2>3, <2>4
<1>5. CASE view' = view BY <1>2, <1>3, <1>5, <1>7
<1>6. CASE /\ job.pos \in DOMAIN view /\ view' = [view EXCEPT ![job.pos].active = TRUE]
           /\ Sent("UID FETCH") \/ (Sent("STORE") /\ view[job.pos].uid \in stack[1].uids)
  <2>1. /\ SameMessages(view, view') /\ DOMAIN view' = DOMAIN view
        /\ \A i \in DOMAIN view : view'[i].flags = view[i].flags /\ view'[i].changed = view[i].changed
        /\ \A i \in DOMAIN view : i # job.pos => view'[i] = view[i]
        /\ view'[job.pos].active
    <3>1. view \in Seq(Header) BY <1>1 DEF ViewTypes
    <3> DEFINE w == [view EXCEPT ![job.pos].active = TRUE]
    <3>2. view' = w /\ job.pos \in DOMAIN view BY <1>6
    <3>3. SameMessages(view, w) /\ DOMAIN w = DOMAIN view BY <3>1, <3>2, Reactivated
    <3>4. \A i \in DOMAIN view : w[i].flags = view[i].flags /\ w[i].changed = view[i].changed
      BY <3>1, <3>2, Reactivated
    <3>5. (\A i \in DOMAIN view : i # job.pos => w[i] = view[i]) /\ w[job.pos].active
      BY <3>1, <3>2, Reactivated
    <3> HIDE DEF w
    <3> QED BY <3>2, <3>3, <3>4, <3>5
  <2> QED BY <1>2, <1>3, <1>6, <1>7, <2>1 DEF SameMessages
<1> QED BY <1>4, <1>5, <1>6

-----------------------------------------------------------------------------
(* What the answer to a STORE does to the flags the server has and has told. *)
Storing == Sent("STORE") /\ stack[1].stage = "running"
Deleting == Sent("STORE deleted") /\ stack[1].stage = "running"

(* The flags of u after the answer, when they were f before. *)
Answered(f, u) ==
  IF Deleting /\ u \in stack[1].uids THEN f \cup {"deleted"}
  ELSE IF Storing /\ u \in stack[1].uids THEN view[job.pos].flags ELSE f

LEMMA InnermostIs ==
  ASSUME StackTypes, NestInv, Storing \/ Deleting
  PROVE  Len(stack) = 1 /\ Top = stack[1]
<1>1. stack # <<>> /\ stack[1].stage = "running" BY DEF Storing, Deleting, Sent
<1>2. Len(stack) \in Nat \ {0} /\ 1 \in DOMAIN stack BY <1>1, TopIs
<1>3. ~(1 < Len(stack)) BY <1>1, <1>2 DEF NestInv
<1>4. Len(stack) = 1 BY <1>2, <1>3
<1> QED BY <1>4 DEF Top

LEMMA TaggedIs ==
  ASSUME BasicInv, NEW ok \in BOOLEAN, Tagged(ok)
  PROVE  /\ ok => /\ \A u \in Uids : flags'[u] = Answered(flags[u], u)
                  /\ \A u \in Uids : toldFlags'[u] = Answered(toldFlags[u], u)
                  /\ \A u \in marked : "deleted" \in flags'[u] => u \in marked'
         /\ ~ok => UNCHANGED <<flags, toldFlags, marked>>
         /\ off \subseteq off'
         /\ ~ok => Top.uids \subseteq off' /\ Inactive \subseteq off'
         /\ Storing \/ Deleting => Top = stack[1]
<1>1. StackTypes /\ NestInv BY DEF BasicInv
<1>2. /\ stack # <<>>
      /\ Top.stage = "running" \/ (Top.stage = "sent" /\ ~ok)
      /\ off' = (IF ok THEN off ELSE off \cup Top.uids \cup Inactive)
      /\ ok => /\ flags' = Stored(flags) /\ toldFlags' = Stored(toldFlags)
               /\ marked' = {u \in marked : "deleted" \in flags'[u]}
      /\ ~ok => UNCHANGED <<flags, toldFlags, marked>>
  BY DEF Tagged
<1>3. Storing \/ Deleting => Top = stack[1] BY <1>1, InnermostIs
<1>4. ASSUME ok PROVE /\ Top.op = "STORE" <=> Storing
                      /\ Top.op = "STORE deleted" <=> Deleting
                      /\ Storing \/ Deleting => Top = stack[1]
  <2>1. Top.stage = "running" BY <1>2, <1>4
  <2>2. ASSUME Top.op # "FETCH" PROVE Top = stack[1]
    <3>1. stack # <<>> BY <1>2
    <3> QED BY <1>1, <2>2, <3>1, OutermostIs
  <2> QED BY <1>2, <1>3, <2>1, <2>2 DEF Storing, Deleting, Sent
<1>5. ASSUME ok, NEW f, NEW u \in Uids PROVE Stored(f)[u] = Answered(f[u], u)
  <2>1. Stored(f)[u] = IF u \in Top.uids THEN Effect(f, u) ELSE f[u] BY DEF Stored
  <2>2. CASE Deleting
    <3>1. Top.op = "STORE deleted" /\ Top = stack[1] BY <1>4, <1>5, <2>2
    <3> QED BY <2>1, <2>2, <3>1 DEF Effect, Answered
  <2>3. CASE Storing /\ ~Deleting
    <3>1. Top.op = "STORE" /\ Top = stack[1] BY <1>4, <1>5, <2>3
    <3> QED BY <2>1, <2>3, <3>1 DEF Effect, Answered
  <2>4. CASE ~Storing /\ ~Deleting
    <3>1. Top.op # "STORE" /\ Top.op # "STORE deleted" BY <1>4, <1>5, <2>4
    <3>2. Effect(f, u) = f[u] BY <3>1 DEF Effect
    <3> QED BY <2>1, <2>4, <3>2 DEF Answered
  <2> QED BY <2>2, <2>3, <2>4
<1> QED BY <1>2, <1>3, <1>5

-----------------------------------------------------------------------------
(* A message that is yet to come is not marked as deleted, and no command in *)
(* progress names it.                                                        *)
FreshInv ==
  /\ \A u \in Uids : u >= uidnext => "deleted" \notin flags[u]
  /\ stack # <<>> => \A u \in stack[1].uids : u < uidnext

(* New headers come only with a FETCH of headers, not while a STORE is in    *)
(* progress.                                                                 *)
LEMMA StoreRunning ==
  ASSUME BasicInv, Storing \/ Deleting
  PROVE  ~FetchHeader /\ ~ReadNext
<1>1. StackTypes /\ NestInv BY DEF BasicInv
<1>2. Top = stack[1] BY <1>1, InnermostIs
<1>3. Top.op # "FETCH" BY <1>2 DEF Storing, Deleting, Sent
<1> QED BY <1>3 DEF FetchHeader, ReadNext, Running

LEMMA FreshStep ==
  ASSUME BasicInv, AgreeInv, FreshInv, [Next]_vars
  PROVE  FreshInv'
<1>1. ServerTypes /\ ToldTypes /\ ViewTypes /\ StackTypes /\ NestInv BY DEF BasicInv
<1>2. uidnext \in Int /\ \A u \in Uids : u \in Int BY <1>1, ImapAssumption DEF ServerTypes, Uids
<1>3. \A i \in DOMAIN view : view[i].uid < uidnext /\ view[i].uid \in Int
  BY <1>1, HeaderUid DEF AgreeInv, ToldInv
<1>4. \A u \in mail : u < uidnext /\ u \in Int BY <1>1, <1>2 DEF ServerTypes, AgreeInv, ToldInv
<1>5. ASSUME UNCHANGED <<flags, uidnext>>, stack' # <<>> => \A u \in stack'[1].uids : u < uidnext
      PROVE  FreshInv'
  BY <1>5 DEF FreshInv
<1>6. CASE UNCHANGED vars BY <1>5, <1>6, UntouchedIs DEF FreshInv
<1>7. CASE Deliver
  <2>1. UNCHANGED <<flags, stack>> /\ uidnext' = uidnext + 1 BY <1>7 DEF Deliver
  <2>2. \A u \in Uids : u >= uidnext + 1 => u >= uidnext BY <1>2
  <2>3. stack # <<>> => \A u \in stack[1].uids : u < uidnext + 1
    <3> SUFFICES ASSUME stack # <<>>, NEW u \in stack[1].uids PROVE u < uidnext + 1 OBVIOUS
    <3>1. stack[1] \in Frame BY <1>1, SeqHas, TopIs DEF StackTypes
    <3>2. u \in Int /\ u < uidnext BY <1>2, <3>1 DEF Frame, FreshInv
    <3> QED BY <1>2, <3>2
  <2> QED BY <2>1, <2>2, <2>3 DEF FreshInv
<1>8. ASSUME NEW u \in Uids, OtherExpunge(u) PROVE FreshInv' BY <1>5, <1>8 DEF OtherExpunge, FreshInv
<1>9. ASSUME NEW u \in Uids, NEW f \in OtherFlags, OtherStore(u, f) PROVE FreshInv'
  <2>1. u \in mail /\ flags' = [flags EXCEPT ![u] = f] /\ UNCHANGED <<uidnext, stack>>
    BY <1>9 DEF OtherStore
  <2>2. ~(u >= uidnext) BY <1>2, <1>4, <2>1
  <2>3. \A v \in Uids : v # u => flags'[v] = flags[v] BY <1>1, <2>1 DEF ServerTypes
  <2> QED BY <2>1, <2>2, <2>3 DEF FreshInv
<1>10. CASE Exists \/ (\E u \in Uids : Expunge(u) \/ FetchFlags(u)) \/ FetchHeader \/ ReadNext
  <2>1. Responds BY <1>10, Responses
  <2> QED BY <1>5, <2>1 DEF Responds, OuterStays, FreshInv
<1>11. ASSUME NEW ok \in BOOLEAN, Tagged(ok) PROVE FreshInv'
  <2>1. stack # <<>> /\ stack' # <<>> /\ stack'[1].uids = stack[1].uids /\ uidnext' = uidnext
    BY <1>11, TaggedEnds DEF Ends
  <2>2. \A u \in stack[1].uids : u < uidnext BY <2>1 DEF FreshInv
  <2>3. \A u \in Uids : u >= uidnext => flags'[u] = flags[u]
    <3>1. \A u \in Uids : u >= uidnext => u \notin stack[1].uids BY <1>2, <2>2
    <3>2. CASE ok BY <1>11, <3>1, <3>2, TaggedIs DEF Answered
    <3>3. CASE ~ok BY <1>11, <3>3, TaggedIs
    <3> QED BY <3>2, <3>3
  <2> QED BY <2>1, <2>2, <2>3 DEF FreshInv
<1>12. CASE CheckFinish
  <2>1. Ends /\ stack = <<>> /\ UNCHANGED <<uidnext, flags>> BY <1>12, CheckFinishEnds
  <2>2. stack' # <<>> => stack'[1].uids = {} BY <2>1 DEF Ends
  <2> QED BY <1>5, <2>1, <2>2
<1>13. CASE Reopen /\ UNCHANGED server
  <2>1. UNCHANGED <<uidnext, flags>> /\ (stack' = <<>> \/ stack'[1].uids = {}) BY <1>13, ReopenIs
  <2> QED BY <1>5, <2>1
<1>14. ASSUME NEW b \in BOOLEAN, Lose(b) PROVE FreshInv' BY <1>5, <1>13, <1>14, LoseIs
<1>15. CASE Execute
  <2>1. stack # <<>> /\ stack'[1].uids = stack[1].uids /\ UNCHANGED <<flags, uidnext>> BY <1>15, ExecuteIs
  <2> QED BY <1>5, <2>1 DEF FreshInv
<1>16. ASSUME NEW i \in DOMAIN view, NEW f \in Flags, Toggle(i, f) PROVE FreshInv'
  BY <1>5, <1>16, ToggleIs
<1>17. ASSUME NEW i \in DOMAIN view, FetchMessage(i) PROVE FreshInv' BY <1>5, <1>17, FetchMessageIs
<1>18. ASSUME NEW i \in DOMAIN view, SyncMessage(i) PROVE FreshInv'
  BY <1>3, <1>5, <1>18, SyncMessageIs
<1>19. CASE Begins BY <1>5, <1>19 DEF Begins
<1>20. ASSUME NEW b \in BOOLEAN, Return(b) PROVE FreshInv' BY <1>5, <1>20, ReturnIs
<1>21. CASE SyncDelete
  <2>1. UNCHANGED <<flags, uidnext>> /\ stack = <<>> BY <1>21, SyncDeleteCases
  <2>2. ASSUME NEW hdrs \in Orders, SendsDeletions(hdrs) PROVE FreshInv'
    <3>1. stack'[1].uids = MsgSet(hdrs) BY <2>2, DeletionsAre
    <3>2. \A u \in MsgSet(hdrs) : u < uidnext
      <4> SUFFICES ASSUME NEW u \in MsgSet(hdrs) PROVE u < uidnext OBVIOUS
      <4>1. PICK i \in DOMAIN view : u <= view[i].uid BY <1>1, MsgSetBelow
      <4>2. u \in Int BY <1>2, MsgSetIs
      <4> QED BY <1>2, <1>3, <4>1, <4>2
    <3> QED BY <1>5, <2>1, <3>1, <3>2
  <2>3. CASE stack' = stack BY <1>5, <2>1, <2>3
  <2> QED BY <1>21, <2>2, <2>3, SyncDeleteCases
<1> QED BY <1>6, <1>7, <1>8, <1>9, <1>10, <1>11, <1>12, <1>13, <1>14, <1>15, <1>16, <1>17, <1>18,
           <1>19, <1>20, <1>21, Beginning, StepKinds

-----------------------------------------------------------------------------
(* While STORE marks deletions, the messages it names are those of inactive  *)
(* headers that are deleted and changed, or known to be swept up with them.  *)
MarkInv ==
  /\ Sent("STORE deleted") => job.purge
  /\ Deleting /\ "hole" \notin gap =>
      /\ \A i \in DOMAIN view :
           view[i].uid \in stack[1].uids \ swept => ~view[i].active /\ Marks(view[i])
      /\ \A u \in mail \cap stack[1].uids : u \in swept \/ \E i \in DOMAIN view : view[i].uid = u

(* Where no such command is in progress. *)
LEMMA NoDeletion ==
  ASSUME stack' # <<>> => stack'[1].op # "STORE deleted"
  PROVE  MarkInv'
  BY DEF MarkInv, Deleting, Sent

LEMMA RespondsMark ==
  ASSUME BasicInv, MarkInv, Responds, Deleting => DOMAIN view' = DOMAIN view
  PROVE  MarkInv'
<1>1. CASE stack' = <<>> BY <1>1, NoDeletion
<1>2. CASE OuterStays /\ stack' # <<>>
  <2>1. Sent("STORE deleted")' => Sent("STORE deleted") BY <1>2 DEF OuterStays, Sent
  <2>2. Sent("STORE deleted")' => job' = job
    <3>1. Sent("STORE deleted") => job.op # "open" BY DEF BasicInv, JobInv
    <3> QED BY <1>2, <2>1, <3>1 DEF Responds
  <2>3. Deleting' => Deleting BY <1>2 DEF OuterStays, Deleting, Sent
  <2>4. ASSUME Deleting, "hole" \notin gap'
        PROVE  /\ \A i \in DOMAIN view' :
                    view'[i].uid \in stack'[1].uids \ swept' => ~view'[i].active /\ Marks(view'[i])
               /\ \A u \in mail' \cap stack'[1].uids :
                    u \in swept' \/ \E i \in DOMAIN view' : view'[i].uid = u
    <3>1. "hole" \notin gap /\ stack'[1].uids = stack[1].uids /\ swept' = swept /\ mail' = mail
      BY <1>2, <2>4 DEF Responds, OuterStays
    <3>2. DOMAIN view' = DOMAIN view
          /\ \A i \in DOMAIN view :
               /\ view'[i].uid = view[i].uid /\ view'[i].active = view[i].active
               /\ view'[i].changed = view[i].changed
               /\ view[i].changed => view'[i].flags = view[i].flags
      BY <2>4 DEF Responds, Advances
    <3>3. /\ \A i \in DOMAIN view :
                view[i].uid \in stack[1].uids \ swept => ~view[i].active /\ Marks(view[i])
          /\ \A u \in mail \cap stack[1].uids : u \in swept \/ \E i \in DOMAIN view : view[i].uid = u
      BY <2>4, <3>1 DEF MarkInv
    <3>4. \A i \in DOMAIN view : Marks(view[i]) => Marks(view'[i]) BY <3>2 DEF Marks, IsDeleted
    <3> QED BY <3>1, <3>2, <3>3, <3>4
  <2> QED BY <2>1, <2>2, <2>3, <2>4 DEF MarkInv
<1> QED BY <1>1, <1>2 DEF Responds

LEMMA SyncDeleteMark ==
  ASSUME BasicInv, AgreeInv, SyncDelete
  PROVE  MarkInv'
<1>1. ServerTypes /\ ToldTypes /\ ViewTypes BY DEF BasicInv
<1>2. stack = <<>> /\ UNCHANGED <<mail, told, reopen, gap>> BY SyncDeleteCases
<1>3. ASSUME NEW hdrs \in Orders, SendsDeletions(hdrs) PROVE MarkInv'
  <2>1. /\ DOMAIN view' = DOMAIN view
        /\ \A i \in DOMAIN view :
              /\ view'[i].uid = view[i].uid
              /\ view'[i].flags = view[i].flags /\ view'[i].changed = view[i].changed
              /\ Marks(view[i]) => ~view'[i].active
        /\ stack'[1].uids = MsgSet(hdrs) /\ job' = job /\ job.purge
        /\ \/ MsgSet(hdrs) \subseteq swept'
           \/ "expunge" \notin reopen /\ \A i \in DOMAIN view : view[i].active
    BY <1>3, DeletionsAre
  <2>2. CASE MsgSet(hdrs) \subseteq swept'
    <3>1. stack'[1].uids \subseteq swept' BY <2>1, <2>2
    <3> QED BY <2>1, <3>1 DEF MarkInv
  <2>3. CASE "expunge" \notin reopen /\ \A i \in DOMAIN view : view[i].active
    <3> SUFFICES ASSUME "hole" \notin gap
                 PROVE  /\ \A i \in DOMAIN view' :
                             view'[i].uid \in stack'[1].uids => ~view'[i].active /\ Marks(view'[i])
                        /\ \A u \in mail' \cap stack'[1].uids : \E i \in DOMAIN view' : view'[i].uid = u
      BY <1>2, <2>1 DEF MarkInv
    <3>1. \A u \in MsgSet(hdrs) :
            /\ \A i \in DOMAIN view : view[i].uid = u => Marks(view[i])
            /\ u \in mail => \E i \in DOMAIN view : view[i].uid = u
      BY <1>1, <2>3, MsgSetExact
    <3>2. \A i \in DOMAIN view : view[i].uid \in MsgSet(hdrs) => ~view'[i].active /\ Marks(view'[i])
      BY <2>1, <3>1 DEF Marks, IsDeleted
    <3>3. \A u \in mail \cap MsgSet(hdrs) : \E i \in DOMAIN view' : view'[i].uid = u BY <2>1, <3>1
    <3> QED BY <1>2, <2>1, <3>2, <3>3
  <2> QED BY <2>1, <2>2, <2>3
<1>4. CASE stack' = stack BY <1>2, <1>4, NoDeletion
<1> QED BY <1>3, <1>4, SyncDeleteCases

LEMMA MarkStep ==
  ASSUME BasicInv, AgreeInv, FreshInv, MarkInv, [Next]_vars
  PROVE  MarkInv'
<1>1. UNCHANGED vars => MarkInv' BY UntouchedIs DEF MarkInv, Deleting, Sent, Marks, IsDeleted
<1>2. ASSUME \/ Deliver
             \/ \E u \in Uids : OtherExpunge(u) \/ \E f \in OtherFlags : OtherStore(u, f)
      PROVE  MarkInv'
  <2>1. UNCHANGED <<stack, job, view, swept, gap>> BY <1>2 DEF Deliver, OtherExpunge, OtherStore, client, history
  <2>2. \A u \in mail' : u \in mail \/ (u = uidnext /\ uidnext \in Nat)
    BY <1>2 DEF BasicInv, ServerTypes, Deliver, OtherExpunge, OtherStore
  <2>3. stack # <<>> => (uidnext \in Nat => uidnext \notin stack[1].uids) BY DEF FreshInv
  <2>4. stack # <<>> => mail' \cap stack[1].uids \subseteq mail BY <2>2, <2>3
  <2> QED BY <2>1, <2>4 DEF MarkInv, Deleting, Sent, Marks, IsDeleted
<1>3. ASSUME Exists \/ (\E u \in Uids : Expunge(u) \/ FetchFlags(u)) \/ FetchHeader \/ ReadNext
      PROVE  MarkInv'
  <2>1. Responds BY <1>3, Responses
  <2>2. ASSUME Deleting PROVE DOMAIN view' = DOMAIN view
    <3>1. Exists \/ \E u \in Uids : Expunge(u) \/ FetchFlags(u) BY <1>3, <2>2, StoreRunning
    <3>2. CASE Exists BY <3>2 DEF Exists
    <3>3. ASSUME NEW u \in Uids, Expunge(u) PROVE DOMAIN view' = DOMAIN view BY <3>3 DEF Expunge, Renumbered
    <3>4. ASSUME NEW u \in Uids, FetchFlags(u) PROVE DOMAIN view' = DOMAIN view BY <3>4, FetchFlagsIs
    <3> QED BY <3>1, <3>2, <3>3, <3>4
  <2> QED BY <2>1, <2>2, RespondsMark
<1>4. ASSUME NEW ok \in BOOLEAN, Tagged(ok) PROVE MarkInv'
  <2>1. Ends /\ stack # <<>> /\ job' = job BY <1>4, TaggedEnds
  <2>2. stack' # <<>> /\ stack'[1].op = stack[1].op /\ stack'[1].stage = "done" BY <2>1 DEF Ends
  <2> QED BY <2>1, <2>2 DEF MarkInv, Deleting, Sent
<1>5. CASE CheckFinish
  <2>1. Ends /\ stack = <<>> BY <1>5, CheckFinishEnds
  <2> QED BY <2>1, NoDeletion DEF Ends
<1>6. ASSUME Reopen, UNCHANGED server PROVE MarkInv' BY <1>6, ReopenIs, NoDeletion
<1>7. ASSUME NEW b \in BOOLEAN, Lose(b) PROVE MarkInv' BY <1>6, <1>7, LoseIs, NoDeletion
<1>8. CASE Execute BY <1>8, ExecuteIs, NoDeletion
<1>9. ASSUME NEW i \in DOMAIN view, NEW f \in Flags, Toggle(i, f) PROVE MarkInv'
  BY <1>9, ToggleIs, NoDeletion
<1>10. ASSUME NEW i \in DOMAIN view, FetchMessage(i) \/ SyncMessage(i) PROVE MarkInv'
  BY <1>10, FetchMessageIs, SyncMessageIs, NoDeletion
<1>11. CASE Begins BY <1>11, NoDeletion DEF Begins
<1>12. ASSUME NEW b \in BOOLEAN, Return(b) PROVE MarkInv' BY <1>12, ReturnIs, NoDeletion
<1>13. CASE SyncDelete BY <1>13, SyncDeleteMark
<1> QED BY <1>1, <1>2, <1>3, <1>4, <1>5, <1>6, <1>7, <1>8, <1>9, <1>10, <1>11, <1>12, <1>13,
           Beginning, StepKinds

-----------------------------------------------------------------------------
(* Inactive headers.  When a command has not been answered with OK, the      *)
(* flags of inactive headers may be wrong; the header a STORE of flags is    *)
(* about is where the sync has come to; and an inactive header that is not   *)
(* marked as changed is the one the command in progress is about.            *)
RefusedInv == stack # <<>> /\ Top.stage = "done" /\ ~Top.ok => Inactive \subseteq off
PlacedInv ==
  Sent("STORE") /\ "hole" \notin gap =>
    \A i \in DOMAIN view : ~view[i].active /\ view[i].uid \in stack[1].uids => i = job.pos
Left(i) == ~view[i].active /\ ~view[i].changed /\ view[i].uid \notin off \cup swept
Held(i) == \/ Sent("UID FETCH") /\ i = job.pos
           \/ Sent("STORE") /\ view[i].uid \in stack[1].uids
HeldInv ==
  job.op # "closed" /\ "hole" \notin gap => \A i \in DOMAIN view : Left(i) => Held(i)

(* The innermost command after a step.                                       *)
LEMMA FinishTop ==
  ASSUME BasicInv, NEW stk, Ended(stk), Finish(stk)
  PROVE  stack' = stk \/ (stack' # <<>> /\ Top'.stage = "running")
<1>1. stk \in Seq(Frame) BY DEF Ended
<1>2. CASE ReadsAgain(stk)
  <2> DEFINE g == ReadHeaders(Len(view) + 1, newCount)
  <2>1. stack' = Append(stk, g) BY <1>2 DEF ReadsAgain
  <2>2. newCount \in Nat BY ImapAssumption DEF BasicInv, ClientTypes
  <2>3. Len(view) + 1 \in Nat \ {0} BY SeqHas DEF BasicInv, ViewTypes
  <2>4. g \in Frame /\ g.stage = "running" BY <2>2, <2>3, ReadHeadersIs
  <2> HIDE DEF g
  <2>5. /\ stack' # <<>> /\ Len(stack') = Len(stk) + 1 /\ stack'[Len(stk) + 1] = g
    BY <1>1, <2>1, <2>4, AppendIs
  <2>6. Top' = stack'[Len(stack')] BY DEF Top
  <2> QED BY <2>4, <2>5, <2>6
<1> QED BY <1>2, FinishCases DEF Settles, Compacts

LEMMA TaggedTop ==
  ASSUME BasicInv, NEW ok \in BOOLEAN, Tagged(ok)
  PROVE  stack' # <<>> /\ (Top'.stage = "running" \/ Top'.ok = ok)
<1>1. StackTypes /\ NestInv BY DEF BasicInv
<1> DEFINE g == [Top EXCEPT !.stage = "done", !.ok = ok]
           stk == Replace(g)
<1>2. /\ stack # <<>>
      /\ Top.stage = "running" \/ Top.stage = "sent"
      /\ Finish(stk)
  BY DEF Tagged
<1>3. Top \in Frame BY <1>1, <1>2, TopIs
<1>4. Top.op = "FETCH" => Top.stage = "running" BY <1>1, <1>2, TopIs DEF NestInv
<1>5. Ended(stk) BY <1>1, <1>2, <1>4, EndedIs
<1>6. g \in Frame /\ g.ok = ok BY <1>3 DEF Frame
<1> HIDE DEF g
<1>7. stk # <<>> /\ Len(stk) = Len(stack) /\ stk[Len(stack)] = g BY <1>1, <1>2, <1>6, ReplaceIs
<1> HIDE DEF stk
<1>8. stack' = stk \/ (stack' # <<>> /\ Top'.stage = "running") BY <1>2, <1>5, FinishTop
<1>9. Top' = stack'[Len(stack')] BY DEF Top
<1> QED BY <1>6, <1>7, <1>8, <1>9

LEMMA CheckFinishTop ==
  ASSUME BasicInv, CheckFinish
  PROVE  stack' = <<>> \/ Top'.stage = "running"
<1>1. stack = <<>> /\ Finish(<<>>) BY DEF CheckFinish
<1>2. Ended(<<>>)
  <2>1. DOMAIN stack = {} /\ stack \in Seq(Frame) BY <1>1 DEF BasicInv, StackTypes
  <2> QED BY <1>1, <2>1 DEF Ended
<1> QED BY <1>1, <1>2, FinishTop

LEMMA SingleTop ==
  ASSUME stack' # <<>>, Len(stack') = 1
  PROVE  Top' = stack'[1]
  BY DEF Top

LEMMA SendsTop ==
  ASSUME BasicInv,
         \/ \E i \in DOMAIN view : FetchMessage(i) \/ SyncMessage(i)
         \/ Check \/ \E b \in BOOLEAN : StartSync(b) \/ StartClose(b)
         \/ CloseUnchanged \/ CheckResult \/ SyncExpunge
         \/ \E hdrs \in Orders : SendsDeletions(hdrs)
  PROVE  stack' = stack \/ (stack' # <<>> /\ Top'.stage # "done")
<1>1. \A op \in Ops, S \in SUBSET Uids : stack' = <<Command(op, S)>> => stack' # <<>> /\ Top'.stage # "done"
  <2> SUFFICES ASSUME NEW op \in Ops, NEW S \in SUBSET Uids, stack' = <<Command(op, S)>>
               PROVE  stack' # <<>> /\ Top'.stage # "done"
    OBVIOUS
  <2>1. Top' = Command(op, S) BY DEF Top
  <2> QED BY <2>1, CommandIs
<1>2. \A S \in SUBSET Uids :
        (\/ stack' = <<Command("NOOP", S)>> \/ stack' = <<Command("UID FETCH", S)>>
         \/ stack' = <<Command("STORE", S)>> \/ stack' = <<Command("STORE deleted", S)>>
         \/ stack' = <<Command("EXPUNGE", S)>> \/ stack' = <<Command("CLOSE", S)>>)
        => stack' # <<>> /\ Top'.stage # "done"
  BY <1>1 DEF Ops
<1>3. {} \in SUBSET Uids OBVIOUS
<1>4. ASSUME NEW i \in DOMAIN view, FetchMessage(i) \/ SyncMessage(i)
      PROVE  stack' # <<>> /\ Top'.stage # "done"
  <2>1. {view[i].uid} \in SUBSET Uids BY HeaderUid DEF BasicInv
  <2> QED BY <1>2, <1>3, <1>4, <2>1 DEF FetchMessage, SyncMessage
<1>5. ASSUME NEW b \in BOOLEAN, Check \/ StartSync(b) \/ StartClose(b)
      PROVE  stack' = stack \/ (stack' # <<>> /\ Top'.stage # "done")
  <2>1. PICK j \in Jobs : BeginCheck(j) BY <1>5, BeginsCheck
  <2> QED BY <1>2, <1>3, <2>1 DEF BeginCheck
<1>6. ASSUME CloseUnchanged \/ CheckResult \/ SyncExpunge
      PROVE  stack' = stack \/ (stack' # <<>> /\ Top'.stage # "done")
  BY <1>2, <1>3, <1>6 DEF CloseUnchanged, CheckResult, SyncExpunge
<1>7. ASSUME NEW hdrs \in Orders, SendsDeletions(hdrs) PROVE stack' # <<>> /\ Top'.stage # "done"
  <2>1. MsgSet(hdrs) \in SUBSET Uids BY MsgSetIs
  <2> QED BY <1>2, <1>7, <2>1 DEF SendsDeletions
<1>8. TRUE \in BOOLEAN OBVIOUS
<1> QED BY <1>4, <1>5, <1>6, <1>7, <1>8

LEMMA RefusedStep ==
  ASSUME BasicInv, RefusedInv, [Next]_vars
  PROVE  RefusedInv'
<1>1. StackTypes /\ ViewTypes /\ NestInv BY DEF BasicInv
<1>2. ASSUME UNCHANGED <<stack, off>>, Inactive' \subseteq Inactive PROVE RefusedInv'
  BY <1>2 DEF RefusedInv, Top
<1>3. ASSUME view' = view PROVE Inactive' = Inactive BY <1>3 DEF Inactive
<1>4. stack' = <<>> => RefusedInv' BY DEF RefusedInv
<1>5. Top'.stage # "done" => RefusedInv' BY DEF RefusedInv
<1>6. UNCHANGED vars => RefusedInv' BY <1>2, <1>3, UntouchedIs
<1>7. ASSUME Deliver \/ (\E u \in Uids : OtherExpunge(u) \/ \E f \in OtherFlags : OtherStore(u, f))
      PROVE  RefusedInv'
  <2>1. UNCHANGED <<stack, off, view>> BY <1>7 DEF Deliver, OtherExpunge, OtherStore, client, history
  <2> QED BY <1>2, <1>3, <2>1
<1>8. CASE Exists
  <2>1. UNCHANGED <<view, off>> /\ (stack' = stack \/ stack' = <<>>) BY <1>8 DEF Exists, history
  <2> QED BY <1>2, <1>3, <1>4, <2>1
<1>9. ASSUME NEW u \in Uids, Expunge(u) PROVE RefusedInv'
  <2>1. stack' = stack /\ Top.stage = "running" BY <1>9 DEF Expunge
  <2>2. Top' = Top BY <2>1 DEF Top
  <2> QED BY <1>5, <2>1, <2>2
<1>10. ASSUME NEW u \in Uids, FetchFlags(u) PROVE RefusedInv'
  <2>1. off' = off \cup Inactive BY <1>10 DEF FetchFlags
  <2>2. Inactive' \subseteq Inactive BY <1>10, FetchFlagsIs DEF Inactive
  <2> QED BY <2>1, <2>2 DEF RefusedInv
<1>11. CASE FetchHeader
  <2> DEFINE g(e) == [Top EXCEPT !.next = @ + 1, !.end = e]
  <2>1. Running("FETCH") /\ \E e \in {newCount, Top.end} : stack' = Replace(g(e))
    BY <1>11 DEF FetchHeader
  <2>2. PICK e \in {newCount, Top.end} : stack' = Replace(g(e)) BY <2>1
  <2>3. stack # <<>> /\ Top.stage = "running" BY <2>1 DEF Running
  <2>4. Top \in Frame BY <1>1, <2>3, TopIs
  <2>5. g(e) \in Frame /\ g(e).stage = "running"
    <3>1. newCount \in Nat BY ImapAssumption DEF BasicInv, ClientTypes
    <3>2. Top.next + 1 \in Nat /\ Top.end \in Nat BY <2>4 DEF Frame
    <3>3. e \in Nat BY <2>2, <3>1, <3>2
    <3> QED BY <2>3, <2>4, <3>2, <3>3 DEF Frame
  <2> HIDE DEF g
  <2>6. Len(stack') = Len(stack) /\ stack'[Len(stack)] = g(e) BY <1>1, <2>2, <2>3, <2>5, ReplaceIs
  <2>7. Top' = g(e) BY <2>6 DEF Top
  <2> QED BY <1>5, <2>5, <2>7
<1>12. CASE ReadNext
  <2>1. stack # <<>> /\ Top.stage = "done" /\ UNCHANGED <<view, off>> BY <1>12, ReadNextCases
  <2>2. CASE Top.ok /\ ReadsMore(Top)
    <3> DEFINE g == [Top EXCEPT !.stage = "running", !.next = MsgNo(Top), !.last = ReadEnd(Top), !.end = ReadEnd(Top)]
    <3>1. ReadEnd(Top) \in Nat /\ MsgNo(Top) \in Nat BY <1>12, <2>1, <2>2, ReadNextCases, ReadEndIs
    <3>2. Top \in Frame BY <1>1, <2>1, TopIs
    <3>3. g \in Frame /\ g.stage = "running" BY <3>1, <3>2 DEF Frame
    <3>4. stack' = Replace(g) BY <2>2 DEF ReadsMore
    <3> HIDE DEF g
    <3>5. Len(stack') = Len(stack) /\ stack'[Len(stack)] = g BY <1>1, <2>1, <3>3, <3>4, ReplaceIs
    <3>6. Top' = g BY <3>5 DEF Top
    <3> QED BY <1>5, <3>3, <3>6
  <2>3. CASE Top.ok /\ HasRead(Top)
    <3>1. stack' = Nested(TRUE) BY <2>3 DEF HasRead
    <3>2. ASSUME stack' # <<>> PROVE Top'.ok
      <4>1. /\ stack' \in Seq(Frame) /\ Len(stack') = Len(stack) - 1
            /\ DOMAIN stack' = 1..(Len(stack) - 1)
            /\ \A i \in DOMAIN stack' :
                 /\ i \in DOMAIN stack
                 /\ stack'[i] = IF i = Len(stack) - 1 THEN [stack[i] EXCEPT !.ok = TRUE] ELSE stack[i]
        BY <1>1, <2>1, <3>1, NestedIs
      <4> DEFINE k == Len(stack) - 1
      <4>2. k \in DOMAIN stack' /\ k \in DOMAIN stack
        <5>1. Len(stack) \in Nat \ {0} BY <1>1, <2>1, TopIs
        <5>2. Len(stack') # 0 BY <3>2, <4>1, SeqHas
        <5> QED BY <4>1, <5>1, <5>2
      <4>3. Top' = stack'[k] BY <4>1 DEF Top
      <4>4. stack'[k] = [stack[k] EXCEPT !.ok = TRUE] /\ stack[k] \in Frame
        BY <1>1, <4>1, <4>2, SeqHas DEF StackTypes
      <4>5. stack'[k].ok BY <4>4 DEF Frame
      <4> QED BY <4>3, <4>5
    <3> QED BY <3>2 DEF RefusedInv
  <2>4. CASE ~Top.ok
    <3>1. Inactive \subseteq off BY <2>1, <2>4 DEF RefusedInv
    <3> QED BY <1>3, <2>1, <3>1 DEF RefusedInv
  <2> QED BY <1>12, <2>2, <2>3, <2>4, ReadNextCases
<1>13. ASSUME NEW ok \in BOOLEAN, Tagged(ok) PROVE RefusedInv'
  <2>1. Top'.stage = "running" \/ Top'.ok = ok BY <1>13, TaggedTop
  <2>2. ~ok => Inactive \subseteq off' BY <1>13, TaggedIs
  <2>3. Inactive' \subseteq Inactive
    <3>1. Ends BY <1>13, TaggedEnds
    <3>2. CASE view' = view BY <1>3, <3>2
    <3>3. CASE \A k \in DOMAIN view' : view'[k].active BY <3>3 DEF Inactive
    <3> QED BY <3>1, <3>2, <3>3 DEF Ends
  <2> QED BY <2>1, <2>2, <2>3 DEF RefusedInv
<1>14. CASE CheckFinish
  <2>1. stack' = <<>> \/ Top'.stage = "running" BY <1>14, CheckFinishTop
  <2> QED BY <1>4, <1>5, <2>1
<1>15. ASSUME Reopen, UNCHANGED server PROVE RefusedInv'
  <2>1. Inactive' = {}
    <3>1. DOMAIN view' = {} BY <1>15, ReopenIs
    <3> QED BY <3>1 DEF Inactive
  <2> QED BY <2>1 DEF RefusedInv
<1>16. ASSUME NEW b \in BOOLEAN, Lose(b) PROVE RefusedInv' BY <1>4, <1>15, <1>16, LoseIs
<1>17. CASE Execute
  <2>1. stack' # <<>> /\ Len(stack') = 1 /\ stack'[1].stage = "running" BY <1>17, ExecuteIs
  <2> QED BY <1>5, <2>1, SingleTop
<1>18. ASSUME NEW i \in DOMAIN view, NEW f \in Flags, Toggle(i, f) PROVE RefusedInv'
  BY <1>4, <1>18, ToggleIs
<1>19. ASSUME NEW i \in DOMAIN view, FetchMessage(i) \/ SyncMessage(i) PROVE RefusedInv'
  <2>1. stack = <<>> BY <1>19, FetchMessageIs, SyncMessageIs
  <2> QED BY <1>4, <1>5, <1>19, <2>1, SendsTop
<1>20. ASSUME \/ Check \/ \E b \in BOOLEAN : StartSync(b) \/ StartClose(b)
              \/ CloseUnchanged \/ CheckResult \/ SyncExpunge
       PROVE  RefusedInv'
  <2>1. stack = <<>> BY <1>20, Beginning DEF Begins
  <2> QED BY <1>4, <1>5, <1>20, <2>1, SendsTop
<1>21. ASSUME NEW b \in BOOLEAN, Return(b) PROVE RefusedInv' BY <1>4, <1>21, ReturnIs
<1>22. CASE SyncDelete
  <2>1. stack = <<>> BY <1>22, SyncDeleteCases
  <2>2. ASSUME NEW hdrs \in Orders, SendsDeletions(hdrs) PROVE RefusedInv'
    BY <1>4, <1>5, <2>1, <2>2, SendsTop
  <2>3. stack' = stack => RefusedInv' BY <1>4, <2>1
  <2> QED BY <1>22, <2>2, <2>3, SyncDeleteCases
<1> QED BY <1>6, <1>7, <1>8, <1>9, <1>10, <1>11, <1>12, <1>13, <1>14, <1>15, <1>16, <1>17, <1>18,
           <1>19, <1>20, <1>21, <1>22, StepKinds

(* With no header missing, UIDs tell headers apart.                          *)
LEMMA OneOfUid ==
  ASSUME ViewTypes, AgreeInv, "hole" \notin gap,
         NEW i \in DOMAIN view, NEW j \in DOMAIN view, view[i].uid = view[j].uid
  PROVE  i = j
<1>1. i \in Int /\ j \in Int BY SeqHas DEF ViewTypes
<1>2. view[i].uid \in Int BY HeaderUid
<1>3. ~(i < j) /\ ~(j < i) BY <1>2 DEF AgreeInv, OrderInv
<1> QED BY <1>1, <1>3

LEMMA PlacedStep ==
  ASSUME BasicInv, AgreeInv, PlacedInv, [Next]_vars
  PROVE  PlacedInv'
<1>1. ViewTypes BY DEF BasicInv
<1>2. (stack' # <<>> => stack'[1].op # "STORE") => PlacedInv' BY DEF PlacedInv, Sent
<1>3. ASSUME UNCHANGED <<stack, job, view, gap>> PROVE PlacedInv' BY <1>3 DEF PlacedInv, Sent
<1>4. UNCHANGED vars => PlacedInv' BY <1>3, UntouchedIs
<1>5. ASSUME Deliver \/ (\E u \in Uids : OtherExpunge(u) \/ \E f \in OtherFlags : OtherStore(u, f))
      PROVE  PlacedInv'
  BY <1>3, <1>5 DEF Deliver, OtherExpunge, OtherStore, client, history
<1>6. ASSUME Exists \/ (\E u \in Uids : Expunge(u) \/ FetchFlags(u)) \/ FetchHeader \/ ReadNext
      PROVE  PlacedInv'
  <2>1. Responds BY <1>6, Responses
  <2>2. CASE stack' = <<>> BY <1>2, <2>2
  <2>3. CASE OuterStays /\ stack' # <<>>
    <3>1. stack # <<>> /\ stack'[1].op = stack[1].op /\ stack'[1].uids = stack[1].uids
      BY <2>3 DEF OuterStays
    <3>2. Sent("STORE") => job' = job
      <4>1. job.op = "open" => stack[1].op = "FETCH" BY DEF BasicInv, JobInv
      <4> QED BY <2>1, <2>3, <4>1 DEF Responds, Sent
    <3> QED BY <2>1, <3>1, <3>2 DEF Responds, Advances, PlacedInv, Sent
  <2> QED BY <2>1, <2>2, <2>3 DEF Responds
<1>7. ASSUME NEW ok \in BOOLEAN, Tagged(ok) PROVE PlacedInv'
  <2>1. Ends /\ job' = job /\ stack # <<>> BY <1>7, TaggedEnds
  <2>2. stack'[1].op = stack[1].op /\ stack'[1].uids = stack[1].uids
        /\ ("hole" \notin gap' => "hole" \notin gap)
    BY <2>1 DEF Ends
  <2>3. CASE view' = view BY <2>1, <2>2, <2>3 DEF PlacedInv, Sent
  <2>4. CASE \A k \in DOMAIN view' : view'[k].active BY <2>4 DEF PlacedInv
  <2> QED BY <2>1, <2>3, <2>4 DEF Ends
<1>8. CASE CheckFinish
  <2>1. Ends /\ stack = <<>> BY <1>8, CheckFinishEnds
  <2> QED BY <1>2, <2>1 DEF Ends
<1>9. ASSUME Reopen, UNCHANGED server PROVE PlacedInv' BY <1>2, <1>9, ReopenIs
<1>10. ASSUME NEW b \in BOOLEAN, Lose(b) PROVE PlacedInv' BY <1>2, <1>9, <1>10, LoseIs
<1>11. CASE Execute BY <1>2, <1>11, ExecuteIs
<1>12. ASSUME NEW i \in DOMAIN view, NEW f \in Flags, Toggle(i, f) PROVE PlacedInv'
  BY <1>2, <1>12, ToggleIs
<1>13. ASSUME NEW i \in DOMAIN view, FetchMessage(i) PROVE PlacedInv' BY <1>2, <1>13, FetchMessageIs
<1>14. ASSUME NEW i \in DOMAIN view, SyncMessage(i) PROVE PlacedInv'
  <2>1. /\ DOMAIN view' = DOMAIN view /\ view'[i].uid = view[i].uid
        /\ \A j \in DOMAIN view : j # i => view'[j] = view[j]
        /\ stack'[1].uids = {view[i].uid} /\ job'.pos = i /\ gap' = gap
    BY <1>14, SyncMessageIs
  <2>2. ASSUME "hole" \notin gap, NEW j \in DOMAIN view, view'[j].uid = view[i].uid PROVE j = i
    <3>1. view[j].uid = view[i].uid BY <2>1, <2>2
    <3> QED BY <1>1, <2>2, <3>1, OneOfUid
  <2> QED BY <2>1, <2>2 DEF PlacedInv
<1>15. CASE Begins BY <1>2, <1>15 DEF Begins
<1>16. ASSUME NEW b \in BOOLEAN, Return(b) PROVE PlacedInv' BY <1>2, <1>16, ReturnIs
<1>17. CASE SyncDelete
  <2>1. ASSUME NEW hdrs \in Orders, SendsDeletions(hdrs) PROVE PlacedInv' BY <1>2, <2>1, DeletionsAre
  <2>2. stack = <<>> BY <1>17, SyncDeleteCases
  <2> QED BY <1>2, <1>17, <2>1, <2>2, SyncDeleteCases
<1> QED BY <1>4, <1>5, <1>6, <1>7, <1>8, <1>9, <1>10, <1>11, <1>12, <1>13, <1>14, <1>15, <1>16, <1>17,
           Beginning, StepKinds

(* Steps after which a header is held that is left inactive. *)
LEMMA HeldStays ==
  ASSUME HeldInv, job'.op # "closed" => job.op # "closed", "hole" \notin gap' => "hole" \notin gap,
         \A k \in DOMAIN view' : Left(k)' =>
           Held(k)' \/ \E i \in DOMAIN view : Left(i) /\ (Held(i) => Held(k)')
  PROVE  HeldInv'
  BY DEF HeldInv

(* Where nothing is in progress, no header is left inactive. *)
LEMMA NoneHeld ==
  ASSUME HeldInv, stack = <<>>, job'.op # "closed" => job.op # "closed",
         "hole" \notin gap' => "hole" \notin gap,
         \A k \in DOMAIN view' : Left(k)' => Held(k)' \/ \E i \in DOMAIN view : Left(i)
  PROVE  HeldInv'
<1>1. \A i \in DOMAIN view : ~Held(i) BY DEF Held, Sent
<1> QED BY <1>1, HeldStays

LEMMA RespondsHeld ==
  ASSUME BasicInv, HeldInv, Responds
  PROVE  HeldInv'
<1>1. CASE stack' = <<>> /\ job'.op = "closed" BY <1>1 DEF HeldInv
<1>2. CASE OuterStays /\ (job' = job \/ job.op = "open")
  <2>1. job.op = "open" \/ stack = <<>> => \A i \in DOMAIN view : ~Held(i)
    BY DEF BasicInv, JobInv, Held, Sent
  <2>2. job.op # "open" /\ (Sent("UID FETCH") \/ Sent("STORE")) =>
          job' = job /\ stack' # <<>> /\ stack'[1].op = stack[1].op /\ stack'[1].uids = stack[1].uids
    BY <1>2 DEF OuterStays, Sent
  <2>3. job.op = "closed" => job' = job BY <1>2
  <2>4. "hole" \notin gap' => "hole" \notin gap BY DEF Responds
  <2>5. off \cup swept \subseteq off' \cup swept' BY DEF Responds
  <2>6. ASSUME NEW k \in DOMAIN view', Left(k)' PROVE k \in DOMAIN view /\ Left(k) /\ (Held(k) => Held(k)')
    <3>1. k \in DOMAIN view BY <2>6 DEF Responds, Advances, Left
    <3>2. view'[k].uid = view[k].uid /\ view'[k].active = view[k].active
          /\ view'[k].changed = view[k].changed
      BY <3>1 DEF Responds, Advances
    <3>3. Left(k) BY <2>5, <2>6, <3>2 DEF Left
    <3>4. ASSUME Held(k) PROVE Held(k)'
      <4>1. job.op # "open" BY <2>1, <3>1, <3>4
      <4>2. Sent("UID FETCH") \/ Sent("STORE") BY <3>4 DEF Held
      <4>3. job' = job /\ stack' # <<>> /\ stack'[1].op = stack[1].op /\ stack'[1].uids = stack[1].uids
        BY <2>2, <4>1, <4>2
      <4> QED BY <3>2, <3>4, <4>3 DEF Held, Sent
    <3> QED BY <3>1, <3>3, <3>4
  <2> QED BY <2>3, <2>4, <2>6, HeldStays
<1> QED BY <1>1, <1>2 DEF Responds

LEMMA ReturnHeld ==
  ASSUME BasicInv, RefusedInv, PlacedInv, HeldInv, NEW b \in BOOLEAN, Return(b)
  PROVE  HeldInv'
<1>1. /\ stack # <<>> /\ stack[1].stage = "done" /\ Top = stack[1]
      /\ UNCHANGED <<gap, off, swept>> /\ DOMAIN view' = DOMAIN view
      /\ \A i \in DOMAIN view :
           /\ view'[i].uid = view[i].uid /\ view'[i].changed = view[i].changed
           /\ view'[i] = view[i] \/ view'[i].active
      /\ Sent("UID FETCH") => view'[job.pos].active
      /\ Sent("STORE") /\ stack[1].ok /\ job.pos \in DOMAIN view /\ view[job.pos].uid \in stack[1].uids
              => view'[job.pos].active
  BY ReturnIs
<1>2. job.op # "closed" BY <1>1 DEF BasicInv, JobInv
<1>3. ASSUME "hole" \notin gap, NEW i \in DOMAIN view, Left(i)' PROVE FALSE
  <2>1. ~view'[i].active /\ view'[i] = view[i] BY <1>1, <1>3 DEF Left
  <2>2. Left(i) BY <1>1, <1>3, <2>1 DEF Left
  <2>3. Held(i) BY <1>2, <1>3, <2>2 DEF HeldInv
  <2>4. Sent("STORE") /\ view[i].uid \in stack[1].uids BY <1>1, <2>1, <2>3 DEF Held
  <2>5. i = job.pos BY <1>3, <2>2, <2>4 DEF PlacedInv, Left
  <2>6. ~stack[1].ok BY <1>1, <1>3, <2>1, <2>4, <2>5
  <2>7. Inactive \subseteq off BY <1>1, <2>6 DEF RefusedInv
  <2>8. view[i].uid \in Inactive BY <1>3, <2>2 DEF Inactive, Left
  <2> QED BY <2>2, <2>7, <2>8 DEF Left
<1> QED BY <1>1, <1>3 DEF HeldInv

LEMMA HeldStep ==
  ASSUME BasicInv, AgreeInv, RefusedInv, PlacedInv, HeldInv, [Next]_vars
  PROVE  HeldInv'
<1>1. ASSUME UNCHANGED <<stack, job, view, gap, off, swept>> PROVE HeldInv'
  BY <1>1 DEF HeldInv, Held, Left, Sent
<1>2. UNCHANGED vars => HeldInv' BY <1>1, UntouchedIs
<1>3. ASSUME Deliver \/ (\E u \in Uids : OtherExpunge(u) \/ \E f \in OtherFlags : OtherStore(u, f))
      PROVE  HeldInv'
  BY <1>1, <1>3 DEF Deliver, OtherExpunge, OtherStore, client, history
<1>4. ASSUME Exists \/ (\E u \in Uids : Expunge(u) \/ FetchFlags(u)) \/ FetchHeader \/ ReadNext
      PROVE  HeldInv'
  BY <1>4, Responses, RespondsHeld
<1>5. ASSUME NEW ok \in BOOLEAN, Tagged(ok) PROVE HeldInv'
  <2>1. Ends /\ job' = job /\ stack # <<>> /\ swept' = swept BY <1>5, TaggedEnds
  <2>2. off \subseteq off' BY <1>5, TaggedIs
  <2>3. /\ stack' # <<>> /\ stack'[1].op = stack[1].op /\ stack'[1].uids = stack[1].uids
        /\ "hole" \notin gap' => "hole" \notin gap
    BY <2>1 DEF Ends
  <2>4. CASE view' = view
    <3>1. ASSUME NEW k \in DOMAIN view, Left(k)' PROVE Left(k) /\ (Held(k) => Held(k)')
      BY <2>1, <2>2, <2>3, <2>4, <3>1 DEF Left, Held, Sent
    <3> QED BY <2>1, <2>3, <2>4, <3>1, HeldStays
  <2>5. CASE \A k \in DOMAIN view' : view'[k].active BY <2>5 DEF HeldInv, Left
  <2> QED BY <2>1, <2>4, <2>5 DEF Ends
<1>6. CASE CheckFinish
  <2>1. Ends /\ stack = <<>> /\ UNCHANGED <<off, swept>> /\ job'.op = job.op BY <1>6, CheckFinishEnds
  <2>2. \A k \in DOMAIN view' : \E i \in DOMAIN view : view'[k] = view[i] BY <2>1 DEF Ends
  <2>3. \A k \in DOMAIN view' : Left(k)' => \E i \in DOMAIN view : Left(i) BY <2>1, <2>2 DEF Left
  <2>4. "hole" \notin gap' => "hole" \notin gap BY <2>1 DEF Ends
  <2> QED BY <2>1, <2>3, <2>4, NoneHeld
<1>7. ASSUME Reopen, UNCHANGED server PROVE HeldInv'
  <2>1. DOMAIN view' = {} BY <1>7, ReopenIs
  <2> QED BY <2>1 DEF HeldInv
<1>8. ASSUME NEW b \in BOOLEAN, Lose(b) PROVE HeldInv'
  <2>1. job'.op = "closed" => HeldInv' BY DEF HeldInv
  <2> QED BY <1>7, <1>8, <2>1, LoseIs
<1>9. CASE Execute
  <2>1. /\ stack[1].op \in {"EXPUNGE", "CLOSE"} /\ UNCHANGED <<view, job, gap, off, swept>>
    BY <1>9, ExecuteIs
  <2>2. \A i \in DOMAIN view : ~Held(i) BY <2>1 DEF Held, Sent
  <2>3. \A i \in DOMAIN view : Left(i)' => Left(i) BY <2>1 DEF Left
  <2> QED BY <2>1, <2>2, <2>3, HeldStays
<1>10. ASSUME NEW i \in DOMAIN view, NEW f \in Flags, Toggle(i, f) PROVE HeldInv'
  <2>1. /\ DOMAIN view' = DOMAIN view /\ view'[i].changed
        /\ \A j \in DOMAIN view : j # i => view'[j] = view[j]
        /\ stack = <<>> /\ UNCHANGED <<job, gap, off, swept>>
    BY <1>10, ToggleIs
  <2>2. \A j \in DOMAIN view : Left(j)' => Left(j) BY <2>1 DEF Left
  <2> QED BY <2>1, <2>2, NoneHeld
<1>11. ASSUME NEW i \in DOMAIN view, FetchMessage(i) PROVE HeldInv'
  <2>1. /\ DOMAIN view' = DOMAIN view
        /\ \A j \in DOMAIN view : j # i => view'[j] = view[j]
        /\ stack = <<>> /\ job.op = "idle" /\ UNCHANGED <<gap, off, swept>>
        /\ stack' # <<>> /\ stack'[1].op = "UID FETCH" /\ job'.pos = i
    BY <1>11, FetchMessageIs
  <2>2. Held(i)' BY <2>1 DEF Held, Sent
  <2>3. \A j \in DOMAIN view : j # i /\ Left(j)' => Left(j) BY <2>1 DEF Left
  <2> QED BY <2>1, <2>2, <2>3, NoneHeld
<1>12. ASSUME NEW i \in DOMAIN view, SyncMessage(i) PROVE HeldInv'
  <2>1. /\ DOMAIN view' = DOMAIN view /\ view'[i].uid = view[i].uid
        /\ \A j \in DOMAIN view : j # i => view'[j] = view[j]
        /\ stack = <<>> /\ job'.op = job.op /\ UNCHANGED <<gap, off, swept>>
        /\ stack' # <<>> /\ stack'[1].op = "STORE" /\ stack'[1].uids = {view[i].uid}
    BY <1>12, SyncMessageIs
  <2>2. Held(i)' BY <2>1 DEF Held, Sent
  <2>3. \A j \in DOMAIN view : j # i /\ Left(j)' => Left(j) BY <2>1 DEF Left
  <2> QED BY <2>1, <2>2, <2>3, NoneHeld
<1>13. CASE Begins
  <2>1. stack = <<>> /\ job.op # "closed" /\ UNCHANGED <<view, gap, off, swept>> BY <1>13 DEF Begins
  <2>2. \A j \in DOMAIN view : Left(j)' => Left(j) BY <2>1 DEF Left
  <2> QED BY <2>1, <2>2, NoneHeld
<1>14. ASSUME NEW b \in BOOLEAN, Return(b) PROVE HeldInv' BY <1>14, ReturnHeld
<1>15. CASE SyncDelete
  <2>1. stack = <<>> /\ UNCHANGED <<gap, off>> /\ job.phase = "delete" BY <1>15, SyncDeleteCases
  <2>2. job.op # "closed" BY <2>1 DEF BasicInv, JobInv
  <2>3. ASSUME NEW hdrs \in Orders, SendsDeletions(hdrs) PROVE HeldInv'
    <3>1. /\ DOMAIN view' = DOMAIN view
          /\ \A i \in DOMAIN view :
               /\ view'[i].uid = view[i].uid /\ view'[i].changed = view[i].changed
               /\ ~Marks(view[i]) => view'[i] = view[i]
          /\ swept \subseteq swept'
      BY <2>3, DeletionsAre
    <3>2. ASSUME NEW j \in DOMAIN view, Left(j)' PROVE Left(j)
      <4>1. ~Marks(view[j]) BY <3>1, <3>2 DEF Left, Marks
      <4> QED BY <2>1, <3>1, <3>2, <4>1 DEF Left
    <3> QED BY <2>1, <2>2, <3>1, <3>2, NoneHeld
  <2>4. CASE UNCHANGED <<view, stack, swept>>
    <3>1. \A j \in DOMAIN view : Left(j)' => Left(j) BY <2>1, <2>4 DEF Left
    <3> QED BY <2>1, <2>2, <2>4, <3>1, NoneHeld
  <2> QED BY <1>15, <2>3, <2>4, SyncDeleteCases
<1> QED BY <1>2, <1>3, <1>4, <1>5, <1>6, <1>7, <1>8, <1>9, <1>10, <1>11, <1>12, <1>13, <1>14, <1>15,
           Beginning, StepKinds

-----------------------------------------------------------------------------
(* The flags of headers.  A header that is active, or will be when the       *)
(* command about it has ended, shows the flags the server has told.          *)
Claimed(i) == \/ view[i].active
              \/ Sent("UID FETCH") /\ i = job.pos
              \/ Sent("STORE") /\ stack[1].stage = "done" /\ view[i].uid \in stack[1].uids
Shows(i) == view[i].flags = toldFlags[view[i].uid]
Bound(i) == Claimed(i) /\ ~view[i].changed /\ view[i].idx # 0 /\ view[i].uid \notin off \cup swept
FlagsInv == "hole" \notin gap => \A i \in DOMAIN view : Bound(i) => Shows(i)

(* A message with a header has a number among those of the headers.          *)
LEMMA SeqnoOfHeader ==
  ASSUME ToldTypes, ViewTypes, AgreeInv, "hole" \notin gap, NEW i \in DOMAIN view, view[i].idx # 0
  PROVE  /\ view[i].uid \in told /\ view[i].idx = Seqno(view[i].uid)
         /\ Seqno(view[i].uid) \in Int /\ Seqno(view[i].uid) <= Len(view)
<1>1. view[i].uid \in told /\ view[i].idx = Seqno(view[i].uid) BY DEF AgreeInv, NumbersInv
<1>2. /\ LiveUids \in SUBSET told /\ \A x \in LiveUids, y \in told : y < x => y \in LiveUids
      /\ Cardinality(LiveUids) = Cardinality(Live)
  BY LiveFirst
<1>3. told \in SUBSET (1..MaxUid) /\ MaxUid \in Nat BY ToldCount, ImapAssumption
<1>4. \A x \in LiveUids : Rank(told, x) \in 1..Cardinality(LiveUids) BY <1>2, <1>3, RankInitial
<1>5. view[i].uid \in LiveUids BY DEF LiveUids, Live
<1>6. Len(view) \in Nat /\ DOMAIN view = 1..Len(view) BY SeqHas DEF ViewTypes
<1>7. Cardinality(Live) \in Nat /\ Cardinality(Live) <= Len(view)
  <2>1. Live \in SUBSET (1..Len(view)) BY <1>6 DEF Live
  <2> QED BY <1>6, <2>1, SubsetOfRange
<1>8. Seqno(view[i].uid) \in 1..Cardinality(Live) BY <1>2, <1>4, <1>5 DEF Seqno
<1> QED BY <1>1, <1>6, <1>7, <1>8

(* The number in a FETCH response leads to the active header of the message, *)
(* and to no other.                                                          *)
LEMMA FoundIs ==
  ASSUME ToldTypes, ViewTypes, AgreeInv, "hole" \notin gap,
         NEW u \in told, NEW i \in DOMAIN view, view[i].active, view[i].idx # 0
  PROVE  i \in Found(Seqno(u)) <=> view[i].uid = u
<1>1. told \in SUBSET (1..MaxUid) /\ MaxUid \in Nat BY ToldCount, ImapAssumption
<1>2. \A j \in DOMAIN view : view[j].idx # 0 => view[j].uid \in told /\ view[j].idx = Rank(told, view[j].uid)
  BY DEF AgreeInv, NumbersInv, Seqno
<1>3. \A j \in DOMAIN view : view[j].idx # 0 => (view[j].idx = Seqno(u) <=> view[j].uid = u)
  <2> SUFFICES ASSUME NEW j \in DOMAIN view, view[j].idx # 0
               PROVE  view[j].idx = Seqno(u) <=> view[j].uid = u
    OBVIOUS
  <2> DEFINE x == view[j].uid
  <2>1. x \in told /\ view[j].idx = Rank(told, x) BY <1>2
  <2> HIDE DEF x
  <2>2. Rank(told, x) = Rank(told, u) => x = u BY <1>1, <2>1, RankEqual
  <2>3. Rank(told, x) = Rank(told, u) <=> x = u BY <2>2
  <2> QED BY <2>1, <2>3 DEF Seqno, x
<1>4. ASSUME view[i].uid = u PROVE i \in Found(Seqno(u))
  <2>1. Seqno(u) <= Len(view) /\ view[i].idx = Seqno(u) BY <1>4, SeqnoOfHeader
  <2>2. ASSUME NEW j \in 1..(i - 1), view[j].active, view[j].idx = Seqno(u) PROVE FALSE
    <3>1. i \in Int /\ DOMAIN view = 1..Len(view) /\ Len(view) \in Nat BY SeqHas DEF ViewTypes
    <3>2. j \in DOMAIN view /\ j # i BY <3>1
    <3>3. view[j].idx # 0 BY <2>1, <2>2
    <3>4. view[j].uid = u BY <1>3, <2>2, <3>2, <3>3
    <3> QED BY <1>4, <3>2, <3>4, OneOfUid
  <2> QED BY <2>1, <2>2 DEF Found
<1>5. i \in Found(Seqno(u)) => view[i].idx = Seqno(u) BY DEF Found
<1> QED BY <1>3, <1>4, <1>5

LEMMA FetchFlagsShow ==
  ASSUME BasicInv, AgreeInv, FlagsInv, NEW u \in Uids, FetchFlags(u)
  PROVE  FlagsInv'
<1>1. ToldTypes /\ ViewTypes /\ PlaceInv BY DEF BasicInv
<1>2. /\ u \in told /\ toldFlags' = [toldFlags EXCEPT ![u] = flags[u]]
      /\ off' = off \cup Inactive /\ swept' = swept
  BY DEF FetchFlags
<1>3. "hole" \notin gap' => "hole" \notin gap BY FetchFlagsResponds DEF Responds
<1>4. /\ DOMAIN view' = DOMAIN view
      /\ \A i \in DOMAIN view :
              /\ view'[i].uid = view[i].uid /\ view'[i].idx = view[i].idx
              /\ view'[i].active = view[i].active /\ view'[i].changed = view[i].changed
              /\ Told(i, Seqno(u)) => view'[i].flags = flags[u]
              /\ ~Told(i, Seqno(u)) => view'[i].flags = view[i].flags
      /\ Top.op = "UID FETCH" => Sent("UID FETCH")
  BY FetchFlagsIs
<1>5. ASSUME "hole" \notin gap', NEW i \in DOMAIN view, Bound(i)' PROVE Shows(i)'
  <2>1. /\ ~view[i].changed /\ view[i].idx # 0 /\ view[i].uid \notin off \cup swept
        /\ view[i].uid \notin Inactive
    BY <1>2, <1>4, <1>5 DEF Bound
  <2>2. view[i].active BY <2>1 DEF Inactive
  <2>3. Bound(i) BY <2>1, <2>2 DEF Bound, Claimed
  <2>4. Told(i, Seqno(u)) <=> i \in Found(Seqno(u))
    <3>1. Top.op = "UID FETCH" => i # job.pos BY <1>1, <1>4, <2>2 DEF PlaceInv
    <3> QED BY <2>1, <3>1 DEF Told
  <2>5. i \in Found(Seqno(u)) <=> view[i].uid = u
    BY <1>1, <1>2, <1>3, <1>5, <2>1, <2>2, FoundIs
  <2>6. CASE view[i].uid = u
    <3>1. view'[i].flags = flags[u] BY <1>4, <2>4, <2>5, <2>6
    <3>2. toldFlags'[u] = flags[u] BY <1>1, <1>2 DEF ToldTypes
    <3> QED BY <1>4, <2>6, <3>1, <3>2 DEF Shows
  <2>7. CASE view[i].uid # u
    <3>1. view'[i].flags = view[i].flags BY <1>4, <2>4, <2>5, <2>7
    <3>2. toldFlags'[view[i].uid] = toldFlags[view[i].uid]
      <4>1. view[i].uid \in Uids BY <1>1, HeaderUid
      <4> QED BY <1>1, <1>2, <2>7, <4>1 DEF ToldTypes
    <3>3. Shows(i) BY <1>3, <1>5, <2>3 DEF FlagsInv
    <3> QED BY <1>4, <3>1, <3>2, <3>3 DEF Shows
  <2> QED BY <2>6, <2>7
<1> QED BY <1>4, <1>5 DEF FlagsInv

(* Other responses and reading leave the flags of headers alone.  A header   *)
(* that is claimed afterwards was so before.                                 *)
LEMMA RespondsClaimed ==
  ASSUME BasicInv, Responds, NEW i \in DOMAIN view, Claimed(i)'
  PROVE  Claimed(i)
<1>1. view'[i].uid = view[i].uid /\ view'[i].active = view[i].active BY DEF Responds, Advances
<1>2. CASE view[i].active BY <1>2 DEF Claimed
<1>3. CASE ~view[i].active
  <2>1. stack' # <<>> BY <1>1, <1>3 DEF Claimed, Sent
  <2>2. OuterStays /\ stack # <<>> /\ stack'[1].op = stack[1].op /\ stack'[1].uids = stack[1].uids
    BY <2>1 DEF Responds, OuterStays
  <2>3. stack[1].op # "FETCH" BY <1>1, <1>3, <2>2 DEF Claimed, Sent
  <2>4. stack'[1].stage = stack[1].stage BY <2>2, <2>3 DEF OuterStays
  <2>5. job' = job
    <3>1. job.op = "open" => stack[1].op = "FETCH" BY DEF BasicInv, JobInv
    <3> QED BY <2>1, <2>3, <3>1 DEF Responds
  <2> QED BY <1>1, <1>3, <2>1, <2>2, <2>4, <2>5 DEF Claimed, Sent
<1> QED BY <1>2, <1>3

LEMMA ExistsShow ==
  ASSUME BasicInv, AgreeInv, FlagsInv, Exists
  PROVE  FlagsInv'
<1>1. ToldTypes /\ ViewTypes BY DEF BasicInv
<1>2. view' = view /\ UNCHANGED <<gap, off, swept>> BY DEF Exists, history
<1>3. \A u \in told : toldFlags'[u] = toldFlags[u]
  <2> DEFINE new == {u \in mail : \A v \in told : v < u}
  <2>1. toldFlags' = [u \in Uids |-> IF u \in new THEN flags[u] ELSE toldFlags[u]] BY DEF Exists
  <2>2. \A u \in told : u \notin new
    <3>1. \A u \in told : u \in Int BY <1>1, ImapAssumption DEF ToldTypes, Uids
    <3> QED BY <3>1
  <2> HIDE DEF new
  <2> QED BY <1>1, <2>1, <2>2 DEF ToldTypes
<1>4. ASSUME "hole" \notin gap', NEW i \in DOMAIN view, Bound(i)' PROVE Shows(i)'
  <2>1. Claimed(i) BY <1>4, ExistsResponds, RespondsClaimed DEF Bound
  <2>2. Bound(i) /\ view[i].idx # 0 BY <1>2, <1>4, <2>1 DEF Bound
  <2>3. view[i].uid \in told BY <2>2 DEF AgreeInv, NumbersInv
  <2>4. Shows(i) BY <1>2, <1>4, <2>2 DEF FlagsInv
  <2> QED BY <1>2, <1>3, <2>3, <2>4 DEF Shows
<1> QED BY <1>2, <1>4 DEF FlagsInv

LEMMA ExpungeShow ==
  ASSUME BasicInv, FlagsInv, NEW u \in Uids, Expunge(u)
  PROVE  FlagsInv'
<1>1. ToldTypes /\ ViewTypes BY DEF BasicInv
<1>2. u \in told /\ view' = Renumbered(view, Seqno(u)) /\ UNCHANGED <<toldFlags, gap, off, swept>>
  BY DEF Expunge, history
<1>3. Seqno(u) \in 1..MaxUid BY <1>1, <1>2, SeqnoBounds
<1>4. /\ DOMAIN view' = DOMAIN view
      /\ \A i \in DOMAIN view :
           /\ view'[i].uid = view[i].uid /\ view'[i].flags = view[i].flags
           /\ view'[i].changed = view[i].changed
           /\ view'[i].idx = IF view[i].idx = Seqno(u) THEN 0
                             ELSE IF view[i].idx > Seqno(u) THEN view[i].idx - 1 ELSE view[i].idx
  BY <1>1, <1>2, <1>3, RenumberedIs DEF ViewTypes
<1>5. ASSUME "hole" \notin gap', NEW i \in DOMAIN view, Bound(i)' PROVE Shows(i)'
  <2>1. Claimed(i) BY <1>5, ExpungeResponds, RespondsClaimed DEF Bound
  <2>2. view[i].idx # 0 BY <1>3, <1>4, <1>5 DEF Bound
  <2>3. Bound(i) BY <1>2, <1>4, <1>5, <2>1, <2>2 DEF Bound
  <2>4. Shows(i) BY <1>2, <1>5, <2>3 DEF FlagsInv
  <2> QED BY <1>2, <1>4, <2>4 DEF Shows
<1> QED BY <1>4, <1>5 DEF FlagsInv

LEMMA FetchHeaderShow ==
  ASSUME BasicInv, AgreeInv, FlagsInv, FetchHeader
  PROVE  FlagsInv'
<1>1. ToldTypes /\ ViewTypes BY DEF BasicInv
<1>2. UNCHANGED <<gap, off, swept>> BY DEF FetchHeader, history
<1>3. Len(view) \in Nat /\ DOMAIN view = 1..Len(view) BY <1>1, SeqHas DEF ViewTypes
<1>4. PICK u \in told :
           /\ Seqno(u) = Len(view) + 1
           /\ toldFlags' = [toldFlags EXCEPT ![u] = flags[u]]
           /\ DOMAIN view' = 1..(Len(view) + 1)
           /\ \A i \in DOMAIN view : i \in DOMAIN view' /\ view'[i] = view[i]
           /\ view'[Len(view) + 1] = NewHeader(u, Len(view) + 1)
  BY FetchHeaderIs
<1>5. u \in Uids /\ toldFlags'[u] = flags[u] BY <1>1, <1>4 DEF ToldTypes
<1>6. ASSUME "hole" \notin gap', NEW i \in DOMAIN view, Bound(i)' PROVE Shows(i)'
  <2>1. Claimed(i) BY <1>6, FetchHeaderResponds, RespondsClaimed DEF Bound
  <2>2. Bound(i) BY <1>2, <1>4, <1>6, <2>1 DEF Bound
  <2>3. Shows(i) BY <1>2, <1>6, <2>2 DEF FlagsInv
  <2>4. view[i].uid # u
    <3>1. Seqno(view[i].uid) \in Int /\ Seqno(view[i].uid) <= Len(view)
      BY <1>1, <1>2, <1>6, <2>2, SeqnoOfHeader DEF Bound
    <3>2. ~(Len(view) + 1 <= Len(view)) BY <1>3
    <3> QED BY <1>4, <3>1, <3>2
  <2>5. view[i].uid \in Uids BY <1>1, HeaderUid
  <2>6. toldFlags'[view[i].uid] = toldFlags[view[i].uid] BY <1>1, <1>4, <2>4, <2>5 DEF ToldTypes
  <2> QED BY <1>4, <2>3, <2>6 DEF Shows
<1>7. ASSUME NEW k, k = Len(view) + 1 PROVE Shows(k)'
  <2>1. view'[k].uid = u /\ view'[k].flags = flags[u] BY <1>4, <1>7 DEF NewHeader
  <2> QED BY <1>5, <2>1 DEF Shows
<1>8. \A i \in DOMAIN view' : i \in DOMAIN view \/ i = Len(view) + 1 BY <1>3, <1>4
<1> QED BY <1>6, <1>7, <1>8 DEF FlagsInv

LEMMA ReadNextShow ==
  ASSUME BasicInv, FlagsInv, ReadNext
  PROVE  FlagsInv'
<1>1. UNCHANGED <<toldFlags, view, off, swept>> BY ReadNextCases
<1>2. Responds BY ReadNextResponds
<1>3. ASSUME "hole" \notin gap', NEW i \in DOMAIN view, Bound(i)' PROVE Shows(i)'
  <2>1. Claimed(i) BY <1>2, <1>3, RespondsClaimed DEF Bound
  <2>2. Bound(i) BY <1>1, <1>3, <2>1 DEF Bound
  <2>3. Shows(i) BY <1>2, <1>3, <2>2 DEF FlagsInv, Responds
  <2> QED BY <1>1, <2>3 DEF Shows
<1> QED BY <1>1, <1>3 DEF FlagsInv

(* The end of a command.  When the flags of a header have been stored, the   *)
(* server has what the header shows.                                         *)
LEMMA TaggedShow ==
  ASSUME BasicInv, AgreeInv, MarkInv, FlagsInv, NEW ok \in BOOLEAN, Tagged(ok)
  PROVE  FlagsInv'
<1>1. ToldTypes /\ ViewTypes /\ PlaceInv BY DEF BasicInv
<1>2. Ends /\ job' = job /\ swept' = swept /\ stack # <<>> BY <1>1, TaggedEnds
<1>3. /\ stack' # <<>> /\ stack'[1].op = stack[1].op /\ stack'[1].uids = stack[1].uids
      /\ "hole" \notin gap' => "hole" \notin gap
  BY <1>2 DEF Ends
<1>4. off \subseteq off' BY TaggedIs
<1>5. ASSUME "hole" \notin gap', NEW k \in DOMAIN view', Bound(k)' PROVE Shows(k)'
  <2>1. \E i \in DOMAIN view : view'[k] = view[i] /\ (view'[k].active \/ i = k)
    BY <1>2 DEF Ends
  <2>2. PICK i \in DOMAIN view : view'[k] = view[i] /\ (view'[k].active \/ i = k)
    BY <2>1
  <2> DEFINE u == view[i].uid
             old == toldFlags[u]
  <2>3. /\ ~view[i].changed /\ view[i].idx # 0 /\ u \notin off' \cup swept /\ u \notin off \cup swept
        /\ u \in Uids
    BY <1>1, <1>2, <1>4, <1>5, <2>2, HeaderUid DEF Bound
  <2>4. \/ Claimed(i)
        \/ Storing /\ u \in stack[1].uids
    <3>1. CASE view'[k].active BY <2>2, <3>1 DEF Claimed
    <3>2. CASE ~view'[k].active
      <4>1. i = k BY <2>2, <3>2
      <4>2. CASE Sent("UID FETCH") /\ i = job.pos BY <4>2 DEF Claimed
      <4>3. CASE Sent("STORE") /\ u \in stack[1].uids
        <5>1. stack[1].stage \in {"running", "done"}
          <6>1. stack[1] \in Frame /\ 1 \in DOMAIN stack BY <1>2, SeqHas, TopIs DEF BasicInv, StackTypes
          <6> QED BY <4>3, <6>1 DEF Frame, BasicInv, NestInv, Sent
        <5> QED BY <4>3, <5>1 DEF Storing, Claimed
      <4> QED BY <1>2, <1>3, <1>5, <2>2, <3>2, <4>1, <4>2, <4>3 DEF Bound, Claimed, Sent
    <3> QED BY <3>1, <3>2
  <2>5. CASE Storing /\ u \in stack[1].uids
    <3>1. job.pos \in DOMAIN view /\ stack[1].uids = {view[job.pos].uid} BY <1>1, <2>5 DEF PlaceInv, Storing
    <3>2. i = job.pos BY <1>1, <1>3, <1>5, <2>5, <3>1, OneOfUid
    <3>3. ok
      <4> SUFFICES ASSUME ~ok PROVE FALSE OBVIOUS
      <4>1. Top.uids \subseteq off' /\ Top = stack[1] BY <2>5, TaggedIs
      <4> QED BY <2>3, <2>5, <4>1
    <3>4. toldFlags'[u] = Answered(old, u) BY <2>3, <3>3, TaggedIs
    <3>5. ~Deleting BY <2>5 DEF Storing, Deleting, Sent
    <3>6. toldFlags'[u] = view[i].flags BY <2>5, <3>2, <3>4, <3>5 DEF Answered
    <3> QED BY <2>2, <3>6 DEF Shows
  <2>6. CASE Claimed(i) /\ ~(Storing /\ u \in stack[1].uids)
    <3>1. Shows(i) BY <1>3, <1>5, <2>3, <2>6 DEF FlagsInv, Bound
    <3>2. ~(Deleting /\ u \in stack[1].uids)
      <4> SUFFICES ASSUME Deleting, u \in stack[1].uids PROVE FALSE OBVIOUS
      <4>1. Marks(view[i]) BY <1>3, <1>5, <2>3 DEF MarkInv
      <4> QED BY <2>3, <4>1 DEF Marks
    <3>3. toldFlags'[u] = old
      <4>1. CASE ok
        <5>1. toldFlags'[u] = Answered(old, u) BY <2>3, <4>1, TaggedIs
        <5> QED BY <2>6, <3>2, <5>1 DEF Answered
      <4>2. CASE ~ok BY <4>2, TaggedIs
      <4> QED BY <4>1, <4>2
    <3> QED BY <2>2, <3>1, <3>3 DEF Shows
  <2> QED BY <2>4, <2>5, <2>6
<1> QED BY <1>5 DEF FlagsInv

LEMMA CheckFinishShow ==
  ASSUME BasicInv, FlagsInv, CheckFinish
  PROVE  FlagsInv'
<1>1. Ends /\ stack = <<>> /\ UNCHANGED <<toldFlags, off, swept>> BY CheckFinishEnds
<1>2. /\ stack' # <<>> => stack'[1].op = "FETCH"
      /\ "hole" \notin gap' => "hole" \notin gap
      /\ \A k \in DOMAIN view' : \E i \in DOMAIN view : view'[k] = view[i]
  BY <1>1 DEF Ends
<1>3. ASSUME "hole" \notin gap', NEW k \in DOMAIN view', Bound(k)' PROVE Shows(k)'
  <2>1. view'[k].active BY <1>2, <1>3 DEF Bound, Claimed, Sent
  <2>2. PICK i \in DOMAIN view : view'[k] = view[i] BY <1>2
  <2>3. Bound(i) BY <1>1, <1>3, <2>1, <2>2 DEF Bound, Claimed
  <2>4. Shows(i) BY <1>2, <1>3, <2>3 DEF FlagsInv
  <2> QED BY <1>1, <2>2, <2>4 DEF Shows
<1> QED BY <1>3 DEF FlagsInv

(* Steps after which a header is not claimed that was not claimed before.    *)
LEMMA ClaimsNoMore ==
  ASSUME FlagsInv, UNCHANGED <<toldFlags, gap>>, off \cup swept \subseteq off' \cup swept',
         DOMAIN view' = DOMAIN view,
         \A i \in DOMAIN view : view'[i].uid = view[i].uid,
         \A i \in DOMAIN view : Claimed(i)' /\ ~view'[i].changed /\ view'[i].idx # 0 =>
           /\ Claimed(i) /\ ~view[i].changed
           /\ view'[i].flags = view[i].flags /\ view'[i].idx = view[i].idx
  PROVE  FlagsInv'
<1>1. ASSUME "hole" \notin gap', NEW i \in DOMAIN view, Bound(i)' PROVE Shows(i)'
  <2>1. /\ Bound(i)
        /\ view'[i].flags = view[i].flags /\ view'[i].uid = view[i].uid
    BY <1>1 DEF Bound
  <2>2. Shows(i) BY <1>1, <2>1 DEF FlagsInv
  <2> QED BY <2>1, <2>2 DEF Shows
<1> QED BY <1>1 DEF FlagsInv

(* Steps that leave headers alone.                                           *)
LEMMA SameShow ==
  ASSUME FlagsInv, UNCHANGED <<view, toldFlags, gap, off, swept>>,
         stack' # <<>> => (stack'[1].op \notin {"UID FETCH", "STORE"} \/ UNCHANGED <<stack, job>>)
  PROVE  FlagsInv'
<1>1. ASSUME NEW i \in DOMAIN view, Claimed(i)' PROVE Claimed(i)
  <2>1. CASE view[i].active BY <2>1 DEF Claimed
  <2>2. CASE ~view[i].active
    <3>1. Sent("UID FETCH")' \/ Sent("STORE")' BY <1>1, <2>2 DEF Claimed
    <3>2. UNCHANGED <<stack, job>> BY <3>1 DEF Sent
    <3> QED BY <1>1, <3>2 DEF Claimed, Sent
  <2> QED BY <2>1, <2>2
<1> QED BY <1>1, ClaimsNoMore

LEMMA ReturnShow ==
  ASSUME BasicInv, FlagsInv, NEW b \in BOOLEAN, Return(b)
  PROVE  FlagsInv'
<1>1. /\ stack # <<>> /\ stack[1].stage = "done" /\ stack' = <<>>
      /\ UNCHANGED <<toldFlags, gap, off, swept>> /\ DOMAIN view' = DOMAIN view
      /\ \A i \in DOMAIN view :
              /\ view'[i].uid = view[i].uid /\ view'[i].idx = view[i].idx
              /\ view'[i].flags = view[i].flags /\ view'[i].changed = view[i].changed
              /\ \/ view'[i] = view[i]
                 \/ /\ i = job.pos /\ view'[i].active
                    /\ Sent("UID FETCH") \/ (Sent("STORE") /\ view[i].uid \in stack[1].uids)
  BY ReturnIs
<1>2. ASSUME NEW i \in DOMAIN view, Claimed(i)' PROVE Claimed(i)
  <2>1. view'[i].active BY <1>1, <1>2 DEF Claimed, Sent
  <2> QED BY <1>1, <2>1 DEF Claimed
<1> QED BY <1>1, <1>2, ClaimsNoMore

LEMMA JobsShow ==
  ASSUME BasicInv, HeldInv, FlagsInv,
         \/ \E i \in DOMAIN view, f \in Flags : Toggle(i, f)
         \/ \E i \in DOMAIN view : FetchMessage(i) \/ SyncMessage(i)
         \/ SyncDelete
  PROVE  FlagsInv'
<1>1. ASSUME NEW i \in DOMAIN view, NEW f \in Flags, Toggle(i, f) PROVE FlagsInv'
  <2>1. /\ DOMAIN view' = DOMAIN view /\ view'[i].uid = view[i].uid /\ view'[i].changed
        /\ \A j \in DOMAIN view : j # i => view'[j] = view[j]
        /\ stack' = <<>> /\ UNCHANGED <<toldFlags, gap, off, swept>>
    BY <1>1, ToggleIs
  <2>2. \A j \in DOMAIN view : Claimed(j)' => view'[j].active BY <2>1 DEF Claimed, Sent
  <2>3. \A j \in DOMAIN view : j # i /\ Claimed(j)' => Claimed(j) BY <2>1, <2>2 DEF Claimed
  <2> QED BY <2>1, <2>3, ClaimsNoMore
<1>2. ASSUME NEW i \in DOMAIN view, FetchMessage(i) PROVE FlagsInv'
  <2>1. /\ DOMAIN view' = DOMAIN view /\ view'[i].uid = view[i].uid /\ view'[i].idx = view[i].idx
        /\ view'[i].changed = view[i].changed /\ view'[i].flags = view[i].flags
        /\ \A j \in DOMAIN view : j # i => view'[j] = view[j]
        /\ stack'[1].op = "UID FETCH" /\ job'.pos = i /\ job.op = "idle" /\ stack = <<>>
        /\ UNCHANGED <<toldFlags, gap, off, swept>>
    BY <1>2, FetchMessageIs
  <2>2. ASSUME "hole" \notin gap, NEW j \in DOMAIN view, Bound(j)' PROVE Shows(j)'
    <3>1. /\ view'[j].uid = view[j].uid /\ view'[j].idx = view[j].idx
          /\ view'[j].changed = view[j].changed /\ view'[j].flags = view[j].flags
      BY <2>1
    <3>2. ~view[j].changed /\ view[j].idx # 0 /\ view[j].uid \notin off \cup swept
      BY <2>1, <2>2, <3>1 DEF Bound
    <3>3. ~Left(j) BY <2>1, <2>2 DEF HeldInv, Held, Sent
    <3>4. Bound(j) BY <3>2, <3>3 DEF Bound, Claimed, Left
    <3>5. Shows(j) BY <2>2, <3>4 DEF FlagsInv
    <3> QED BY <2>1, <3>1, <3>5 DEF Shows
  <2> QED BY <2>1, <2>2 DEF FlagsInv
<1>3. ASSUME NEW i \in DOMAIN view, SyncMessage(i) PROVE FlagsInv'
  <2>1. /\ DOMAIN view' = DOMAIN view /\ view'[i].uid = view[i].uid /\ ~view'[i].active
        /\ \A j \in DOMAIN view : j # i => view'[j] = view[j]
        /\ stack'[1].op = "STORE" /\ stack'[1].stage = "running"
        /\ UNCHANGED <<toldFlags, gap, off, swept>>
    BY <1>3, SyncMessageIs
  <2>2. \A j \in DOMAIN view : Claimed(j)' => view'[j].active /\ j # i BY <2>1 DEF Claimed, Sent
  <2>3. \A j \in DOMAIN view : Claimed(j)' => Claimed(j) /\ j # i BY <2>1, <2>2 DEF Claimed
  <2> QED BY <2>1, <2>3, ClaimsNoMore
<1>4. CASE SyncDelete
  <2>1. UNCHANGED <<toldFlags, gap, off>> /\ stack = <<>> BY <1>4, SyncDeleteCases
  <2>2. ASSUME NEW hdrs \in Orders, SendsDeletions(hdrs) PROVE FlagsInv'
    <3>1. /\ DOMAIN view' = DOMAIN view
          /\ \A i \in DOMAIN view :
               /\ view'[i].uid = view[i].uid
               /\ view'[i].changed = view[i].changed
               /\ Marks(view[i]) => ~view'[i].active
               /\ ~Marks(view[i]) => view'[i] = view[i]
          /\ stack'[1].op = "STORE deleted" /\ swept \subseteq swept'
      BY <2>2, DeletionsAre
    <3>2. \A j \in DOMAIN view : Claimed(j)' => view'[j].active BY <3>1 DEF Claimed, Sent
    <3>3. \A j \in DOMAIN view : Claimed(j)' => Claimed(j) /\ view'[j] = view[j]
      BY <3>1, <3>2 DEF Claimed
    <3> QED BY <2>1, <3>1, <3>3, ClaimsNoMore
  <2>3. CASE UNCHANGED <<view, stack, swept>> BY <2>1, <2>3, SameShow
  <2> QED BY <1>4, <2>2, <2>3, SyncDeleteCases
<1> QED BY <1>1, <1>2, <1>3, <1>4

LEMMA FlagsStep ==
  ASSUME BasicInv, AgreeInv, MarkInv, HeldInv, FlagsInv, [Next]_vars
  PROVE  FlagsInv'
<1>1. UNCHANGED vars => FlagsInv' BY UntouchedIs, SameShow
<1>2. ASSUME Deliver \/ (\E u \in Uids : OtherExpunge(u) \/ \E f \in OtherFlags : OtherStore(u, f))
      PROVE  FlagsInv'
  <2>1. UNCHANGED <<view, toldFlags, stack, job, gap, off, swept>>
    BY <1>2 DEF Deliver, OtherExpunge, OtherStore, session, client, history
  <2> QED BY <2>1, SameShow
<1>3. ASSUME Exists \/ (\E u \in Uids : Expunge(u) \/ FetchFlags(u)) \/ FetchHeader \/ ReadNext
      PROVE  FlagsInv'
  BY <1>3, ExistsShow, ExpungeShow, FetchFlagsShow, FetchHeaderShow, ReadNextShow
<1>4. ASSUME NEW ok \in BOOLEAN, Tagged(ok) PROVE FlagsInv' BY <1>4, TaggedShow
<1>5. CASE CheckFinish BY <1>5, CheckFinishShow
<1>6. ASSUME Reopen, UNCHANGED server PROVE FlagsInv'
  <2>1. DOMAIN view' = {} BY <1>6, ReopenIs
  <2> QED BY <2>1 DEF FlagsInv
<1>7. ASSUME NEW b \in BOOLEAN, Lose(b) PROVE FlagsInv' BY <1>6, <1>7, LoseIs, SameShow
<1>8. CASE Execute BY <1>8, ExecuteIs, SameShow
<1>9. CASE Begins BY <1>9, SameShow DEF Begins
<1>10. ASSUME NEW b \in BOOLEAN, Return(b) PROVE FlagsInv' BY <1>10, ReturnShow
<1>11. ASSUME \/ \E i \in DOMAIN view, f \in Flags : Toggle(i, f)
              \/ \E i \in DOMAIN view : FetchMessage(i) \/ SyncMessage(i)
              \/ SyncDelete
       PROVE  FlagsInv'
  BY <1>11, JobsShow
<1> QED BY <1>1, <1>2, <1>3, <1>4, <1>5, <1>6, <1>7, <1>8, <1>9, <1>10, <1>11, Beginning, StepKinds

CommandInv == FreshInv /\ MarkInv /\ RefusedInv /\ PlacedInv /\ HeldInv

LEMMA InitCommand ==
  ASSUME Init
  PROVE  CommandInv
<1>1. BasicInv BY InitBasic
<1>2. DOMAIN view = {} /\ stack = Opening /\ flags \in [Uids -> {{}}] BY DEF Init
<1>3. mail # {} => Opening[1].uids = {} BY DEF Opening, ReadHeaders, Command
<1>4. stack # <<>> => stack[1].uids = {} /\ stack[1].op = "FETCH" BY <1>1, <1>2, <1>3, OpeningIs DEF BasicInv
<1>5. FreshInv BY <1>2, <1>4 DEF FreshInv
<1>6. MarkInv BY <1>4 DEF MarkInv, Deleting, Sent
<1>7. RefusedInv BY <1>2 DEF RefusedInv, Inactive
<1>8. PlacedInv BY <1>2 DEF PlacedInv
<1>9. HeldInv BY <1>2 DEF HeldInv
<1> QED BY <1>5, <1>6, <1>7, <1>8, <1>9 DEF CommandInv

LEMMA CommandStep ==
  ASSUME BasicInv, AgreeInv, CommandInv, [Next]_vars
  PROVE  CommandInv'
  BY FreshStep, MarkStep, RefusedStep, PlacedStep, HeldStep DEF CommandInv

LEMMA FlagsAlways == Spec => [](BasicInv /\ AgreeInv /\ CommandInv /\ FlagsInv)
<1>1. Init => BasicInv /\ AgreeInv /\ CommandInv /\ FlagsInv
  <2> SUFFICES ASSUME Init PROVE BasicInv /\ AgreeInv /\ CommandInv /\ FlagsInv OBVIOUS
  <2>1. FlagsInv BY DEF Init, FlagsInv
  <2> QED BY <2>1, InitBasic, InitAgree, InitCommand
<1>2. (BasicInv /\ AgreeInv /\ CommandInv /\ FlagsInv) /\ [Next]_vars
        => (BasicInv /\ AgreeInv /\ CommandInv /\ FlagsInv)'
  BY BasicStep, AgreeStep, CommandStep, FlagsStep DEF CommandInv
<1> QED BY <1>1, <1>2, PTL DEF Spec

(* When nothing is going on, a header that is not marked as changed shows    *)
(* the flags the server has told (cmd_parse_fetch(), imap_fetch_message(),   *)
(* imap_sync_message()), with the exceptions of FlagsAgree.                  *)
THEOREM ImapFlagsAgree == Spec => []FlagsAgree
<1>1. FlagsInv => FlagsAgree BY DEF FlagsInv, Bound, Claimed, Shows, FlagsAgree
<1> QED BY <1>1, FlagsAlways, PTL

(* When imap_sync_mailbox() has been through the headers no active one is    *)
(* marked as changed, and the server knows the flags each one shows, for     *)
(* any number of them; with the exceptions of SyncSavesAll.                  *)
THEOREM ImapSyncSavesAll == Spec => SyncSavesAll
<1> DEFINE Saved(i) == /\ ~view[i].changed
                       /\ view[i].idx # 0 /\ "hole" \notin gap /\ view[i].uid \notin off \cup swept
                            => view[i].flags = toldFlags[view[i].uid]
           Saves == SyncExpunge /\ "skip" \notin gap => \A i \in DOMAIN view : view[i].active => Saved(i)
<1>1. BasicInv /\ SaveInv /\ FlagsInv => Saves
  <2> SUFFICES ASSUME BasicInv, SaveInv, FlagsInv, SyncExpunge, "skip" \notin gap,
                      NEW i \in DOMAIN view, view[i].active
               PROVE  Saved(i)
    OBVIOUS
  <2>1. ViewTypes /\ job.pos \in Nat BY DEF BasicInv, StackTypes, Jobs
  <2>2. job.phase = "flags" /\ NextChanged = {} BY DEF SyncExpunge
  <2>3. ~view[i].changed BY <2>1, <2>2, NoneLeft DEF SaveInv, Unsaved
  <2>4. CASE view[i].idx # 0 /\ "hole" \notin gap /\ view[i].uid \notin off \cup swept
    <3>1. Claimed(i) BY Zenon DEF Claimed
    <3> QED BY <2>3, <2>4, <3>1 DEF FlagsInv, Bound, Shows
  <2> QED BY <2>3, <2>4
<1>2. BasicInv /\ SaveInv /\ FlagsInv /\ [Next]_vars => [Saves]_vars BY <1>1
<1> QED BY <1>2, SaveAlways, FlagsAlways, PTL DEF Spec, SyncSavesAll

-----------------------------------------------------------------------------
(* What EXPUNGE and CLOSE remove.  A header that is changed, or whose flags  *)
(* are being stored, is deleted only if the user has deleted it.             *)
Wants(i) == (view[i].changed \/ (Storing /\ i = job.pos)) /\ IsDeleted(view[i])
WantInv == "hole" \notin gap => \A i \in DOMAIN view : Wants(i) => view[i].uid \in wanted

(* A message that is marked as deleted on the server is one that the user or *)
(* another client has deleted, or known to be marked by mistake; or its      *)
(* header is changed, or its flags are being stored.                         *)
Doomed(u) == u \in mail /\ "deleted" \in flags[u]
Excused == marked \cup off \cup swept
DoomInv ==
  job.op # "closed" /\ "hole" \notin gap =>
    \A u \in Uids : Doomed(u) =>
      \/ u \in wanted \cup Excused
      \/ \E i \in DOMAIN view : view[i].uid = u /\ view[i].changed
      \/ Storing /\ u \in stack[1].uids

(* When it has an inactive header, a sync that purges is going on and the    *)
(* user has deleted it, or the command in progress is about it.              *)
Purging == job.purge /\ (\/ job.phase \in {"delete", "flags"}
                         \/ job.phase = "expunge" /\ stack[1].stage = "sent")
Kept(i) == (Purging /\ view[i].uid \in wanted) \/ Held(i)
InactiveInv ==
  job.op # "closed" /\ "hole" \notin gap =>
    \A i \in DOMAIN view : ~view[i].active /\ Doomed(view[i].uid) => view[i].uid \in Excused \/ Kept(i)

(* Headers that stay what they are, with no STORE of flags begun.            *)
LEMMA WantStays ==
  ASSUME WantInv, "hole" \notin gap' => "hole" \notin gap, wanted' = wanted, ~Storing',
         \A k \in DOMAIN view' : view'[k].changed => \E i \in DOMAIN view :
           /\ view[i].uid = view'[k].uid /\ view[i].changed /\ view[i].flags = view'[k].flags
  PROVE  WantInv'
<1>1. ASSUME "hole" \notin gap', NEW k \in DOMAIN view', Wants(k)' PROVE view'[k].uid \in wanted'
  <2>1. view'[k].changed /\ IsDeleted(view'[k]) BY <1>1 DEF Wants
  <2>2. PICK i \in DOMAIN view :
           view[i].uid = view'[k].uid /\ view[i].changed /\ view[i].flags = view'[k].flags
    BY <2>1
  <2>3. Wants(i) BY <2>1, <2>2 DEF Wants, IsDeleted
  <2> QED BY <1>1, <2>2, <2>3 DEF WantInv
<1> QED BY <1>1 DEF WantInv

LEMMA RespondsWant ==
  ASSUME BasicInv, WantInv, Responds
  PROVE  WantInv'
<1>1. Storing' => Storing /\ job' = job
  <2>1. job.op = "open" => stack[1].op = "FETCH" BY DEF BasicInv, JobInv
  <2> QED BY <2>1 DEF Responds, OuterStays, Storing, Sent
<1>2. Storing => job.pos \in DOMAIN view /\ ~view[job.pos].active /\ ~Sent("UID FETCH")
  BY DEF BasicInv, PlaceInv, Storing, Sent
<1>3. ASSUME NEW k \in DOMAIN view', Wants(k)'
      PROVE  k \in DOMAIN view /\ Wants(k) /\ view'[k].uid = view[k].uid
  <2>1. ASSUME view'[k].changed PROVE k \in DOMAIN view /\ Wants(k) /\ view'[k].uid = view[k].uid
    <3>1. k \in DOMAIN view BY <2>1 DEF Responds, Advances
    <3>2. view'[k].uid = view[k].uid /\ view[k].changed /\ view'[k].flags = view[k].flags
      BY <2>1, <3>1 DEF Responds, Advances
    <3> QED BY <1>3, <3>1, <3>2 DEF Wants, IsDeleted
  <2>2. ASSUME Storing', k = job'.pos PROVE k \in DOMAIN view /\ Wants(k) /\ view'[k].uid = view[k].uid
    <3>1. k \in DOMAIN view /\ ~view[k].active /\ ~Sent("UID FETCH") /\ Storing /\ k = job.pos
      BY <1>1, <1>2, <2>2
    <3>2. view'[k].uid = view[k].uid /\ view'[k].flags = view[k].flags
      BY <3>1 DEF Responds, Advances
    <3> QED BY <1>3, <3>1, <3>2 DEF Wants, IsDeleted
  <2> QED BY <1>3, <2>1, <2>2 DEF Wants
<1>4. ("hole" \notin gap' => "hole" \notin gap) /\ wanted' = wanted BY DEF Responds
<1> QED BY <1>3, <1>4 DEF WantInv

LEMMA WantStep ==
  ASSUME BasicInv, AgreeInv, WantInv, [Next]_vars
  PROVE  WantInv'
<1>1. ViewTypes BY DEF BasicInv
<1>2. ASSUME UNCHANGED <<stack, job, view, gap, wanted>> PROVE WantInv'
  BY <1>2 DEF WantInv, Wants, Storing, Sent, IsDeleted
<1>3. UNCHANGED vars => WantInv' BY <1>2, UntouchedIs
<1>4. ASSUME Deliver \/ (\E u \in Uids : OtherExpunge(u) \/ \E f \in OtherFlags : OtherStore(u, f))
      PROVE  WantInv'
  BY <1>2, <1>4 DEF Deliver, OtherExpunge, OtherStore, client, history
<1>5. ASSUME Exists \/ (\E u \in Uids : Expunge(u) \/ FetchFlags(u)) \/ FetchHeader \/ ReadNext
      PROVE  WantInv'
  BY <1>5, Responses, RespondsWant
<1>6. ASSUME Ends, ~Storing', wanted' = wanted PROVE WantInv'
  <2>1. "hole" \notin gap' => "hole" \notin gap BY <1>6 DEF Ends
  <2>2. \A k \in DOMAIN view' : \E i \in DOMAIN view : view'[k] = view[i] BY <1>6 DEF Ends
  <2> QED BY <1>6, <2>1, <2>2, WantStays
<1>7. ASSUME NEW ok \in BOOLEAN, Tagged(ok) PROVE WantInv'
  <2>1. Ends /\ stack # <<>> /\ wanted' = wanted BY <1>7, TaggedEnds
  <2>2. stack'[1].stage = "done" BY <2>1 DEF Ends
  <2> QED BY <1>6, <2>1, <2>2 DEF Storing
<1>8. CASE CheckFinish
  <2>1. Ends /\ stack = <<>> /\ wanted' = wanted BY <1>8, CheckFinishEnds
  <2>2. ~Storing' BY <2>1 DEF Ends, Storing, Sent
  <2> QED BY <1>6, <2>1, <2>2
<1>9. ASSUME Reopen, UNCHANGED server PROVE WantInv'
  <2>1. DOMAIN view' = {} BY <1>9, ReopenIs
  <2> QED BY <2>1 DEF WantInv
<1>10. ASSUME UNCHANGED <<gap, wanted>>, ~Storing', DOMAIN view' = DOMAIN view,
              \A i \in DOMAIN view : /\ view'[i].uid = view[i].uid /\ view'[i].changed = view[i].changed
                                     /\ view'[i].flags = view[i].flags
       PROVE  WantInv'
  BY <1>10, WantStays
<1>11. stack' = <<>> => ~Storing' BY DEF Storing, Sent
<1>12. ASSUME NEW b \in BOOLEAN, Lose(b) PROVE WantInv' BY <1>9, <1>10, <1>11, <1>12, LoseIs
<1>13. CASE Execute
  <2>1. /\ stack'[1].op \in {"EXPUNGE", "CLOSE"} /\ UNCHANGED <<view, gap, wanted>>
    BY <1>13, ExecuteIs
  <2>2. ~Storing' BY <2>1 DEF Storing, Sent
  <2> QED BY <1>10, <2>1, <2>2
<1>14. ASSUME NEW i \in DOMAIN view, NEW f \in Flags, Toggle(i, f) PROVE WantInv'
  <2>1. /\ DOMAIN view' = DOMAIN view /\ view'[i].uid = view[i].uid
        /\ \A j \in DOMAIN view : j # i => view'[j] = view[j]
        /\ wanted' = (IF IsDeleted(view'[i]) THEN wanted \cup {view[i].uid} ELSE wanted \ {view[i].uid})
        /\ stack' = <<>> /\ gap' = gap
    BY <1>14, ToggleIs
  <2>2. ASSUME "hole" \notin gap, NEW j \in DOMAIN view, Wants(j)' PROVE view'[j].uid \in wanted'
    <3>1. CASE j = i
      <4>1. IsDeleted(view'[i]) BY <2>2, <3>1 DEF Wants
      <4> QED BY <2>1, <3>1, <4>1
    <3>2. CASE j # i
      <4>1. view'[j] = view[j] BY <2>1, <3>2
      <4>2. Wants(j) BY <1>11, <2>1, <2>2, <4>1 DEF Wants
      <4>3. view[j].uid \in wanted BY <2>2, <4>2 DEF WantInv
      <4>4. view[j].uid # view[i].uid BY <1>1, <2>2, <3>2, OneOfUid
      <4> QED BY <2>1, <4>1, <4>3, <4>4
    <3> QED BY <3>1, <3>2
  <2> QED BY <2>1, <2>2 DEF WantInv
<1>15. ASSUME NEW i \in DOMAIN view, FetchMessage(i) PROVE WantInv'
  <2>1. /\ DOMAIN view' = DOMAIN view /\ view'[i].uid = view[i].uid
        /\ view'[i].changed = view[i].changed /\ view'[i].flags = view[i].flags
        /\ \A j \in DOMAIN view : j # i => view'[j] = view[j]
        /\ stack'[1].op = "UID FETCH" /\ UNCHANGED <<gap, wanted>>
    BY <1>15, FetchMessageIs
  <2>2. ~Storing' BY <2>1 DEF Storing, Sent
  <2> QED BY <1>10, <2>1, <2>2
<1>16. ASSUME NEW i \in DOMAIN view, SyncMessage(i) PROVE WantInv'
  <2>1. /\ DOMAIN view' = DOMAIN view /\ view'[i].uid = view[i].uid
        /\ view'[i].flags = view[i].flags /\ view[i].changed
        /\ \A j \in DOMAIN view : j # i => view'[j] = view[j]
        /\ job'.pos = i /\ UNCHANGED <<gap, wanted>>
    BY <1>16, SyncMessageIs
  <2>2. ASSUME NEW j \in DOMAIN view, Wants(j)' PROVE Wants(j) /\ view'[j].uid = view[j].uid
    <3>1. CASE j = i BY <2>1, <2>2, <3>1 DEF Wants, IsDeleted
    <3>2. CASE j # i BY <2>1, <2>2, <3>2 DEF Wants
    <3> QED BY <3>1, <3>2
  <2> QED BY <2>1, <2>2 DEF WantInv
<1>17. CASE Begins
  <2>1. ~Storing' BY <1>17 DEF Begins, Storing, Sent
  <2> QED BY <1>10, <1>17, <2>1 DEF Begins
<1>18. ASSUME NEW b \in BOOLEAN, Return(b) PROVE WantInv' BY <1>10, <1>11, <1>18, ReturnIs
<1>19. CASE SyncDelete
  <2>1. stack = <<>> /\ UNCHANGED <<gap, wanted>> BY <1>19, SyncDeleteCases
  <2>2. ASSUME NEW hdrs \in Orders, SendsDeletions(hdrs) PROVE WantInv'
    <3>1. /\ DOMAIN view' = DOMAIN view
          /\ \A i \in DOMAIN view :
              /\ view'[i].uid = view[i].uid
              /\ view'[i].flags = view[i].flags /\ view'[i].changed = view[i].changed
          /\ stack'[1].op = "STORE deleted"
      BY <2>2, DeletionsAre
    <3>2. ~Storing' BY <3>1 DEF Storing, Sent
    <3> QED BY <1>10, <2>1, <3>1, <3>2
  <2> QED BY <1>10, <1>11, <1>19, <2>1, <2>2, SyncDeleteCases
<1> QED BY <1>3, <1>4, <1>5, <1>7, <1>8, <1>9, <1>12, <1>13, <1>14, <1>15, <1>16, <1>17, <1>18, <1>19,
           Beginning, StepKinds

(* What other clients do makes no message doomed but those they mark.        *)
LEMMA OthersDoom ==
  ASSUME BasicInv, FreshInv,
         Deliver \/ (\E u \in Uids : OtherExpunge(u) \/ \E f \in OtherFlags : OtherStore(u, f)),
         NEW u \in Uids, Doomed(u)'
  PROVE  u \in marked' \/ (Doomed(u) /\ u \notin marked)
<1>1. ServerTypes BY DEF BasicInv
<1>2. CASE Deliver
  <2>1. mail' = mail \cup {uidnext} /\ UNCHANGED <<flags, marked>> BY <1>2 DEF Deliver, history
  <2>2. uidnext \in Nat BY <1>1 DEF ServerTypes
  <2>3. u = uidnext => "deleted" \notin flags[u] BY <2>2 DEF FreshInv
  <2> QED BY <2>1, <2>3 DEF Doomed
<1>3. ASSUME NEW v \in Uids, OtherExpunge(v) PROVE u \in marked' \/ (Doomed(u) /\ u \notin marked)
  BY <1>3 DEF OtherExpunge, history, Doomed
<1>4. ASSUME NEW v \in Uids, NEW f \in OtherFlags, OtherStore(v, f)
      PROVE  u \in marked' \/ (Doomed(u) /\ u \notin marked)
  <2>1. /\ mail' = mail /\ flags' = [flags EXCEPT ![v] = f]
        /\ marked' = (IF "deleted" \in f THEN marked \cup {v} ELSE marked \ {v})
    BY <1>4 DEF OtherStore
  <2>2. flags'[v] = f /\ (u # v => flags'[u] = flags[u]) BY <1>1, <2>1 DEF ServerTypes
  <2>3. CASE u = v BY <2>1, <2>2, <2>3 DEF Doomed
  <2>4. CASE u # v BY <2>1, <2>2, <2>4 DEF Doomed
  <2> QED BY <2>3, <2>4
<1> QED BY <1>2, <1>3, <1>4

(* The answer to a STORE dooms messages that the user has deleted, and those *)
(* in a set that was made too large.                                         *)
LEMMA TaggedDoom ==
  ASSUME BasicInv, MarkInv, WantInv, NEW ok \in BOOLEAN, Tagged(ok), "hole" \notin gap,
         NEW u \in Uids, Doomed(u)'
  PROVE  \/ Doomed(u) /\ (u \in marked => u \in marked')
            /\ (Storing /\ u \in stack[1].uids => u \in off')
         \/ u \in swept
         \/ Deleting /\ u \in wanted
         \/ Storing /\ u \in stack[1].uids /\ u \in wanted
<1>1. mail' = mail BY TaggedEnds
<1>2. CASE ~ok
  <2>1. UNCHANGED <<flags, marked>> /\ Top.uids \subseteq off' /\ (Storing => Top = stack[1])
    BY <1>2, TaggedIs
  <2> QED BY <1>1, <2>1 DEF Doomed
<1>3. CASE ok
  <2>1. flags'[u] = Answered(flags[u], u) /\ (u \in marked /\ "deleted" \in flags'[u] => u \in marked')
    BY <1>3, TaggedIs
  <2>2. CASE Deleting /\ u \in stack[1].uids
    <3>1. u \in mail BY <1>1 DEF Doomed
    <3>2. CASE u \in swept BY <3>2
    <3>3. CASE u \notin swept
      <4>1. PICK i \in DOMAIN view : view[i].uid = u BY <2>2, <3>1, <3>3 DEF MarkInv
      <4>2. Marks(view[i]) BY <2>2, <3>3, <4>1 DEF MarkInv
      <4>3. u \in wanted BY <4>1, <4>2 DEF WantInv, Wants, Marks
      <4> QED BY <2>2, <4>3
    <3> QED BY <3>2, <3>3
  <2>3. CASE Storing /\ u \in stack[1].uids /\ ~Deleting
    <3>1. job.pos \in DOMAIN view /\ stack[1].uids = {view[job.pos].uid}
      BY <2>3 DEF BasicInv, PlaceInv, Storing
    <3>2. flags'[u] = view[job.pos].flags BY <2>1, <2>3 DEF Answered
    <3>3. IsDeleted(view[job.pos]) BY <3>2 DEF Doomed, IsDeleted
    <3>4. u \in wanted BY <2>3, <3>1, <3>3 DEF WantInv, Wants
    <3> QED BY <2>3, <3>4
  <2>4. CASE ~((Deleting \/ Storing) /\ u \in stack[1].uids)
    <3>1. flags'[u] = flags[u] BY <2>1, <2>4 DEF Answered
    <3> QED BY <1>1, <2>1, <2>4, <3>1 DEF Doomed
  <2> QED BY <2>2, <2>3, <2>4
<1> QED BY <1>2, <1>3

(* Steps that doom no more messages and leave changed headers changed.       *)
LEMMA DoomStays ==
  ASSUME DoomInv, job'.op # "closed" => job.op # "closed", "hole" \notin gap' => "hole" \notin gap,
         ~Storing, wanted \subseteq wanted', Excused \subseteq Excused',
         \A u \in Uids : Doomed(u)' => Doomed(u),
         \A i \in DOMAIN view : Doomed(view[i].uid) /\ view[i].changed =>
           \E k \in DOMAIN view' : view'[k].uid = view[i].uid /\ view'[k].changed
  PROVE  DoomInv'
<1>1. ASSUME job'.op # "closed", "hole" \notin gap', NEW u \in Uids, Doomed(u)'
      PROVE  \/ u \in wanted' \cup Excused'
             \/ \E k \in DOMAIN view' : view'[k].uid = u /\ view'[k].changed
  <2>1. Doomed(u) BY <1>1
  <2>2. u \in wanted \cup Excused \/ \E i \in DOMAIN view : view[i].uid = u /\ view[i].changed
    BY <1>1, <2>1 DEF DoomInv
  <2> QED BY <2>1, <2>2
<1> QED BY <1>1 DEF DoomInv

(* Headers of messages that are still there stay at the end of a command. *)
LEMMA ChangedStays ==
  ASSUME BasicInv, AgreeInv, Ends, "hole" \notin gap', NEW i \in DOMAIN view, Doomed(view[i].uid)
  PROVE  \E k \in DOMAIN view' : view'[k] = view[i]
<1>1. view[i].idx # 0 BY DEF AgreeInv, ToldInv, Doomed
<1> QED BY <1>1 DEF Ends

LEMMA RespondsDoom ==
  ASSUME BasicInv, DoomInv, Responds
  PROVE  DoomInv'
<1>1. CASE job'.op = "closed" BY <1>1 DEF DoomInv
<1>2. CASE OuterStays /\ job'.op # "closed"
  <2>1. job.op # "closed"
    <3>1. job' = job \/ job.op = "open" \/ job'.op = "closed" BY DEF Responds
    <3> QED BY <1>2, <3>1
  <2>2. Storing => Storing' /\ stack'[1].uids = stack[1].uids
    BY <1>2 DEF OuterStays, Storing, Sent
  <2>3. \A u : Doomed(u)' <=> Doomed(u) BY DEF Responds, Doomed
  <2>4. Excused \subseteq Excused' /\ wanted' = wanted BY DEF Responds, Excused
  <2>5. "hole" \notin gap' => "hole" \notin gap BY DEF Responds
  <2>6. \A i \in DOMAIN view : view[i].changed =>
          i \in DOMAIN view' /\ view'[i].uid = view[i].uid /\ view'[i].changed
    BY DEF Responds, Advances
  <2> QED BY <2>1, <2>2, <2>3, <2>4, <2>5, <2>6 DEF DoomInv
<1> QED BY <1>1, <1>2 DEF Responds

LEMMA TaggedDooms ==
  ASSUME BasicInv, AgreeInv, MarkInv, WantInv, DoomInv, NEW ok \in BOOLEAN, Tagged(ok)
  PROVE  DoomInv'
<1>1. Ends /\ stack # <<>> /\ UNCHANGED <<job, mail, swept, wanted>> BY TaggedEnds
<1>2. "hole" \notin gap' => "hole" \notin gap BY <1>1 DEF Ends
<1>3. off \subseteq off' BY TaggedIs
<1>4. ASSUME job.op # "closed", "hole" \notin gap', NEW u \in Uids, Doomed(u)'
      PROVE  \/ u \in wanted' \cup Excused'
             \/ \E k \in DOMAIN view' : view'[k].uid = u /\ view'[k].changed
  <2>1. CASE u \in swept \/ u \in wanted BY <1>1, <2>1 DEF Excused
  <2>2. CASE /\ Doomed(u) /\ (u \in marked => u \in marked')
             /\ (Storing /\ u \in stack[1].uids => u \in off')
    <3>1. CASE u \in wanted \cup Excused BY <1>1, <1>3, <2>2, <3>1 DEF Excused
    <3>2. CASE Storing /\ u \in stack[1].uids BY <2>2, <3>2 DEF Excused
    <3>3. CASE \E i \in DOMAIN view : view[i].uid = u /\ view[i].changed
      <4>1. PICK i \in DOMAIN view : view[i].uid = u /\ view[i].changed BY <3>3
      <4>2. \E k \in DOMAIN view' : view'[k] = view[i] BY <1>1, <1>4, <2>2, <4>1, ChangedStays
      <4> QED BY <4>1, <4>2
    <3> QED BY <1>2, <1>4, <2>2, <3>1, <3>2, <3>3 DEF DoomInv
  <2> QED BY <1>2, <1>4, <2>1, <2>2, TaggedDoom
<1> QED BY <1>1, <1>4 DEF DoomInv

LEMMA DoomStep ==
  ASSUME BasicInv, AgreeInv, FreshInv, MarkInv, WantInv, DoomInv, [Next]_vars
  PROVE  DoomInv'
<1>1. ServerTypes /\ ViewTypes BY DEF BasicInv
<1>2. stack = <<>> => ~Storing BY DEF Storing, Sent
<1>3. UNCHANGED vars => DoomInv' BY UntouchedIs DEF DoomInv, Doomed, Excused, Storing, Sent
<1>4. ASSUME Deliver \/ (\E u \in Uids : OtherExpunge(u) \/ \E f \in OtherFlags : OtherStore(u, f))
      PROVE  DoomInv'
  <2>1. UNCHANGED <<view, job, stack, gap, off, swept, wanted>>
    BY <1>4 DEF Deliver, OtherExpunge, OtherStore, client, history
  <2>2. \A u \in Uids : Doomed(u)' => u \in marked' \/ (Doomed(u) /\ u \notin marked)
    BY <1>4, OthersDoom
  <2> QED BY <2>1, <2>2 DEF DoomInv, Excused, Storing, Sent
<1>5. ASSUME Exists \/ (\E u \in Uids : Expunge(u) \/ FetchFlags(u)) \/ FetchHeader \/ ReadNext
      PROVE  DoomInv'
  BY <1>5, Responses, RespondsDoom
<1>6. ASSUME NEW ok \in BOOLEAN, Tagged(ok) PROVE DoomInv' BY <1>6, TaggedDooms
<1>7. CASE CheckFinish
  <2>1. Ends /\ stack = <<>> /\ job'.op = job.op /\ UNCHANGED <<mail, flags, off, swept, wanted, marked>>
    BY <1>7, CheckFinishEnds
  <2>2. "hole" \notin gap' => "hole" \notin gap BY <2>1 DEF Ends
  <2>3. \A u \in Uids : Doomed(u)' => Doomed(u) BY <2>1 DEF Doomed
  <2>4. CASE "hole" \in gap' BY <2>4 DEF DoomInv
  <2>5. CASE "hole" \notin gap'
    <3>1. \A i \in DOMAIN view : Doomed(view[i].uid) => \E k \in DOMAIN view' : view'[k] = view[i]
      BY <2>1, <2>5, ChangedStays
    <3>2. Excused \subseteq Excused' /\ wanted' = wanted BY <2>1 DEF Excused
    <3> QED BY <1>2, <2>1, <2>2, <2>3, <3>1, <3>2, DoomStays
  <2> QED BY <2>4, <2>5
<1>8. ASSUME Reopen, UNCHANGED server PROVE DoomInv'
  <2>1. UNCHANGED <<mail, flags>> /\ \A u \in mail : "deleted" \in flags[u] => u \in wanted'
    BY <1>8, ReopenIs
  <2> QED BY <2>1 DEF DoomInv, Doomed
<1>9. ASSUME NEW b \in BOOLEAN, Lose(b) PROVE DoomInv'
  <2>1. job'.op = "closed" => DoomInv' BY DEF DoomInv
  <2> QED BY <1>8, <1>9, <2>1, LoseIs
<1>10. CASE Execute
  <2>1. mail' = {u \in mail : "deleted" \notin flags[u]} /\ flags' = flags BY <1>10, ExecuteIs
  <2>2. \A u \in Uids : ~Doomed(u)' BY <2>1 DEF Doomed
  <2> QED BY <2>2 DEF DoomInv
<1>11. ASSUME stack = <<>>, job'.op # "closed" => job.op # "closed", DOMAIN view' = DOMAIN view,
              UNCHANGED <<mail, flags, gap, off, marked, wanted>>, swept \subseteq swept',
              \A i \in DOMAIN view : view'[i].uid = view[i].uid /\ view'[i].changed = view[i].changed
       PROVE  DoomInv'
  <2>1. \A u \in Uids : Doomed(u)' => Doomed(u) BY <1>11 DEF Doomed
  <2>2. Excused \subseteq Excused' BY <1>11 DEF Excused
  <2> QED BY <1>2, <1>11, <2>1, <2>2, DoomStays
<1>12. ASSUME NEW i \in DOMAIN view, NEW f \in Flags, Toggle(i, f) PROVE DoomInv'
  <2>1. /\ DOMAIN view' = DOMAIN view /\ view'[i].uid = view[i].uid /\ view'[i].changed
        /\ \A j \in DOMAIN view : j # i => view'[j] = view[j]
        /\ wanted' = (IF IsDeleted(view'[i]) THEN wanted \cup {view[i].uid} ELSE wanted \ {view[i].uid})
        /\ stack = <<>> /\ UNCHANGED <<mail, flags, job, gap, off, swept, marked>>
    BY <1>12, ToggleIs
  <2>2. wanted \subseteq wanted' \cup {view'[i].uid} BY <2>1
  <2>3. \A j \in DOMAIN view : view[j].changed => view'[j].uid = view[j].uid /\ view'[j].changed
    BY <2>1
  <2>4. ~Storing BY <1>2, <2>1
  <2>5. \A u \in Uids : Doomed(u)' => Doomed(u) BY <2>1 DEF Doomed
  <2>6. Excused' = Excused BY <2>1 DEF Excused
  <2>7. ASSUME job.op # "closed", "hole" \notin gap, NEW u \in Uids, Doomed(u)'
        PROVE  \/ u \in wanted' \cup Excused'
               \/ \E k \in DOMAIN view' : view'[k].uid = u /\ view'[k].changed
    <3>1. u \in wanted \cup Excused \/ \E k \in DOMAIN view : view[k].uid = u /\ view[k].changed
      BY <2>4, <2>5, <2>7 DEF DoomInv
    <3> QED BY <2>1, <2>2, <2>3, <2>6, <3>1
  <2> QED BY <2>1, <2>7 DEF DoomInv
<1>13. ASSUME NEW i \in DOMAIN view, FetchMessage(i) PROVE DoomInv'
  <2>1. /\ DOMAIN view' = DOMAIN view /\ view'[i].uid = view[i].uid
        /\ view'[i].changed = view[i].changed
        /\ \A j \in DOMAIN view : j # i => view'[j] = view[j]
        /\ stack = <<>> /\ job.op = "idle" /\ UNCHANGED <<mail, flags, gap, off, swept, marked, wanted>>
    BY <1>13, FetchMessageIs
  <2> QED BY <1>11, <2>1
<1>14. ASSUME NEW i \in DOMAIN view, SyncMessage(i) PROVE DoomInv'
  <2>1. /\ DOMAIN view' = DOMAIN view
        /\ \A j \in DOMAIN view : j # i => view'[j] = view[j]
        /\ stack = <<>> /\ job'.op = job.op
        /\ UNCHANGED <<mail, flags, gap, off, swept, marked, wanted>>
        /\ stack' # <<>> /\ stack'[1].op = "STORE" /\ stack'[1].stage = "running"
        /\ stack'[1].uids = {view[i].uid}
    BY <1>14, SyncMessageIs
  <2>2. Storing' /\ view[i].uid \in stack'[1].uids BY <2>1 DEF Storing, Sent
  <2>3. Excused' = Excused /\ \A u \in Uids : Doomed(u)' => Doomed(u) BY <2>1 DEF Excused, Doomed
  <2>4. ASSUME job.op # "closed", "hole" \notin gap, NEW u \in Uids, Doomed(u)'
        PROVE  \/ u \in wanted' \cup Excused'
               \/ \E k \in DOMAIN view' : view'[k].uid = u /\ view'[k].changed
               \/ Storing' /\ u \in stack'[1].uids
    <3>1. u \in wanted \cup Excused \/ \E k \in DOMAIN view : view[k].uid = u /\ view[k].changed
      BY <1>2, <2>1, <2>3, <2>4 DEF DoomInv
    <3> QED BY <2>1, <2>2, <2>3, <3>1
  <2> QED BY <2>1, <2>4 DEF DoomInv
<1>15. CASE Begins BY <1>11, <1>15 DEF Begins
<1>16. ASSUME NEW b \in BOOLEAN, Return(b) PROVE DoomInv'
  <2>1. /\ stack # <<>> /\ stack[1].stage = "done" /\ DOMAIN view' = DOMAIN view
        /\ UNCHANGED <<mail, flags, gap, off, swept, wanted, marked>>
        /\ \A i \in DOMAIN view : view'[i].uid = view[i].uid /\ view'[i].changed = view[i].changed
    BY <1>16, ReturnIs
  <2>2. ~Storing BY <2>1 DEF Storing
  <2>3. job.op # "closed" BY <2>1 DEF BasicInv, JobInv
  <2>4. Excused' = Excused /\ \A u \in Uids : Doomed(u)' => Doomed(u) BY <2>1 DEF Excused, Doomed
  <2> QED BY <2>1, <2>2, <2>3, <2>4, DoomStays
<1>17. CASE SyncDelete
  <2>1. stack = <<>> /\ job.phase = "delete" /\ UNCHANGED <<mail, flags, gap, off, wanted, marked>>
    BY <1>17, SyncDeleteCases
  <2>2. job.op # "closed" BY <2>1 DEF BasicInv, JobInv
  <2>3. ASSUME NEW hdrs \in Orders, SendsDeletions(hdrs) PROVE DoomInv'
    <3>1. /\ DOMAIN view' = DOMAIN view
          /\ \A i \in DOMAIN view : view'[i].uid = view[i].uid /\ view'[i].changed = view[i].changed
          /\ swept \subseteq swept'
      BY <2>3, DeletionsAre
    <3> QED BY <1>11, <2>1, <2>2, <3>1
  <2> QED BY <1>11, <1>17, <2>1, <2>2, <2>3, SyncDeleteCases
<1> QED BY <1>3, <1>4, <1>5, <1>6, <1>7, <1>8, <1>9, <1>10, <1>12, <1>13, <1>14, <1>15, <1>16, <1>17,
           Beginning, StepKinds

LEMMA RespondsInactive ==
  ASSUME BasicInv, InactiveInv, Responds
  PROVE  InactiveInv'
<1>1. CASE job'.op = "closed" BY <1>1 DEF InactiveInv
<1>2. CASE OuterStays /\ job'.op # "closed"
  <2>1. job.op # "closed"
    <3>1. job' = job \/ job.op = "open" \/ job'.op = "closed" BY DEF Responds
    <3> QED BY <1>2, <3>1
  <2>2. job.op = "open" => ~Purging /\ \A i \in DOMAIN view : ~Held(i)
    BY DEF BasicInv, JobInv, Purging, Held, Sent
  <2>3. job.op # "open" => job' = job BY <1>2 DEF Responds
  <2>4. Sent("UID FETCH") \/ Sent("STORE") =>
          stack' # <<>> /\ stack'[1].op = stack[1].op /\ stack'[1].uids = stack[1].uids
    BY <1>2 DEF OuterStays, Sent
  <2>5. job.op # "open" /\ Purging => Purging'
    <3>1. job.phase = "expunge" => stack # <<>> /\ stack[1].op # "FETCH"
      BY DEF BasicInv, JobInv, Sent
    <3>2. job.phase = "expunge" => stack'[1].stage = stack[1].stage BY <1>2, <3>1 DEF OuterStays
    <3> QED BY <2>3, <3>2 DEF Purging
  <2>6. /\ Excused \subseteq Excused' /\ wanted' = wanted /\ \A u : Doomed(u)' <=> Doomed(u)
        /\ "hole" \notin gap' => "hole" \notin gap
    BY DEF Responds, Excused, Doomed
  <2>7. ASSUME "hole" \notin gap', NEW i \in DOMAIN view', ~view'[i].active, Doomed(view[i].uid)'
        PROVE  view'[i].uid \in Excused' \/ Kept(i)'
    <3>1. i \in DOMAIN view /\ view'[i].uid = view[i].uid /\ ~view[i].active
      BY <2>7 DEF Responds, Advances
    <3>2. view[i].uid \in Excused \/ Kept(i) BY <2>1, <2>6, <2>7, <3>1 DEF InactiveInv
    <3>3. CASE view[i].uid \in Excused BY <2>6, <3>1, <3>3
    <3>4. CASE Purging /\ view[i].uid \in wanted
      <4>1. Purging' BY <2>2, <2>5, <3>4
      <4> QED BY <2>6, <3>1, <3>4, <4>1 DEF Kept
    <3>5. CASE Held(i)
      <4>1. job' = job BY <2>2, <2>3, <3>1, <3>5
      <4>2. Held(i)' BY <2>4, <3>1, <3>5, <4>1 DEF Held, Sent
      <4> QED BY <4>2 DEF Kept
    <3> QED BY <3>2, <3>3, <3>4, <3>5 DEF Kept
  <2> QED BY <2>7 DEF InactiveInv
<1> QED BY <1>1, <1>2 DEF Responds

LEMMA TaggedInactive ==
  ASSUME BasicInv, AgreeInv, MarkInv, WantInv, InactiveInv, NEW ok \in BOOLEAN, Tagged(ok)
  PROVE  InactiveInv'
<1>1. Ends /\ stack # <<>> /\ UNCHANGED <<job, mail, swept, wanted>> BY TaggedEnds
<1>2. ViewTypes BY DEF BasicInv
<1>3. /\ "hole" \notin gap' => "hole" \notin gap
      /\ stack' # <<>> /\ stack'[1].op = stack[1].op /\ stack'[1].uids = stack[1].uids
  BY <1>1 DEF Ends
<1>4. off \subseteq off' /\ (~ok => Inactive \subseteq off') BY TaggedIs
<1>5. CASE \A k \in DOMAIN view' : view'[k].active BY <1>5 DEF InactiveInv
<1>6. CASE view' = view
  <2>1. \A i \in DOMAIN view : Held(i) => Held(i)' BY <1>1, <1>3, <1>6 DEF Held, Sent
  <2>2. ASSUME job.op # "closed", "hole" \notin gap', NEW i \in DOMAIN view, ~view[i].active,
               NEW u \in Uids, u = view[i].uid, Doomed(u)'
        PROVE  u \in Excused' \/ Kept(i)'
    <3>1. view'[i].uid = u BY <1>6, <2>2
    <3>2. u \in Inactive BY <2>2 DEF Inactive
    <3>3. CASE ~ok BY <1>4, <3>2, <3>3 DEF Excused
    <3>4. CASE ok /\ Doomed(u) /\ (u \in marked => u \in marked')
      <4>1. u \in Excused \/ Kept(i) BY <1>3, <2>2, <3>4 DEF InactiveInv
      <4>2. CASE u \in Excused BY <1>1, <1>4, <3>4, <4>2 DEF Excused
      <4>3. CASE Purging /\ u \in wanted
        <5>1. job.phase # "expunge"
          <6> SUFFICES ASSUME job.phase = "expunge" PROVE FALSE OBVIOUS
          <6>1. stack[1].op # "FETCH" /\ stack[1].stage = "sent" BY <4>3, <6>1 DEF BasicInv, JobInv, Sent, Purging
          <6>2. StackTypes /\ NestInv /\ 1 \in DOMAIN stack /\ Len(stack) \in Nat \ {0}
            BY <1>1, TopIs DEF BasicInv
          <6>3. ~(1 < Len(stack)) BY <6>1, <6>2 DEF NestInv
          <6>4. Top = stack[1] BY <6>2, <6>3 DEF Top
          <6>5. Top.stage = "running" BY <3>4 DEF Tagged
          <6> QED BY <6>1, <6>4, <6>5
        <5>2. Purging' BY <1>1, <4>3, <5>1 DEF Purging
        <5> QED BY <1>1, <3>1, <4>3, <5>2 DEF Kept
      <4>4. CASE Held(i) BY <2>1, <4>4 DEF Kept
      <4> QED BY <2>2, <4>1, <4>2, <4>3, <4>4 DEF Kept
    <3>5. CASE u \in swept BY <1>1, <3>5 DEF Excused
    <3>6. CASE Deleting /\ u \in wanted
      <4>1. job.purge /\ job.phase = "delete" BY <3>6 DEF MarkInv, Deleting, BasicInv, JobInv
      <4>2. Purging' BY <1>1, <4>1 DEF Purging
      <4> QED BY <1>1, <3>1, <3>6, <4>2 DEF Kept
    <3>7. CASE Storing /\ u \in stack[1].uids
      <4>1. Held(i) BY <2>2, <3>7 DEF Held, Storing
      <4> QED BY <2>1, <4>1 DEF Kept
    <3>9. "hole" \notin gap BY <1>3, <2>2
    <3>10. \/ Doomed(u) /\ (u \in marked => u \in marked')
           \/ u \in swept
           \/ Deleting /\ u \in wanted
           \/ Storing /\ u \in stack[1].uids /\ u \in wanted
      BY <2>2, <3>9, TaggedDoom
    <3> QED BY <3>3, <3>4, <3>5, <3>6, <3>7, <3>10
  <2>3. \A i \in DOMAIN view : view[i].uid \in Uids BY <1>2, HeaderUid
  <2> QED BY <1>1, <1>6, <2>2, <2>3 DEF InactiveInv
<1> QED BY <1>1, <1>5, <1>6 DEF Ends

(* The caller of a command goes on, or gives up because it was refused. *)
LEMMA ReturnInactive ==
  ASSUME BasicInv, RefusedInv, PlacedInv, InactiveInv, NEW b \in BOOLEAN, Return(b)
  PROVE  InactiveInv'
<1>1. /\ stack # <<>> /\ stack[1].stage = "done" /\ Top = stack[1]
      /\ UNCHANGED <<mail, flags, gap, off, swept, wanted, marked>> /\ DOMAIN view' = DOMAIN view
      /\ \A i \in DOMAIN view :
           view'[i].uid = view[i].uid /\ (view'[i] = view[i] \/ view'[i].active)
      /\ Sent("UID FETCH") => view'[job.pos].active
      /\ Sent("STORE") /\ stack[1].ok /\ job.pos \in DOMAIN view /\ view[job.pos].uid \in stack[1].uids
              => view'[job.pos].active
  BY ReturnIs
<1>2. StackTypes /\ JobInv /\ job.op # "closed" BY <1>1 DEF BasicInv, JobInv
<1>3. stack[1].ok /\ Purging => Purging'
  <2>1. job.phase # "-" => job.op # "fetch" BY <1>2 DEF JobInv
  <2>2. Returned(b) BY ReturnCases
  <2> SUFFICES ASSUME stack[1].ok, Purging PROVE Purging' OBVIOUS
  <2>3. job.purge /\ job.phase \in {"delete", "flags"}
    BY <1>1 DEF Purging
  <2>4. stack[1].op \in {"STORE deleted", "STORE"}
    BY <1>1, <1>2, <2>1, <2>2, <2>3 DEF Returned, JobInv, Sent
  <2>5. CASE stack[1].op = "STORE deleted"
    <3>1. job' = [job EXCEPT !.phase = "flags", !.pos = 1] BY <2>2, <2>5 DEF Returned
    <3>2. job'.phase = "flags" /\ job'.purge = job.purge BY <1>2, <3>1 DEF StackTypes, Jobs
    <3> QED BY <2>3, <3>2 DEF Purging
  <2>6. CASE stack[1].op = "STORE"
    <3>1. job.phase = "flags" BY <1>1, <1>2, <2>6 DEF JobInv, Sent
    <3>2. \E y : job' = [job EXCEPT !.pos = @ + 1, !.go = y] BY <2>2, <2>6 DEF Returned
    <3>3. job'.phase = "flags" /\ job'.purge = job.purge BY <1>2, <3>1, <3>2 DEF StackTypes, Jobs
    <3> QED BY <2>3, <3>3 DEF Purging
  <2> QED BY <2>4, <2>5, <2>6
<1>4. ASSUME "hole" \notin gap, NEW i \in DOMAIN view, ~view'[i].active, Doomed(view[i].uid)'
      PROVE  view'[i].uid \in Excused' \/ Kept(i)'
  <2>1. view'[i] = view[i] /\ ~view[i].active /\ Doomed(view[i].uid) BY <1>1, <1>4 DEF Doomed
  <2>2. Excused' = Excused /\ wanted' = wanted BY <1>1 DEF Excused
  <2>3. CASE ~stack[1].ok
    <3>1. Inactive \subseteq off BY <1>1, <2>3 DEF RefusedInv
    <3>2. view[i].uid \in Inactive BY <2>1 DEF Inactive
    <3> QED BY <2>1, <2>2, <3>1, <3>2 DEF Excused
  <2>4. CASE stack[1].ok
    <3>1. view[i].uid \in Excused \/ Kept(i) BY <1>2, <1>4, <2>1 DEF InactiveInv
    <3>2. ~Held(i)
      <4> SUFFICES ASSUME Held(i) PROVE FALSE OBVIOUS
      <4>1. Sent("STORE") /\ view[i].uid \in stack[1].uids BY <1>1, <1>4, <4>1 DEF Held
      <4>2. i = job.pos BY <1>4, <2>1, <4>1 DEF PlacedInv
      <4> QED BY <1>1, <1>4, <2>4, <4>1, <4>2
    <3> QED BY <1>3, <2>1, <2>2, <2>4, <3>1, <3>2 DEF Kept
  <2> QED BY <2>3, <2>4
<1> QED BY <1>1, <1>4 DEF InactiveInv

LEMMA InactiveStep ==
  ASSUME BasicInv, AgreeInv, FreshInv, MarkInv, RefusedInv, PlacedInv, WantInv, InactiveInv, [Next]_vars
  PROVE  InactiveInv'
<1>1. ViewTypes /\ StackTypes /\ JobInv BY DEF BasicInv
<1>2. stack = <<>> => \A i \in DOMAIN view : ~Held(i) BY DEF Held, Sent
<1>3. UNCHANGED vars => InactiveInv'
  BY UntouchedIs DEF InactiveInv, Doomed, Excused, Kept, Purging, Held, Sent
<1>4. ASSUME Deliver \/ (\E u \in Uids : OtherExpunge(u) \/ \E f \in OtherFlags : OtherStore(u, f))
      PROVE  InactiveInv'
  <2>1. UNCHANGED <<view, job, stack, gap, off, swept, wanted>>
    BY <1>4 DEF Deliver, OtherExpunge, OtherStore, client, history
  <2>2. \A u \in Uids : Doomed(u)' => u \in marked' \/ (Doomed(u) /\ u \notin marked)
    BY <1>4, OthersDoom
  <2>3. \A i \in DOMAIN view : view[i].uid \in Uids BY <1>1, HeaderUid
  <2> QED BY <2>1, <2>2, <2>3 DEF InactiveInv, Excused, Kept, Purging, Held, Sent
<1>5. ASSUME Exists \/ (\E u \in Uids : Expunge(u) \/ FetchFlags(u)) \/ FetchHeader \/ ReadNext
      PROVE  InactiveInv'
  BY <1>5, Responses, RespondsInactive
<1>6. ASSUME NEW ok \in BOOLEAN, Tagged(ok) PROVE InactiveInv' BY <1>6, TaggedInactive
(* With no command in progress. *)
<1>7. ASSUME stack = <<>>, job'.op # "closed" => job.op # "closed",
             "hole" \notin gap' => "hole" \notin gap,
             UNCHANGED <<mail, flags, off, marked, wanted>>, swept \subseteq swept',
             Purging => Purging',
             \A k \in DOMAIN view' : ~view'[k].active => Kept(k)' \/ \E i \in DOMAIN view :
               ~view[i].active /\ view'[k].uid = view[i].uid
      PROVE  InactiveInv'
  <2>1. Excused \subseteq Excused' /\ \A u : Doomed(u)' <=> Doomed(u) BY <1>7 DEF Excused, Doomed
  <2>2. ASSUME job'.op # "closed", "hole" \notin gap', NEW k \in DOMAIN view', ~view'[k].active,
               Doomed(view[k].uid)', ~Kept(k)'
        PROVE  view'[k].uid \in Excused'
    <3>1. PICK i \in DOMAIN view : ~view[i].active /\ view'[k].uid = view[i].uid BY <1>7, <2>2
    <3>2. view[i].uid \in Excused \/ Kept(i) BY <1>7, <2>1, <2>2, <3>1 DEF InactiveInv
    <3>3. ~Kept(i) BY <1>2, <1>7, <2>2, <3>1 DEF Kept
    <3> QED BY <2>1, <3>1, <3>2, <3>3
  <2> QED BY <2>2 DEF InactiveInv
<1>8. CASE CheckFinish
  <2>1. Ends /\ stack = <<>> /\ job.phase = "checked" /\ job'.op = job.op
        /\ UNCHANGED <<mail, flags, off, swept, wanted, marked>>
    BY <1>8, CheckFinishEnds
  <2>2. "hole" \notin gap' => "hole" \notin gap BY <2>1 DEF Ends
  <2>3. ~Purging BY <2>1 DEF Purging
  <2>4. \A k \in DOMAIN view' : \E i \in DOMAIN view : view'[k] = view[i] BY <2>1 DEF Ends
  <2> QED BY <1>7, <2>1, <2>2, <2>3, <2>4
<1>9. ASSUME Reopen, UNCHANGED server PROVE InactiveInv'
  <2>1. DOMAIN view' = {} BY <1>9, ReopenIs
  <2> QED BY <2>1 DEF InactiveInv
<1>10. ASSUME NEW b \in BOOLEAN, Lose(b) PROVE InactiveInv'
  <2>1. job'.op = "closed" => InactiveInv' BY DEF InactiveInv
  <2> QED BY <1>9, <1>10, <2>1, LoseIs
<1>11. CASE Execute
  <2>1. mail' = {u \in mail : "deleted" \notin flags[u]} /\ flags' = flags BY <1>11, ExecuteIs
  <2>2. \A u : ~Doomed(u)' BY <2>1 DEF Doomed
  <2> QED BY <2>2 DEF InactiveInv
<1>12. ASSUME NEW i \in DOMAIN view, NEW f \in Flags, Toggle(i, f) PROVE InactiveInv'
  <2>1. /\ DOMAIN view' = DOMAIN view
        /\ view'[i].uid = view[i].uid /\ view'[i].active = view[i].active
        /\ \A j \in DOMAIN view : j # i => view'[j] = view[j]
        /\ stack = <<>> /\ UNCHANGED <<mail, flags, job, gap, off, swept, marked>>
    BY <1>12, ToggleIs
  <2>2. job.op = "idle" BY <1>12, ToggleIs
  <2>3. ~Purging BY <1>1, <2>2 DEF Purging, JobInv
  <2>4. Excused' = Excused /\ \A u : Doomed(u)' <=> Doomed(u) BY <2>1 DEF Excused, Doomed
  <2>5. ASSUME "hole" \notin gap, NEW k \in DOMAIN view, ~view'[k].active, Doomed(view[k].uid)'
        PROVE  view'[k].uid \in Excused'
    <3>1. ~view[k].active /\ view'[k].uid = view[k].uid BY <2>1, <2>5
    <3> QED BY <1>2, <2>1, <2>2, <2>3, <2>4, <2>5, <3>1 DEF InactiveInv, Kept
  <2> QED BY <2>1, <2>5 DEF InactiveInv
<1>13. ASSUME NEW i \in DOMAIN view, FetchMessage(i) PROVE InactiveInv'
  <2>1. /\ DOMAIN view' = DOMAIN view
        /\ \A j \in DOMAIN view : j # i => view'[j] = view[j]
        /\ stack = <<>> /\ job.op = "idle" /\ UNCHANGED <<mail, flags, gap, off, swept, wanted, marked>>
        /\ stack' # <<>> /\ stack'[1].op = "UID FETCH" /\ job'.pos = i
    BY <1>13, FetchMessageIs
  <2>2. Kept(i)' BY <2>1 DEF Kept, Held, Sent
  <2>3. ~Purging BY <1>1, <2>1 DEF Purging, JobInv
  <2> QED BY <1>7, <2>1, <2>2, <2>3
<1>14. ASSUME NEW i \in DOMAIN view, SyncMessage(i) PROVE InactiveInv'
  <2>1. /\ DOMAIN view' = DOMAIN view /\ view'[i].uid = view[i].uid
        /\ \A j \in DOMAIN view : j # i => view'[j] = view[j]
        /\ stack = <<>> /\ job.phase = "flags" /\ UNCHANGED <<mail, flags, gap, off, swept, wanted, marked>>
        /\ stack' # <<>> /\ stack'[1].op = "STORE" /\ stack'[1].uids = {view[i].uid}
        /\ job'.op = job.op /\ job'.phase = job.phase /\ job'.purge = job.purge
    BY <1>14, SyncMessageIs
  <2>2. Kept(i)' BY <2>1 DEF Kept, Held, Sent
  <2>3. Purging => Purging' BY <2>1 DEF Purging
  <2> QED BY <1>7, <2>1, <2>2, <2>3
<1>15. ASSUME Begins, ~Purging PROVE InactiveInv' BY <1>7, <1>15 DEF Begins
<1>16. ASSUME Check \/ (\E b \in BOOLEAN : StartSync(b) \/ StartClose(b)) \/ CloseUnchanged \/ CheckResult
       PROVE  ~Purging
  BY <1>1, <1>16 DEF Check, StartSync, StartClose, CloseUnchanged, CheckResult, JobInv, Purging
<1>17. CASE SyncExpunge
  <2>1. Begins BY <1>17, Beginning
  <2>2. CASE ~Purging BY <1>15, <2>1, <2>2
  <2>3. CASE job' = [job EXCEPT !.phase = "expunge"] /\ Purging
    <3>1. job'.purge = job.purge /\ job'.phase = "expunge" BY <1>1, <2>3 DEF StackTypes, Jobs
    <3>2. \E op \in {"EXPUNGE", "CLOSE"} : stack' = <<Command(op, {})>>
      <4>1. job' # Job("closed", "-") /\ job' # Job("idle", "-")
        BY <3>1, JobIs
      <4> QED BY <1>17, <4>1 DEF SyncExpunge, Idle
    <3>3. \A op \in {"EXPUNGE", "CLOSE"} : Command(op, {}).stage = "sent" BY DEF Command
    <3>4. stack'[1].stage = "sent" BY <3>2, <3>3
    <3>5. Purging' BY <2>3, <3>1, <3>4 DEF Purging
    <3> QED BY <1>7, <2>1, <3>5 DEF Begins
  <2>4. CASE job' = Job("closed", "-") BY <2>4, JobIs DEF InactiveInv
  <2>5. Purging => job' = Job("closed", "-") \/ job' = [job EXCEPT !.phase = "expunge"]
    BY <1>17 DEF SyncExpunge, Purging
  <2> QED BY <2>2, <2>3, <2>4, <2>5
<1>18. ASSUME NEW b \in BOOLEAN, Return(b) PROVE InactiveInv' BY <1>18, ReturnInactive
<1>19. CASE SyncDelete
  <2>1. stack = <<>> /\ job.phase = "delete" /\ UNCHANGED <<mail, flags, gap, off, wanted, marked>>
    BY <1>19, SyncDeleteCases
  <2>2. job.op # "closed" BY <1>1, <2>1 DEF JobInv
  <2>3. ASSUME NEW hdrs \in Orders, SendsDeletions(hdrs) PROVE InactiveInv'
    <3>1. /\ DOMAIN view' = DOMAIN view
          /\ \A i \in DOMAIN view :
              /\ view'[i].uid = view[i].uid
              /\ ~Marks(view[i]) => view'[i] = view[i]
          /\ job' = job /\ job.purge /\ swept \subseteq swept'
      BY <2>3, DeletionsAre
    <3>2. Purging' BY <2>1, <3>1 DEF Purging
    <3>3. CASE "hole" \in gap BY <2>1, <3>3 DEF InactiveInv
    <3>4. CASE "hole" \notin gap
      <4>1. \A i \in DOMAIN view : Marks(view[i]) => view[i].uid \in wanted
        BY <3>4 DEF WantInv, Wants, Marks
      <4>2. \A i \in DOMAIN view : Marks(view[i]) => Kept(i)' BY <2>1, <3>1, <3>2, <4>1 DEF Kept
      <4> QED BY <1>7, <2>1, <2>2, <3>1, <3>2, <4>2
    <3> QED BY <3>3, <3>4
  <2>4. CASE job' = [job EXCEPT !.phase = "flags", !.pos = 1] /\ UNCHANGED <<view, stack, swept>>
    <3>1. job'.phase = "flags" /\ job'.purge = job.purge /\ job'.op = job.op
      BY <1>1, <2>4 DEF StackTypes, Jobs
    <3>2. Purging => Purging' BY <3>1 DEF Purging
    <3> QED BY <1>7, <2>1, <2>2, <2>4, <3>2
  <2> QED BY <1>19, <2>3, <2>4, SyncDeleteCases
<1>20. ASSUME \/ Check \/ \E b \in BOOLEAN : StartSync(b) \/ StartClose(b)
              \/ CloseUnchanged \/ CheckResult
       PROVE  InactiveInv'
  BY <1>15, <1>16, <1>20, Beginning
<1> QED BY <1>3, <1>4, <1>5, <1>6, <1>8, <1>9, <1>10, <1>11, <1>12, <1>13, <1>14, <1>17, <1>18, <1>19,
           <1>20, StepKinds

ExpungeInv == SaveInv /\ WantInv /\ DoomInv /\ InactiveInv

LEMMA ExpungeAlways == Spec => [](BasicInv /\ AgreeInv /\ CommandInv /\ ExpungeInv)
<1>1. Init => BasicInv /\ AgreeInv /\ CommandInv /\ ExpungeInv
  <2> SUFFICES ASSUME Init PROVE BasicInv /\ AgreeInv /\ CommandInv /\ ExpungeInv OBVIOUS
  <2>1. BasicInv /\ AgreeInv /\ CommandInv /\ SaveInv BY InitBasic, InitAgree, InitCommand, InitSave
  <2>2. DOMAIN view = {} /\ flags \in [Uids -> {{}}] BY DEF Init
  <2>3. \A u \in Uids : ~Doomed(u) BY <2>2 DEF Doomed
  <2>4. WantInv BY <2>2 DEF WantInv
  <2>5. DoomInv BY <2>3 DEF DoomInv
  <2>6. InactiveInv BY <2>2 DEF InactiveInv
  <2> QED BY <2>1, <2>4, <2>5, <2>6 DEF ExpungeInv
<1>2. ASSUME BasicInv, AgreeInv, CommandInv, ExpungeInv, [Next]_vars
      PROVE  (BasicInv /\ AgreeInv /\ CommandInv /\ ExpungeInv)'
  <2>1. BasicInv' /\ AgreeInv' /\ CommandInv' BY <1>2, BasicStep, AgreeStep, CommandStep
  <2>2. SaveInv' BY <1>2, <2>1, SaveStep DEF ExpungeInv
  <2>3. WantInv' BY <1>2, WantStep DEF ExpungeInv
  <2>4. DoomInv' BY <1>2, DoomStep DEF ExpungeInv, CommandInv
  <2>5. InactiveInv' BY <1>2, InactiveStep DEF ExpungeInv, CommandInv
  <2> QED BY <2>1, <2>2, <2>3, <2>4, <2>5 DEF ExpungeInv
<1> QED BY <1>1, <1>2, PTL DEF Spec

(* EXPUNGE and CLOSE remove only messages that the user has deleted          *)
(* (imap_sync_mailbox(), imap_close_mailbox()), or that other clients have;  *)
(* with the exceptions OnlyDeletedExpunged names.                            *)
THEOREM ImapOnlyDeletedExpunged == Spec => OnlyDeletedExpunged
<1> DEFINE Removes(u) ==
             \/ u \in wanted \cup marked \cup off \cup swept \/ "hole" \in gap
             \/ /\ job.phase = "-" \/ "skip" \in gap
                /\ \E i \in DOMAIN view : view[i].uid = u /\ view[i].changed
           Removal == Execute => \A u \in mail \ mail' : Removes(u)
<1>1. ASSUME BasicInv, ExpungeInv, Execute, NEW u \in mail \ mail', ~Removes(u) PROVE FALSE
  <2>1. ServerTypes /\ JobInv BY <1>1 DEF BasicInv
  <2>2. /\ stack # <<>> /\ stack[1].op \in {"EXPUNGE", "CLOSE"}
        /\ mail' = {v \in mail : "deleted" \notin flags[v]}
    BY <1>1, ExecuteIs
  <2>3. u \in Uids /\ Doomed(u) BY <1>1, <2>1, <2>2 DEF ServerTypes, Doomed
  <2>4. job.op # "closed" /\ "hole" \notin gap /\ u \notin wanted \cup Excused
    BY <1>1, <2>1, <2>2 DEF JobInv, Excused
  <2>5. ~Storing BY <2>2 DEF Storing, Sent
  <2>6. PICK i \in DOMAIN view : view[i].uid = u /\ view[i].changed
    BY <1>1, <2>3, <2>4, <2>5 DEF ExpungeInv, DoomInv
  <2>7. job.phase # "-" /\ "skip" \notin gap BY <1>1, <2>6
  <2>8. job.phase = "expunge" BY <2>1, <2>2, <2>7 DEF JobInv, Sent
  <2>9. ~view[i].active BY <1>1, <2>6, <2>7, <2>8 DEF ExpungeInv, SaveInv, Unsaved
  <2>10. ~Kept(i) BY <2>2, <2>4, <2>6 DEF Kept, Held, Sent
  <2>11. u \in Excused BY <1>1, <2>3, <2>4, <2>6, <2>9, <2>10 DEF ExpungeInv, InactiveInv
  <2> QED BY <2>4, <2>11
<1>2. (BasicInv /\ AgreeInv /\ CommandInv /\ ExpungeInv) /\ [Next]_vars => [Removal]_vars BY <1>1
<1> QED BY <1>2, ExpungeAlways, PTL DEF Spec, OnlyDeletedExpunged
=============================================================================
