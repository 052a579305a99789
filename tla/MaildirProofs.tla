---------------------------- MODULE MaildirProofs ----------------------------
(***************************************************************************)
(* What Maildir's safety properties rest on, for any number of messages,   *)
(* any names and any bounds.                                               *)
(***************************************************************************)
EXTENDS Maildir, FiniteSetTheorems, SequenceTheorems, TLAPS

-----------------------------------------------------------------------------
(* Sequences of two headers at most *)

(* Such a sequence is one of three. *)
LEMMA Forms ==
  ASSUME NEW S, NEW s \in Seq(S), Len(s) <= 2
  PROVE  s = <<>> \/ s = <<s[1]>> \/ s = <<s[1], s[2]>>
<1>1. Len(s) \in Nat OBVIOUS
<1>2. ASSUME NEW n \in Nat, n <= 2 PROVE n = 0 \/ n = 1 \/ n = 2 BY <1>2
<1>3. CASE Len(s) = 0 BY <1>3
<1>4. CASE Len(s) = 1 BY <1>4
<1>5. CASE Len(s) = 2 BY <1>5
<1>. QED BY <1>1, <1>2, <1>3, <1>4, <1>5

(* Keep() returns everything, nothing or one header. *)
LEMMA Keeps ==
  ASSUME NEW S, NEW v \in Seq(S), NEW I \in SUBSET DOMAIN v, Len(v) <= 2
  PROVE  /\ Keep(v, I) \in Seq(S)
         /\ I = {} => Keep(v, I) = <<>>
         /\ I = DOMAIN v => Keep(v, I) = v
         /\ I # {} /\ I # DOMAIN v => \E i \in I : Keep(v, I) = <<v[i]>>
<1>1. CASE I = {} /\ I # DOMAIN v BY <1>1 DEF Keep
<1>2. CASE I = DOMAIN v
  <2>1. Keep(v, I) = v BY <1>2 DEF Keep
  <2>2. Len(v) \in Nat /\ DOMAIN v = 1..Len(v) OBVIOUS
  <2>3. ASSUME I = {} PROVE v = <<>>
    <3>1. 1 \notin 1..Len(v) BY <1>2, <2>2, <2>3
    <3>2. Len(v) = 0 BY <3>1, <2>2
    <3>. QED BY <3>2
  <2>. QED BY <1>2, <2>1, <2>3
<1>3. CASE I # {} /\ I # DOMAIN v
  <2>1. PICK i \in I : i = CHOOSE j \in I : TRUE BY <1>3
  <2>2. Keep(v, I) = <<v[i]>> BY <1>3, <2>1 DEF Keep
  <2>3. v[i] \in S OBVIOUS
  <2>4. <<v[i]>> \in Seq(S) BY <2>3
  <2>. QED BY <1>3, <2>1, <2>2, <2>4
<1>. QED BY <1>1, <1>2, <1>3

(* One header after another. *)
LEMMA Appended ==
  ASSUME NEW S, NEW a \in S, NEW b \in S
  PROVE  Append(<<>>, a) = <<a>> /\ Append(<<a>>, b) = <<a, b>>
<1> DEFINE s == Append(<<a>>, b)
           t == <<a, b>>
<1>1. s \in Seq(S) /\ t \in Seq(S) /\ Len(s) = 2 /\ Len(t) = 2 OBVIOUS
<1>2. s[1] = a /\ s[2] = b /\ t[1] = a /\ t[2] = b OBVIOUS
<1>3. \A i \in 1..Len(s) : s[i] = t[i] BY <1>1, <1>2
<1>4. Append(<<>>, a) = <<a>> OBVIOUS
<1> HIDE DEF s, t
<1>5. s = t BY <1>1, <1>3, SeqEqual
<1>. QED BY <1>4, <1>5 DEF s, t

(* A function on the places of a sequence is a sequence. *)
LEMMA SameLength ==
  ASSUME NEW S, NEW T, NEW s \in Seq(S), NEW f, f = [i \in DOMAIN s |-> f[i]],
         \A i \in DOMAIN s : f[i] \in T
  PROVE  f \in Seq(T) /\ Len(f) = Len(s) /\ DOMAIN f = DOMAIN s
OBVIOUS

-----------------------------------------------------------------------------
(* Names and flags *)

(* What is called by a name in a directory is there. *)
LEMMA NamesHaveDirs ==
  ASSUME NEW nm \in Names \cup {None}
  PROVE  /\ nm.dir \in Dirs <=> nm # None
         /\ nm # None => nm \in Names
         /\ nm.dir \in Dirs => nm \in Names
BY DEF Names, None, Dirs

LEMMA HeadersTyped ==
  ASSUME NEW nm \in Names
  PROVE  /\ NewHeader(nm) \in Header
         /\ \A b \in SUBSET Bits : NameOf(b) \in Names /\ NoteTrash(b) \in SUBSET Bits
         /\ \A h \in Header : Merge(h, nm) \in Header
<1>1. ParseFlags(nm) \in SUBSET Bits BY DEF ParseFlags, Bits, Status
<1>2. NewHeader(nm) \in Header BY <1>1 DEF NewHeader, Header
<1>3. ASSUME NEW b \in SUBSET Bits PROVE NameOf(b) \in Names BY DEF NameOf, Names, Dirs
<1>4. ASSUME NEW b \in SUBSET Bits PROVE NoteTrash(b) \in SUBSET Bits BY DEF NoteTrash, Bits
<1>5. ASSUME NEW h \in Header PROVE Merge(h, nm) \in Header
  <2>1. h.bits \in SUBSET Bits BY DEF Header
  <2>2. UpdateFlags(h.bits, nm) \in SUBSET Bits BY <1>1, <2>1 DEF UpdateFlags
  <2>3. Merge(h, nm).bits \in SUBSET Bits BY <1>1, <2>1, <2>2 DEF Merge
  <2>. QED BY <2>3 DEF Merge, Header
<1>. QED BY <1>2, <1>3, <1>4, <1>5

(* A new header shows the flags of its name. *)
LEMMA NewHeaders ==
  ASSUME NEW nm \in Names
  PROVE  LET h == NewHeader(nm)
         IN  /\ h.path = nm /\ h.bits = ParseFlags(nm) /\ "changed" \notin h.bits
             /\ "trash" \in h.bits <=> "T" \in nm.flags
             /\ "deleted" \in h.bits <=> "T" \in nm.flags
BY DEF NewHeader, ParseFlags

(* The name that a sync gives says what is shown. *)
LEMMA NamesSayFlags ==
  ASSUME NEW b \in SUBSET Bits
  PROVE  /\ Shown(ParseFlags(NameOf(b))) = Shown(b)
         /\ "T" \in NameOf(b).flags <=> "deleted" \in b
         /\ Shown(NoteTrash(b)) = Shown(b)
<1> DEFINE nm == NameOf(b)
<1>1. /\ "F" \in nm.flags <=> "flagged" \in b
      /\ "S" \in nm.flags <=> "read" \in b
      /\ "T" \in nm.flags <=> "deleted" \in b
      /\ nm.dir = "cur" <=> ("read" \in b \/ "old" \in b)
  BY DEF NameOf
<1> HIDE DEF nm
<1>2. /\ "flagged" \in ParseFlags(nm) <=> "flagged" \in b
      /\ "read" \in ParseFlags(nm) <=> "read" \in b
      /\ "old" \in ParseFlags(nm) <=> ("read" \in b \/ "old" \in b)
  BY <1>1 DEF ParseFlags
<1>3. Shown(ParseFlags(nm)) = Shown(b) BY <1>2 DEF Shown
<1>4. Shown(NoteTrash(b)) = Shown(b) BY DEF NoteTrash, Shown
<1>. QED BY <1>1, <1>3, <1>4 DEF nm

(* What maildir_check_mailbox() makes of a known message. *)
LEMMA Merged ==
  ASSUME NEW h \in Header, NEW nm \in Names
  PROVE  LET g == Merge(h, nm)
         IN  /\ g.path = nm
             /\ "changed" \in g.bits <=> "changed" \in h.bits
             /\ "changed" \notin h.bits => Shown(g.bits) = Shown(ParseFlags(nm))
             /\ "trash" \in g.bits <=> "T" \in nm.flags
             /\ "deleted" \in g.bits <=>
                  IF "deleted" \in h.bits <=> "trash" \in h.bits
                  THEN "T" \in nm.flags ELSE "deleted" \in h.bits
<1> DEFINE g == Merge(h, nm)
           b == IF "changed" \in h.bits THEN h.bits ELSE UpdateFlags(h.bits, nm)
           del == IF "deleted" \in h.bits <=> "trash" \in h.bits THEN ParseFlags(nm) ELSE h.bits
<1>1. /\ g.path = nm
      /\ g.bits = (b \ {"deleted", "trash"}) \cup (del \cap {"deleted"})
                    \cup (ParseFlags(nm) \cap {"trash"})
  BY DEF Merge
<1>2. /\ "T" \in nm.flags <=> "deleted" \in ParseFlags(nm)
      /\ "T" \in nm.flags <=> "trash" \in ParseFlags(nm)
      /\ "changed" \notin ParseFlags(nm)
  BY DEF ParseFlags
<1>3. "changed" \in b <=> "changed" \in h.bits BY <1>2 DEF UpdateFlags, Status
<1>4. ASSUME "changed" \notin h.bits
      PROVE  \A x \in Status : x \in b <=> x \in ParseFlags(nm)
  BY <1>4 DEF UpdateFlags
<1> HIDE DEF b
<1>5. "deleted" \in del <=> IF "deleted" \in h.bits <=> "trash" \in h.bits
                            THEN "T" \in nm.flags ELSE "deleted" \in h.bits
  BY <1>2
<1> HIDE DEF del, g
<1>6. ASSUME "changed" \notin h.bits PROVE Shown(g.bits) = Shown(ParseFlags(nm))
  <2>1. \A x \in Status : x \in g.bits <=> x \in ParseFlags(nm)
    BY <1>1, <1>4, <1>6 DEF Status
  <2>. QED BY <2>1 DEF Shown, Status
<1>7. "changed" \in g.bits <=> "changed" \in h.bits BY <1>1, <1>3
<1>8. "trash" \in g.bits <=> "T" \in nm.flags BY <1>1, <1>2
<1>9. "deleted" \in g.bits <=> "deleted" \in del BY <1>1
<1>. QED BY <1>1, <1>5, <1>6, <1>7, <1>8, <1>9 DEF g

(* Headers can be counted. *)
LEMMA Counting ==
  /\ \A v, bit : HowMany(v, bit) \in Nat
  /\ \A M \in SUBSET Msgs : Cardinality(M) \in Nat
<1>0. 1 \in Int /\ 2 \in Int /\ N \in Int BY MaildirAssumption
<1>1. IsFiniteSet(Msgs) /\ IsFiniteSet(1..2)
  BY <1>0, FS_Interval DEF Msgs
<1>2. IsFiniteSet(Msgs \X (1..2)) BY <1>1, FS_Product
<1>3. ASSUME NEW v, NEW bit PROVE HowMany(v, bit) \in Nat
  <2> DEFINE X == {x \in Msgs \X (1..2) : x[2] \in DOMAIN v[x[1]] /\ bit \in v[x[1]][x[2]].bits}
  <2>1. X \subseteq Msgs \X (1..2) OBVIOUS
  <2> HIDE DEF X
  <2>2. IsFiniteSet(X) BY <1>2, <2>1, FS_Subset
  <2>3. Cardinality(X) \in Nat BY <2>2, FS_CardinalityType
  <2>. QED BY <2>3 DEF HowMany, X
<1>4. ASSUME NEW M \in SUBSET Msgs PROVE Cardinality(M) \in Nat
  <2>1. IsFiniteSet(M) BY <1>1, FS_Subset
  <2>. QED BY <2>1, FS_CardinalityType
<1>. QED BY <1>3, <1>4

-----------------------------------------------------------------------------
(* The inductive invariant *)

(* What muttng knows of a message whose file is called nm, as far as the     *)
(* directories D are concerned, if its headers are v.                        *)
KnownIn(nm, v, D) ==
  /\ nm.dir \in D =>
       /\ Len(v) = 1 /\ v[1].path = nm
       /\ "changed" \notin v[1].bits => Shown(v[1].bits) = Shown(ParseFlags(nm))
  /\ \A i \in DOMAIN v :
       v[i].path.dir \in D =>
         v[i].path = nm /\ ("trash" \in v[i].bits <=> "T" \in v[i].path.flags)

(* The user's last word, s, is what the only header says; if he has not had  *)
(* any, the header says what it has found.                                   *)
SaidIn(v, s) ==
  /\ v = <<>> => s = "-"
  /\ Len(v) = 1 =>
       /\ s = "delete" => "deleted" \in v[1].bits
       /\ s = "undelete" => "deleted" \notin v[1].bits
       /\ s = "-" => ("deleted" \in v[1].bits <=> "trash" \in v[1].bits)

(* A sync has done what there was to be done for a header. *)
Done(h) ==
  ~Unlinks(h.bits) /\ ("changed" \in h.bits => Shown(h.bits) = Shown(ParseFlags(h.path)))

(* Of a message that muttng's scans have not missed: when the folder is      *)
(* idle it knows all but the directories that are newer than its last look,  *)
(* in a check all but those it is scanning, and in a sync everything but the *)
(* files that it has just removed.                                           *)
FreshIn(m) ==
  /\ pc = "opening" => view[m] = IF file[m].dir = "new" THEN <<NewHeader(file[m])>> ELSE <<>>
  /\ pc = "idle" => KnownIn(file[m], view[m], Dirs \ Newer)
  /\ pc = "checking" =>
       /\ KnownIn(file[m], view[m], Dirs \ mask)
       /\ scan[m] = IF "new" \in mask /\ file[m].dir = "new" THEN file[m] ELSE None
  /\ pc = "syncing" =>
       IF file[m] = None
       THEN \A i \in DOMAIN view[m] :
              purge = "yes" /\ Unlinks(view[m][i].bits) /\ view[m][i].path.dir \in Newer
       ELSE KnownIn(file[m], view[m], Dirs) /\ (<<m, 1>> \notin todo => Done(view[m][1]))

(* What each of the variables can be where. *)
PlaceInv ==
  /\ pc = "closed" => view = [m \in Msgs |-> <<>>] /\ raced = {}
  /\ pc = "opening" => \A m \in Msgs : Len(view[m]) <= 1
  /\ pc # "syncing" => todo = {}
  /\ \A m \in Msgs, i \in 1..2 : <<m, i>> \in todo => i \in DOMAIN view[m]
  /\ \A m \in Msgs : scan[m] # None => scan[m].dir = "new" /\ "new" \in mask

TimeInv == \A d \in Dirs : mtime[d] <= clock /\ seen[d] <= clock
SaidInv == \A m \in Msgs : SaidIn(view[m], said[m])
FreshInv == \A m \in Msgs \ raced : FreshIn(m)

ShapeInv == MaildirTypeOK /\ PlaceInv
MaildirInv == ShapeInv /\ TimeInv /\ SaidInv /\ FreshInv

-----------------------------------------------------------------------------
(* What the steps do with the headers of one message *)

(* The headers w differ from v only in flags that the user has changed. *)
Kin(v, w) ==
  /\ w \in Seq(Header) /\ Len(w) = Len(v) /\ DOMAIN w = DOMAIN v
  /\ \A i \in DOMAIN v :
       /\ w[i].path = v[i].path
       /\ "trash" \in w[i].bits <=> "trash" \in v[i].bits
       /\ "changed" \in v[i].bits => "changed" \in w[i].bits
       /\ "changed" \notin w[i].bits => Shown(w[i].bits) = Shown(v[i].bits)

LEMMA KinKnow ==
  ASSUME NEW nm, NEW D, NEW v \in Seq(Header), NEW w, Kin(v, w), KnownIn(nm, v, D)
  PROVE  KnownIn(nm, w, D)
<1>1. Len(v) = 1 => 1 \in DOMAIN v OBVIOUS
<1>. QED BY <1>1 DEF Kin, KnownIn

(* The empty sequence is the one of length 0. *)
LEMMA Lengths ==
  ASSUME NEW S, NEW v \in Seq(S)
  PROVE  /\ DOMAIN v = 1..Len(v) /\ Len(v) \in Nat
         /\ v = <<>> <=> Len(v) = 0
         /\ v # <<>> => 1 \in DOMAIN v /\ v[1] \in S /\ Head(v) = v[1]
         /\ \A i \in DOMAIN v : v[i] \in S /\ i \in Nat
         /\ Len(v) <= 2 => DOMAIN v \subseteq 1..2
OBVIOUS

(* Other flags of a header. *)
LEMMA OtherBits ==
  ASSUME NEW h \in Header, NEW b \in SUBSET Bits
  PROVE  /\ [h EXCEPT !.bits = b] = [path |-> h.path, bits |-> b]
         /\ [h EXCEPT !.bits = b] \in Header
         /\ [h EXCEPT !.bits = b].path = h.path /\ [h EXCEPT !.bits = b].bits = b
         /\ h.path \in Names /\ h.bits \in SUBSET Bits
BY DEF Header

(* Closing marks messages as old. *)
LEMMA Marked ==
  ASSUME NEW v \in [Msgs -> Seq(Header)], NEW m \in Msgs
  PROVE  /\ MarkedOld(v) \in [Msgs -> Seq(Header)]
         /\ Kin(v[m], MarkedOld(v)[m])
         /\ \A i \in DOMAIN v[m] : "deleted" \in MarkedOld(v)[m][i].bits <=> "deleted" \in v[m][i].bits
<1> DEFINE f(k) == [i \in DOMAIN v[k] |->
                      IF v[k][i].bits \cap {"deleted", "old"} = {}
                      THEN [v[k][i] EXCEPT !.bits = @ \cup {"old", "changed"}] ELSE v[k][i]]
<1>1. MarkedOld(v) = [k \in Msgs |-> f(k)] BY DEF MarkedOld
<1>2. ASSUME NEW k \in Msgs, NEW i \in DOMAIN v[k]
      PROVE  /\ f(k)[i] \in Header
             /\ f(k)[i].path = v[k][i].path
             /\ f(k)[i].bits = IF v[k][i].bits \cap {"deleted", "old"} = {}
                               THEN v[k][i].bits \cup {"old", "changed"} ELSE v[k][i].bits
  <2>1. v[k][i] \in Header OBVIOUS
  <2>2. f(k)[i] = IF v[k][i].bits \cap {"deleted", "old"} = {}
                  THEN [v[k][i] EXCEPT !.bits = v[k][i].bits \cup {"old", "changed"}]
                  ELSE v[k][i]
    OBVIOUS
  <2>3. v[k][i].bits \cup {"old", "changed"} \in SUBSET Bits
    BY <2>1, OtherBits DEF Bits, Status
  <2> HIDE DEF f
  <2>4. CASE v[k][i].bits \cap {"deleted", "old"} = {}
    <3> DEFINE h == v[k][i]
               b == v[k][i].bits \cup {"old", "changed"}
    <3>1. f(k)[i] = [h EXCEPT !.bits = b] BY <2>2, <2>4
    <3>2. h \in Header /\ b \in SUBSET Bits BY <2>1, <2>3
    <3> HIDE DEF h, b
    <3>3. f(k)[i] = [path |-> h.path, bits |-> b] /\ h.path \in Names
      BY <3>1, <3>2 DEF Header
    <3>4. f(k)[i] \in Header /\ f(k)[i].path = h.path /\ f(k)[i].bits = b
      BY <3>2, <3>3 DEF Header
    <3>. QED BY <2>4, <3>4 DEF h, b
  <2>5. CASE v[k][i].bits \cap {"deleted", "old"} # {} BY <2>1, <2>2, <2>5
  <2>. QED BY <2>4, <2>5
<1>3. ASSUME NEW k \in Msgs
      PROVE  f(k) \in Seq(Header) /\ Len(f(k)) = Len(v[k]) /\ DOMAIN f(k) = DOMAIN v[k]
  <2>1. v[k] \in Seq(Header) OBVIOUS
  <2>2. \A i \in DOMAIN v[k] : f(k)[i] \in Header BY <1>2
  <2>3. f(k) = [i \in DOMAIN v[k] |-> f(k)[i]] OBVIOUS
  <2> HIDE DEF f
  <2>. QED BY <2>1, <2>2, <2>3, SameLength
<1> HIDE DEF f
<1>4. MarkedOld(v) \in [Msgs -> Seq(Header)] BY <1>1, <1>3
<1>5. MarkedOld(v)[m] = f(m) BY <1>1
<1>6. ASSUME NEW i \in DOMAIN v[m]
      PROVE  /\ "deleted" \in f(m)[i].bits <=> "deleted" \in v[m][i].bits
             /\ "trash" \in f(m)[i].bits <=> "trash" \in v[m][i].bits
             /\ "changed" \in v[m][i].bits => "changed" \in f(m)[i].bits
             /\ "changed" \notin f(m)[i].bits => Shown(f(m)[i].bits) = Shown(v[m][i].bits)
  <2>1. f(m)[i].bits = IF v[m][i].bits \cap {"deleted", "old"} = {}
                       THEN v[m][i].bits \cup {"old", "changed"} ELSE v[m][i].bits
    BY <1>2
  <2>2. CASE v[m][i].bits \cap {"deleted", "old"} = {} BY <2>1, <2>2
  <2>3. CASE v[m][i].bits \cap {"deleted", "old"} # {} BY <2>1, <2>3
  <2>. QED BY <2>2, <2>3
<1>7. Kin(v[m], f(m)) BY <1>2, <1>3, <1>6 DEF Kin
<1>. QED BY <1>4, <1>5, <1>6, <1>7

(* The answer no undeletes messages. *)
LEMMA Undeleted ==
  ASSUME NEW v \in [Msgs -> Seq(Header)], NEW ans \in {"yes", "no"}, NEW m \in Msgs
  PROVE  /\ Answered(v, ans) \in [Msgs -> Seq(Header)]
         /\ Kin(v[m], Answered(v, ans)[m])
         /\ \A i \in DOMAIN v[m] :
              "deleted" \in Answered(v, ans)[m][i].bits <=> ans = "yes" /\ "deleted" \in v[m][i].bits
<1>1. CASE ans = "yes"
  <2>1. Answered(v, ans) = v BY <1>1 DEF Answered
  <2>2. Kin(v[m], v[m]) BY DEF Kin
  <2>. QED BY <1>1, <2>1, <2>2
<1>2. CASE ans = "no"
  <2> DEFINE f(k) == [i \in DOMAIN v[k] |-> [v[k][i] EXCEPT !.bits = @ \ {"deleted"}]]
  <2>1. Answered(v, ans) = [k \in Msgs |-> f(k)] BY <1>2 DEF Answered
  <2>2. ASSUME NEW k \in Msgs, NEW i \in DOMAIN v[k]
        PROVE  /\ f(k)[i] \in Header /\ f(k)[i].path = v[k][i].path
               /\ f(k)[i].bits = v[k][i].bits \ {"deleted"}
    <3> DEFINE h == v[k][i]
               b == v[k][i].bits \ {"deleted"}
    <3>1. h \in Header OBVIOUS
    <3>2. f(k)[i] = [h EXCEPT !.bits = b] OBVIOUS
    <3>3. b \in SUBSET Bits BY <3>1, OtherBits
    <3> HIDE DEF f, h, b
    <3>4. f(k)[i] = [path |-> h.path, bits |-> b] /\ h.path \in Names
      BY <3>1, <3>2, <3>3 DEF Header
    <3>5. f(k)[i] \in Header /\ f(k)[i].path = h.path /\ f(k)[i].bits = b
      BY <3>3, <3>4 DEF Header
    <3>. QED BY <3>5 DEF h, b
  <2>3. ASSUME NEW k \in Msgs
        PROVE  f(k) \in Seq(Header) /\ Len(f(k)) = Len(v[k]) /\ DOMAIN f(k) = DOMAIN v[k]
    <3>1. v[k] \in Seq(Header) OBVIOUS
    <3>2. \A i \in DOMAIN v[k] : f(k)[i] \in Header BY <2>2
    <3>3. f(k) = [i \in DOMAIN v[k] |-> f(k)[i]] OBVIOUS
    <3> HIDE DEF f
    <3>. QED BY <3>1, <3>2, <3>3, SameLength
  <2> HIDE DEF f
  <2>4. Answered(v, ans) \in [Msgs -> Seq(Header)] BY <2>1, <2>3
  <2>5. Answered(v, ans)[m] = f(m) BY <2>1
  <2>6. ASSUME NEW i \in DOMAIN v[m]
        PROVE  /\ "deleted" \notin f(m)[i].bits
               /\ "trash" \in f(m)[i].bits <=> "trash" \in v[m][i].bits
               /\ "changed" \in f(m)[i].bits <=> "changed" \in v[m][i].bits
               /\ Shown(f(m)[i].bits) = Shown(v[m][i].bits)
    <3>1. f(m)[i].bits = v[m][i].bits \ {"deleted"} BY <2>2
    <3>. QED BY <3>1 DEF Shown
  <2>7. Kin(v[m], f(m)) BY <2>2, <2>3, <2>6 DEF Kin
  <2>. QED BY <1>2, <2>4, <2>5, <2>6, <2>7
<1>. QED BY <1>1, <1>2

LEMMA KinKin ==
  ASSUME NEW u, NEW v, NEW w, Kin(u, v), Kin(v, w) PROVE Kin(u, w)
BY DEF Kin

(* What a sync begins with. *)
LEMMA Prepared ==
  ASSUME MaildirTypeOK, NEW ans \in {"yes", "no"}, NEW wh, NEW m \in Msgs
  PROVE  LET w == Answered(IF wh = "close" THEN MarkedOld(view) ELSE view, ans)
         IN  /\ w \in [Msgs -> Seq(Header)]
             /\ Kin(view[m], w[m])
             /\ \A i \in DOMAIN view[m] :
                  "deleted" \in w[m][i].bits <=> ans = "yes" /\ "deleted" \in view[m][i].bits
<1> DEFINE v == IF wh = "close" THEN MarkedOld(view) ELSE view
<1>1. view \in [Msgs -> Seq(Header)] BY DEF MaildirTypeOK
<1>2. /\ v \in [Msgs -> Seq(Header)] /\ Kin(view[m], v[m])
      /\ \A i \in DOMAIN view[m] : "deleted" \in v[m][i].bits <=> "deleted" \in view[m][i].bits
  <2>1. CASE wh = "close" BY <1>1, <2>1, Marked
  <2>2. CASE wh # "close"
    <3>1. Kin(view[m], view[m]) BY <1>1 DEF Kin
    <3>. QED BY <1>1, <2>2, <3>1
  <2>. QED BY <2>1, <2>2
<1> HIDE DEF v
<1>3. /\ Answered(v, ans) \in [Msgs -> Seq(Header)] /\ Kin(v[m], Answered(v, ans)[m])
      /\ \A i \in DOMAIN v[m] :
           "deleted" \in Answered(v, ans)[m][i].bits <=> ans = "yes" /\ "deleted" \in v[m][i].bits
  BY <1>2, Undeleted
<1>4. DOMAIN v[m] = DOMAIN view[m] BY <1>2 DEF Kin
<1>5. Kin(view[m], Answered(v, ans)[m]) BY <1>2, <1>3, KinKin
<1>. QED BY <1>2, <1>3, <1>4, <1>5 DEF v

(* What a check leaves of a message's headers, whatever has happened to it. *)
LEMMA EntriesTyped ==
  ASSUME MaildirTypeOK, PlaceInv, NEW m \in Msgs
  PROVE  LET e == Entries(m)
         IN  /\ e \in Seq(Names) /\ Len(e) <= 2
             /\ Len(e) = 2 => mask = Dirs /\ e[1].dir = "new" /\ e[2] = file[m]
                              /\ file[m].dir = "cur"
             /\ \A i \in DOMAIN e : e[i].dir \in mask
<1>1. /\ file[m] \in Names \cup {None} /\ scan[m] \in Names \cup {None} /\ mask \subseteq Dirs
      /\ scan[m] # None => scan[m].dir = "new" /\ "new" \in mask
  BY DEF MaildirTypeOK, PlaceInv
<1> DEFINE a == IF scan[m] = None THEN <<>> ELSE <<scan[m]>>
           c == "cur" \in mask /\ file[m].dir = "cur"
<1>2. Entries(m) = a \o (IF c THEN <<file[m]>> ELSE <<>>) BY DEF Entries
<1>3. c => file[m] \in Names BY <1>1, NamesHaveDirs DEF Dirs
<1>4. scan[m] # None => scan[m] \in Names BY <1>1
<1>5. CASE scan[m] = None /\ ~c
  <2>1. Entries(m) = <<>> BY <1>2, <1>5
  <2>. QED BY <2>1
<1>6. CASE scan[m] = None /\ c
  <2>1. Entries(m) = <<file[m]>> BY <1>2, <1>3, <1>6
  <2>. QED BY <1>3, <1>6, <2>1
<1>7. CASE scan[m] # None /\ ~c
  <2>1. Entries(m) = <<scan[m]>> \o <<>> BY <1>2, <1>7
  <2>2. <<scan[m]>> \in Seq(Names) BY <1>4, <1>7
  <2>3. Entries(m) = <<scan[m]>> BY <2>1, <2>2, ConcatEmptySeq
  <2>. QED BY <1>1, <1>4, <1>7, <2>3
<1>8. CASE scan[m] # None /\ c
  <2> DEFINE e == <<scan[m]>> \o <<file[m]>>
  <2>1. Entries(m) = e BY <1>2, <1>8
  <2>2. e \in Seq(Names) /\ Len(e) = 2 /\ e[1] = scan[m] /\ e[2] = file[m]
    BY <1>3, <1>4, <1>8
  <2>3. mask = Dirs BY <1>1, <1>8 DEF Dirs
  <2> HIDE DEF e
  <2>4. DOMAIN e = {1, 2} BY <2>2
  <2>. QED BY <1>1, <1>8, <2>1, <2>2, <2>3, <2>4
<1>. QED BY <1>5, <1>6, <1>7, <1>8

Staying(v) == {i \in DOMAIN v : Stay(v[i])}

(* The header that a check merges with the first entry. *)
MergedFirst(v, nm) == [v EXCEPT ![1] = Merge(v[1], nm)]

LEMMA FirstMerged ==
  ASSUME NEW v \in Seq(Header), v # <<>>, Len(v) <= 2, NEW nm \in Names
  PROVE  /\ MergedFirst(v, nm) \in Seq(Header) /\ Len(MergedFirst(v, nm)) = Len(v)
         /\ MergedFirst(v, nm)[1] = Merge(v[1], nm)
<1>1. 1 \in 1..Len(v) /\ v[1] \in Header BY Lengths
<1>2. Merge(v[1], nm) \in Header BY <1>1, HeadersTyped
<1>. QED BY <1>1, <1>2, ExceptSeq DEF MergedFirst

(* The three ways of a check with a message's headers: no entry is found, or *)
(* entries of a message without headers, or the first entry is merged.       *)
LEMMA CheckedWays ==
  ASSUME MaildirTypeOK, PlaceInv, NEW m \in Msgs
  PROVE  \/ Entries(m) = <<>> /\ Added(m) = <<>> /\ Active(m) = Keep(view[m], Staying(view[m]))
         \/ /\ Entries(m) # <<>> /\ view[m] = <<>> /\ Active(m) = <<>>
            /\ Added(m) = <<>> \/ (file[m] \in Names /\ Added(m) = <<NewHeader(file[m])>>)
         \/ /\ Entries(m) # <<>> /\ view[m] # <<>> /\ Entries(m)[1] \in Names
            /\ \/ Active(m) = MergedFirst(view[m], Entries(m)[1])
               \/ Active(m) = <<Merge(view[m][1], Entries(m)[1])>>
            /\ Len(Active(m)) = 1 \/ Active(m) = MergedFirst(view[m], Entries(m)[1])
            /\ \/ Added(m) = <<>>
               \/ /\ file[m] \in Names /\ Added(m) = <<NewHeader(file[m])>>
                  /\ Active(m) = <<Merge(view[m][1], Entries(m)[1])>>
            /\ Active(m) # <<>>
<1> DEFINE v == view[m]
           e == Entries(m)
           w == MergedFirst(v, e[1])
           found == {i \in DOMAIN e : e[i] = file[m] /\ (i = 1 => v = <<>>)}
<1>1. /\ v \in Seq(Header) /\ Len(v) <= 2 /\ file[m] \in Names \cup {None}
      BY DEF MaildirTypeOK
<1>2. /\ e \in Seq(Names) /\ Len(e) <= 2
      /\ Len(e) = 2 => mask = Dirs
  BY EntriesTyped
<1>3. Added(m) = IF found = {} THEN <<>> ELSE <<NewHeader(file[m])>> BY DEF Added
<1>4. Active(m) = IF v = <<>> \/ e = <<>> THEN Keep(v, Staying(v))
                  ELSE Keep(w, {1} \cup Staying(v))
  BY DEF Active, Staying, MergedFirst
<1>5. found # {} => file[m] \in Names
  <2>1. \A i \in DOMAIN e : e[i] \in Names BY <1>2, Lengths
  <2>. QED BY <2>1
<1> HIDE DEF found, w
<1>6. CASE e = <<>>
  <2>1. found = {} BY <1>6 DEF found
  <2>. QED BY <1>3, <1>4, <1>6, <2>1
<1>7. CASE e # <<>> /\ v = <<>>
  <2>1. Staying(v) = {} /\ Staying(v) \in SUBSET DOMAIN v BY <1>7 DEF Staying
  <2> HIDE DEF e, v
  <2>2. Keep(v, Staying(v)) = <<>> BY <1>1, <2>1, Keeps
  <2>. QED BY <1>3, <1>4, <1>5, <1>7, <2>2 DEF e, v
<1>8. CASE e # <<>> /\ v # <<>>
  <2>1. e[1] \in Names BY <1>2, <1>8, Lengths
  <2>2. /\ w \in Seq(Header) /\ Len(w) = Len(v) /\ w[1] = Merge(v[1], e[1])
    BY <1>1, <1>8, <2>1, FirstMerged DEF w
  <2>3. /\ DOMAIN v = 1..Len(v) /\ DOMAIN w = 1..Len(v) /\ Len(v) \in {1, 2}
        /\ v[1] \in Header /\ DOMAIN w \in {{1}, {1, 2}}
    <3>1. DOMAIN v = 1..Len(v) /\ DOMAIN w = 1..Len(w) BY <1>1, <2>2, Lengths
    <3>2. Len(v) \in Nat /\ Len(v) # 0 /\ v[1] \in Header BY <1>1, <1>8, Lengths
    <3>3. ASSUME NEW n \in Nat, n # 0, n <= 2 PROVE n \in {1, 2} /\ 1..n \in {{1}, {1, 2}}
      BY <3>3
    <3>. QED BY <1>1, <2>2, <3>1, <3>2, <3>3
  <2> DEFINE I == {1} \cup Staying(v)
  <2>4. I \in SUBSET DOMAIN w /\ 1 \in I BY <2>3 DEF Staying
  <2>5. Active(m) = Keep(w, I) BY <1>4, <1>8
  <2> HIDE DEF I
  <2>6. \/ I = DOMAIN w
        \/ I # DOMAIN w /\ I = {1}
    BY <2>3, <2>4
  <2>7. CASE I = DOMAIN w
    <3>1. Active(m) = w BY <1>1, <2>2, <2>4, <2>5, <2>7, Keeps
    <3>2. w # <<>> BY <2>2, <2>3
    <3>3. ASSUME found # {} PROVE w = <<w[1]>>
      <4>1. PICK i \in DOMAIN e : i # 1 BY <1>8, <3>3 DEF found
      <4>2. Len(e) = 2
        <5>1. i \in 1..Len(e) /\ Len(e) \in Nat BY <1>2, <4>1, Lengths
        <5>2. ASSUME NEW n \in Nat, n <= 2, NEW j \in 1..n, j # 1 PROVE n = 2 BY <5>2
        <5>3. Len(e) <= 2 BY <1>2
        <5>. QED BY <4>1, <5>1, <5>2, <5>3
      <4>3. \A h \in Header : ~Stay(h) BY <1>2, <4>2, NamesHaveDirs DEF Stay, Header, Names
      <4>4. Staying(v) = {} BY <1>1, <4>3, Lengths DEF Staying
      <4>5. DOMAIN w = {1} BY <2>7, <4>4 DEF I
      <4>6. Len(w) = 1 BY <2>2, <2>3, <4>5
      <4>. QED BY <2>2, <4>6, Forms
    <3>. QED BY <1>3, <1>5, <1>8, <2>1, <2>2, <3>1, <3>2, <3>3 DEF w
  <2>8. CASE I # DOMAIN w /\ I = {1}
    <3>0. w \in Seq(Header) /\ Len(w) <= 2 /\ I # {} BY <1>1, <2>2, <2>4
    <3>1. \E i \in I : Keep(w, I) = <<w[i]>> BY <3>0, <2>4, <2>8, Keeps
    <3>3. Active(m) = <<w[1]>> BY <2>5, <2>8, <3>1
    <3>2. Len(<<w[1]>>) = 1 /\ <<w[1]>> # <<>> OBVIOUS
    <3>. QED BY <1>3, <1>5, <1>8, <2>1, <2>2, <3>2, <3>3
  <2>. QED BY <2>6, <2>7, <2>8
<1>. QED BY <1>6, <1>7, <1>8

Checked(m) == Active(m) \o Added(m)

(* What a check makes of said[m], in CheckCur. *)
SaidAfter(m) ==
  IF Len(Active(m)) # Len(view[m]) THEN LastWord(Active(m))
  ELSE IF /\ view[m] # <<>> /\ Entries(m) # <<>>
          /\ ~("trash" \in Head(view[m]).bits <=> "T" \in Head(Entries(m)).flags)
  THEN "-" ELSE said[m]

(* No message has more than two headers after a check. *)
LEMMA CheckedTyped ==
  ASSUME MaildirTypeOK, PlaceInv, NEW m \in Msgs
  PROVE  /\ Checked(m) \in Seq(Header) /\ Len(Checked(m)) <= 2
         /\ Active(m) \in Seq(Header) /\ Added(m) \in Seq(Header) /\ Len(Added(m)) <= 1
         /\ Added(m) = <<>> => Checked(m) = Active(m)
         /\ Active(m) = <<>> => Checked(m) = Added(m)
         /\ Active(m) # <<>> /\ Added(m) # <<>> => Len(Checked(m)) = 2
<1> DEFINE v == view[m]
           w == MergedFirst(v, Entries(m)[1])
<1>1. v \in Seq(Header) /\ Len(v) <= 2 BY DEF MaildirTypeOK
<1>2. ASSUME file[m] \in Names
      PROVE  <<NewHeader(file[m])>> \in Seq(Header) /\ Len(<<NewHeader(file[m])>>) <= 1
  <2>1. NewHeader(file[m]) \in Header BY <1>2, HeadersTyped
  <2>. QED BY <2>1
<1>3. <<>> \in Seq(Header) /\ Len(<<>>) = 0 /\ Len(<<>>) <= 1 /\ Len(<<>>) <= 2 OBVIOUS
<1>4. ASSUME v # <<>>, Entries(m)[1] \in Names
      PROVE  /\ w \in Seq(Header) /\ Len(w) <= 2
             /\ <<Merge(v[1], Entries(m)[1])>> \in Seq(Header)
             /\ Len(<<Merge(v[1], Entries(m)[1])>>) = 1
  <2>1. Merge(v[1], Entries(m)[1]) \in Header BY <1>1, <1>4, Lengths, HeadersTyped
  <2>2. w \in Seq(Header) /\ Len(w) = Len(v) BY <1>1, <1>4, FirstMerged
  <2>. QED BY <1>1, <2>1, <2>2
<1>5. /\ Active(m) \in Seq(Header) /\ Len(Active(m)) <= 2
      /\ Added(m) \in Seq(Header) /\ Len(Added(m)) <= 1
      /\ Added(m) = <<>> \/ Len(Active(m)) = 0 \/ Len(Active(m)) = 1
  <2>1. CASE Entries(m) = <<>> /\ Added(m) = <<>> /\ Active(m) = Keep(v, Staying(v))
    <3>1. Staying(v) \in SUBSET DOMAIN v BY DEF Staying
    <3>2. /\ Keep(v, Staying(v)) \in Seq(Header)
          /\ \/ Keep(v, Staying(v)) = <<>> \/ Keep(v, Staying(v)) = v
             \/ \E i \in Staying(v) : Keep(v, Staying(v)) = <<v[i]>>
      BY <1>1, <3>1, Keeps
    <3>3. \A h : Len(<<h>>) = 1 OBVIOUS
    <3>4. Active(m) \in Seq(Header) /\ Len(Active(m)) <= 2
      <4>1. CASE Active(m) = <<>> BY <1>3, <4>1
      <4>2. CASE Active(m) = v BY <1>1, <4>2
      <4>3. CASE \E i \in Staying(v) : Active(m) = <<v[i]>> BY <2>1, <3>2, <3>3, <4>3
      <4> HIDE DEF v
      <4>. QED BY <2>1, <3>2, <4>1, <4>2, <4>3
    <3>. QED BY <1>3, <2>1, <3>4
  <2>2. CASE v = <<>> /\ Active(m) = <<>>
    <3>1. Added(m) = <<>> \/ (file[m] \in Names /\ Added(m) = <<NewHeader(file[m])>>)
      BY <2>2, CheckedWays
    <3>. QED BY <1>2, <1>3, <2>2, <3>1
  <2>3. CASE v # <<>> /\ Entries(m) # <<>>
    <3>1. /\ Entries(m)[1] \in Names
          /\ Active(m) = w \/ Active(m) = <<Merge(v[1], Entries(m)[1])>>
          /\ \/ Added(m) = <<>>
             \/ /\ file[m] \in Names /\ Added(m) = <<NewHeader(file[m])>>
                /\ Active(m) = <<Merge(v[1], Entries(m)[1])>>
      BY <2>3, CheckedWays
    <3>2. Active(m) \in Seq(Header) /\ Len(Active(m)) <= 2
      <4> HIDE DEF w
      <4>. QED BY <1>4, <2>3, <3>1
    <3>3. Added(m) \in Seq(Header) /\ Len(Added(m)) <= 1 BY <1>2, <1>3, <3>1
    <3>4. Added(m) # <<>> => Len(Active(m)) = 1 BY <1>4, <2>3, <3>1
    <3>. QED BY <3>2, <3>3, <3>4
  <2>. QED BY <2>1, <2>2, <2>3, CheckedWays
<1>6. /\ Checked(m) \in Seq(Header) /\ Len(Checked(m)) = Len(Active(m)) + Len(Added(m))
      /\ Len(Active(m)) \in Nat /\ Len(Added(m)) \in Nat
  BY <1>5, ConcatProperties, Lengths DEF Checked
<1>7. /\ Added(m) = <<>> => Checked(m) = Active(m)
      /\ Active(m) = <<>> => Checked(m) = Added(m)
  BY <1>5, ConcatEmptySeq DEF Checked
<1>8. Len(Checked(m)) <= 2 BY <1>5, <1>6, <1>7
<1>9. ASSUME Active(m) # <<>>, Added(m) # <<>> PROVE Len(Checked(m)) = 2
  <2>1. Len(Active(m)) # 0 /\ Len(Added(m)) # 0 BY <1>5, <1>9, Lengths
  <2>. QED BY <1>5, <1>6, <1>9, <2>1
<1>. QED BY <1>5, <1>6, <1>7, <1>8, <1>9

(* The last word on headers is what they say. *)
LEMMA LastWordIs ==
  ASSUME NEW u \in Seq(Header)
  PROVE  SaidIn(u, LastWord(u)) /\ LastWord(u) \in {"-", "delete", "undelete"}
<1>1. CASE u = <<>> BY <1>1 DEF SaidIn, LastWord
<1>2. CASE u # <<>>
  <2>1. Head(u) = u[1] BY <1>2, Lengths
  <2>. QED BY <1>2, <2>1 DEF SaidIn, LastWord
<1>. QED BY <1>1, <1>2

(* A check keeps account of the user's last word. *)
LEMMA CheckedSaid ==
  ASSUME MaildirTypeOK, PlaceInv, NEW m \in Msgs, SaidIn(view[m], said[m])
  PROVE  SaidIn(Checked(m), SaidAfter(m)) /\ SaidAfter(m) \in {"-", "delete", "undelete"}
<1> DEFINE v == view[m]
           e == Entries(m)
           a == Active(m)
           d == Added(m)
<1>1. v \in Seq(Header) /\ Len(v) <= 2 /\ said[m] \in {"-", "delete", "undelete"}
  BY DEF MaildirTypeOK
<1>2. /\ a \in Seq(Header) /\ d \in Seq(Header) /\ Checked(m) \in Seq(Header)
      /\ d = <<>> => Checked(m) = a
      /\ a = <<>> => Checked(m) = d
      /\ a # <<>> /\ d # <<>> => Len(Checked(m)) = 2
  BY CheckedTyped
<1>3. SaidAfter(m) \in {"-", "delete", "undelete"} BY <1>1 DEF SaidAfter, LastWord
<1>5. ASSUME a # <<>>, d # <<>> PROVE SaidIn(Checked(m), SaidAfter(m))
  <2>1. Len(Checked(m)) = 2 BY <1>2, <1>5
  <2>3. Checked(m) # <<>> BY <1>2, <2>1, Lengths
  <2>. QED BY <2>1, <2>3 DEF SaidIn
<1>6. ASSUME d = <<>>, Len(a) # Len(v) PROVE SaidIn(Checked(m), SaidAfter(m))
  <2>1. SaidAfter(m) = LastWord(a) BY <1>6 DEF SaidAfter
  <2> HIDE DEF a, d
  <2>. QED BY <1>2, <1>6, <2>1, LastWordIs
<1>10. \/ e = <<>> /\ d = <<>> /\ a = Keep(v, Staying(v))
       \/ /\ v = <<>> /\ a = <<>>
          /\ d = <<>> \/ (file[m] \in Names /\ d = <<NewHeader(file[m])>>)
       \/ /\ e # <<>> /\ v # <<>> /\ e[1] \in Names /\ a # <<>>
          /\ Len(a) = 1 \/ a = MergedFirst(v, e[1])
          /\ a = MergedFirst(v, e[1]) \/ a = <<Merge(v[1], e[1])>>
  BY CheckedWays
<1>11. e \in Seq(Names) /\ SaidIn(v, said[m]) BY EntriesTyped
<1>12. SaidAfter(m) = IF Len(a) # Len(v) THEN LastWord(a)
                      ELSE IF /\ v # <<>> /\ e # <<>>
                              /\ ~("trash" \in Head(v).bits <=> "T" \in Head(e).flags)
                      THEN "-" ELSE said[m]
  BY DEF SaidAfter
<1> HIDE DEF v, e, a, d
<1>7. CASE e = <<>> /\ d = <<>> /\ a = Keep(v, Staying(v))
  <2>1. Staying(v) \in SUBSET DOMAIN v BY DEF Staying
  <2>2. \/ a = <<>> \/ a = v
        \/ Staying(v) # {} /\ Staying(v) # DOMAIN v /\ \E i \in Staying(v) : a = <<v[i]>>
    BY <1>1, <1>7, <2>1, Keeps
  <2>3. ASSUME a = v PROVE SaidIn(Checked(m), SaidAfter(m))
    BY <1>2, <1>7, <1>11, <1>12, <2>3
  <2>4. ASSUME a = <<>>, a # v PROVE Len(a) # Len(v) BY <1>1, <2>4
  <2>5. ASSUME Staying(v) # {}, Staying(v) # DOMAIN v, NEW i \in Staying(v), a = <<v[i]>>
        PROVE  Len(a) # Len(v)
    <3>1. ASSUME Len(v) = 1 PROVE FALSE
      <4>1. DOMAIN v = {1} BY <1>1, <3>1
      <4>. QED BY <2>1, <2>5, <4>1
    <3>2. Len(a) = 1 BY <2>5
    <3>. QED BY <3>1, <3>2
  <2>6. Len(a) = Len(v) => a = v BY <2>2, <2>4, <2>5
  <2>. QED BY <1>3, <1>6, <1>7, <2>3, <2>6
<1>8. CASE v = <<>> /\ a = <<>> /\ (d = <<>> \/ (file[m] \in Names /\ d = <<NewHeader(file[m])>>))
  <2>1. said[m] = "-" /\ SaidAfter(m) = "-" BY <1>8, <1>11, <1>12 DEF SaidIn
  <2>2. CASE d = <<>> BY <1>2, <1>8, <2>1, <2>2 DEF SaidIn
  <2>3. CASE file[m] \in Names /\ d = <<NewHeader(file[m])>>
    <3>1. /\ Checked(m)[1] = NewHeader(file[m]) /\ Checked(m) # <<>>
      <4>1. Checked(m) = <<NewHeader(file[m])>> BY <1>2, <1>8, <2>3
      <4>. QED BY <4>1
    <3>2. "deleted" \in NewHeader(file[m]).bits <=> "trash" \in NewHeader(file[m]).bits
      BY <2>3, NewHeaders
    <3>. QED BY <2>1, <3>1, <3>2 DEF SaidIn
  <2>. QED BY <1>8, <2>2, <2>3
<1>9. CASE /\ e # <<>> /\ v # <<>> /\ e[1] \in Names /\ a # <<>>
           /\ Len(a) = 1 \/ a = MergedFirst(v, e[1])
           /\ a = MergedFirst(v, e[1]) \/ a = <<Merge(v[1], e[1])>>
  <2> DEFINE g == Merge(v[1], e[1])
  <2>1. /\ v[1] \in Header /\ Head(v) = v[1] /\ Head(e) = e[1]
        /\ MergedFirst(v, e[1])[1] = g /\ Len(MergedFirst(v, e[1])) = Len(v)
        /\ a[1] = g
    <3>1. /\ v[1] \in Header /\ Head(v) = v[1] /\ Head(e) = e[1] BY <1>1, <1>9, <1>11, Lengths
    <3>2. /\ MergedFirst(v, e[1])[1] = g /\ Len(MergedFirst(v, e[1])) = Len(v)
      BY <1>1, <1>9, FirstMerged
    <3>3. <<g>>[1] = g OBVIOUS
    <3> HIDE DEF g
    <3>4. a[1] = g BY <1>9, <3>2, <3>3 DEF g
    <3>. QED BY <3>1, <3>2, <3>4
  <2>2. ASSUME d = <<>>, Len(a) = Len(v) PROVE SaidIn(Checked(m), SaidAfter(m))
    <3>1. Checked(m) = a BY <1>2, <2>2
    <3>2. CASE ~("trash" \in v[1].bits <=> "T" \in e[1].flags)
      <4>1. SaidAfter(m) = "-" BY <1>9, <1>12, <2>1, <2>2, <3>2
      <4>2. "deleted" \in g.bits <=> "trash" \in g.bits BY <1>9, <2>1, <3>2, Merged
      <4> HIDE DEF g
      <4>. QED BY <1>9, <2>1, <3>1, <4>1, <4>2 DEF SaidIn
    <3>3. CASE "trash" \in v[1].bits <=> "T" \in e[1].flags
      <4>1. SaidAfter(m) = said[m] BY <1>9, <1>12, <2>1, <2>2, <3>3
      <4>2. /\ "deleted" \in g.bits <=> "deleted" \in v[1].bits
            /\ "trash" \in g.bits <=> "trash" \in v[1].bits
        BY <1>9, <2>1, <3>3, Merged
      <4> HIDE DEF g
      <4>. QED BY <1>9, <1>11, <2>1, <2>2, <3>1, <4>1, <4>2 DEF SaidIn
    <3>. QED BY <3>2, <3>3
  <2>3. CASE d # <<>> BY <1>3, <1>5, <1>9, <2>3
  <2>4. CASE d = <<>> /\ Len(a) # Len(v) BY <1>3, <1>6, <2>4
  <2>5. CASE d = <<>> /\ Len(a) = Len(v) BY <1>3, <2>2, <2>5
  <2>. QED BY <2>3, <2>4, <2>5
<1>. QED BY <1>3, <1>7, <1>8, <1>9, <1>10

(* After a check muttng knows all of a message that its scans have not       *)
(* missed, and what the user has changed is still changed.                   *)
LEMMA CheckedFresh ==
  ASSUME MaildirTypeOK, PlaceInv, pc = "checking", NEW m \in Msgs, FreshIn(m)
  PROVE  /\ file[m] = None => Checked(m) = <<>>
         /\ file[m] # None =>
              /\ KnownIn(file[m], Checked(m), Dirs)
              /\ Len(Checked(m)) = 1
              /\ Len(view[m]) = 1 /\ "changed" \in view[m][1].bits
                   => "changed" \in Checked(m)[1].bits
<1> DEFINE v == view[m]
           f == file[m]
           e == Entries(m)
<1>1. /\ v \in Seq(Header) /\ Len(v) <= 2 /\ f \in Names \cup {None} /\ mask \subseteq Dirs
      /\ \A i \in DOMAIN v : v[i] \in Header /\ v[i].path \in Names /\ v[i].path.dir \in Dirs
  <2>1. v \in Seq(Header) /\ Len(v) <= 2 /\ f \in Names \cup {None} /\ mask \subseteq Dirs
    BY DEF MaildirTypeOK
  <2>2. \A h \in Header : h.path \in Names /\ h.path.dir \in Dirs BY DEF Header, Names
  <2>. QED BY <2>1, <2>2, Lengths
<1>2. /\ KnownIn(f, v, Dirs \ mask)
      /\ scan[m] = IF "new" \in mask /\ f.dir = "new" THEN f ELSE None
  BY DEF FreshIn
<1>3. e = (IF scan[m] = None THEN <<>> ELSE <<scan[m]>>)
            \o (IF "cur" \in mask /\ f.dir = "cur" THEN <<f>> ELSE <<>>)
  BY DEF Entries
<1>4. Added(m) = IF {i \in DOMAIN e : e[i] = f /\ (i = 1 => v = <<>>)} = {} THEN <<>>
                 ELSE <<NewHeader(f)>>
  BY DEF Added
<1>5. Active(m) = IF v = <<>> \/ e = <<>> THEN Keep(v, Staying(v))
                  ELSE Keep(MergedFirst(v, e[1]), {1} \cup Staying(v))
  BY DEF Active, Staying, MergedFirst
<1>6. Staying(v) = {i \in DOMAIN v : v[i].path.dir \notin mask} BY DEF Staying, Stay
<1>7. f.dir \in mask => f \in Names /\ f # None /\ (f.dir = "new" \/ f.dir = "cur")
  BY <1>1, NamesHaveDirs DEF Dirs
<1>8. Checked(m) = Active(m) \o Added(m) BY DEF Checked
<1>20. \A a \in Header : <<a>> \in Seq(Header) /\ Len(<<a>>) = 1 /\ <<a>>[1] = a /\ DOMAIN <<a>> = {1}
  OBVIOUS
<1> HIDE DEF v, f, e
<1>9. CASE f.dir \in mask
  <2>1. e = <<f>>
    <3>1. CASE f.dir = "new"
      <4>1. e = <<f>> \o <<>> BY <1>2, <1>3, <1>7, <1>9, <3>1
      <4>2. <<f>> \in Seq(Names) BY <1>7, <1>9
      <4>. QED BY <4>1, <4>2, ConcatEmptySeq
    <3>2. CASE f.dir = "cur"
      <4>1. e = <<>> \o <<f>> BY <1>2, <1>3, <1>7, <1>9, <3>2
      <4>2. <<f>> \in Seq(Names) BY <1>7, <1>9
      <4>. QED BY <4>1, <4>2, ConcatEmptySeq
    <3>. QED BY <1>7, <1>9, <3>1, <3>2
  <2>2. e # <<>> /\ e[1] = f /\ DOMAIN e = {1} BY <2>1
  <2>3. Staying(v) = {} BY <1>1, <1>2, <1>6, <1>9 DEF KnownIn
  <2>4. CASE v = <<>>
    <3>1. Staying(v) \in SUBSET DOMAIN v BY <2>3
    <3>2. Active(m) = <<>> BY <1>1, <1>5, <2>3, <2>4, <3>1, Keeps
    <3>3. 1 \in {i \in DOMAIN e : e[i] = f /\ (i = 1 => v = <<>>)} BY <2>2, <2>4
    <3>4. Added(m) = <<NewHeader(f)>> BY <1>4, <3>3
    <3>5. Checked(m) = <<NewHeader(f)>> BY <3>2, <3>4, CheckedTyped
    <3> DEFINE h == NewHeader(f)
    <3>6. /\ h \in Header /\ h.path = f /\ h.bits = ParseFlags(f)
          /\ "trash" \in h.bits <=> "T" \in f.flags
      BY <1>7, <1>9, HeadersTyped, NewHeaders
    <3> HIDE DEF h
    <3>7. KnownIn(f, <<h>>, Dirs) BY <1>20, <3>6 DEF KnownIn
    <3>8. Len(v) # 1 BY <2>4
    <3>. QED BY <1>7, <1>9, <1>20, <3>5, <3>6, <3>7, <3>8 DEF h, v, f
  <2>5. CASE v # <<>>
    <3> DEFINE w == MergedFirst(v, f)
               g == Merge(v[1], f)
    <3>1. /\ w \in Seq(Header) /\ Len(w) = Len(v) /\ w[1] = g /\ Len(w) <= 2
      BY <1>1, <1>7, <1>9, <2>5, FirstMerged
    <3>2. Active(m) = Keep(w, {1}) BY <1>5, <2>2, <2>3, <2>5
    <3>3. 1 \in DOMAIN w BY <1>1, <2>5, <3>1, Lengths
    <3> HIDE DEF w, g
    <3>4. ASSUME DOMAIN w = {1} PROVE Active(m) = <<g>>
      <4>1. Active(m) = w BY <3>1, <3>2, <3>4, Keeps
      <4>2. DOMAIN w = 1..Len(w) /\ Len(w) \in Nat /\ Len(w) <= 2 BY <3>1, Lengths
      <4>3. 2 \notin 1..Len(w) BY <3>4, <4>2
      <4>4. 1 \in 1..Len(w) BY <3>3, <4>2
      <4>5. Len(w) = 1 BY <4>2, <4>3, <4>4
      <4>. QED BY <3>1, <4>1, <4>5, Forms
    <3>5. ASSUME DOMAIN w # {1} PROVE Active(m) = <<g>>
      <4>1. \E i \in {1} : Keep(w, {1}) = <<w[i]>> BY <3>1, <3>3, <3>5, Keeps
      <4>. QED BY <3>1, <3>2, <4>1
    <3>6. Active(m) = <<g>> BY <3>4, <3>5
    <3>7. {i \in DOMAIN e : e[i] = f /\ (i = 1 => v = <<>>)} = {} BY <2>2, <2>5
    <3>8. Added(m) = <<>> BY <1>4, <3>7
    <3>9. Checked(m) = <<g>> BY <3>6, <3>8, CheckedTyped
    <3>10. /\ v[1] \in Header /\ g \in Header
           /\ g.path = f
           /\ "changed" \in g.bits <=> "changed" \in v[1].bits
           /\ "changed" \notin v[1].bits => Shown(g.bits) = Shown(ParseFlags(f))
           /\ "trash" \in g.bits <=> "T" \in f.flags
      BY <1>1, <1>7, <1>9, <2>5, Lengths, HeadersTyped, Merged DEF g
    <3>11. KnownIn(f, <<g>>, Dirs) BY <1>20, <3>10 DEF KnownIn
    <3>. QED BY <1>7, <1>9, <1>20, <3>9, <3>10, <3>11 DEF v, f
  <2>. QED BY <2>4, <2>5
<1>10. CASE f.dir \notin mask
  <2>1. e = <<>>
    <3>1. scan[m] = None /\ ~("cur" \in mask /\ f.dir = "cur") BY <1>2, <1>10
    <3>2. e = <<>> \o <<>> BY <1>3, <3>1
    <3>. QED BY <3>2
  <2>2. Added(m) = <<>> BY <1>4, <2>1
  <2>3. Active(m) = Keep(v, Staying(v)) BY <1>5, <2>1
  <2>4. Checked(m) = Keep(v, Staying(v)) BY <2>2, <2>3, CheckedTyped
  <2>5. Staying(v) \in SUBSET DOMAIN v BY <1>6
  <2>6. CASE f = None
    <3>1. ASSUME NEW i \in DOMAIN v PROVE v[i].path.dir \in mask
      <4>1. v[i].path.dir \notin Dirs \ mask \/ v[i].path = f BY <1>2 DEF KnownIn
      <4>2. None.dir \notin Dirs BY DEF None, Dirs
      <4>. QED BY <1>1, <2>6, <4>1, <4>2
    <3>2. Staying(v) = {} BY <1>6, <3>1
    <3>3. Checked(m) = <<>> BY <1>1, <2>4, <2>5, <3>2, Keeps
    <3>. QED BY <2>6, <3>3 DEF f
  <2>7. CASE f # None
    <3>1. f.dir \in Dirs \ mask BY <1>1, <1>10, <2>7, NamesHaveDirs
    <3>2. /\ Len(v) = 1 /\ v[1].path = f
          /\ "changed" \notin v[1].bits => Shown(v[1].bits) = Shown(ParseFlags(f))
          /\ "trash" \in v[1].bits <=> "T" \in f.flags
      BY <1>1, <1>2, <3>1 DEF KnownIn
    <3>3. DOMAIN v = {1} BY <1>1, <3>2
    <3>4. Staying(v) = DOMAIN v BY <1>6, <1>10, <3>2, <3>3
    <3>5. Checked(m) = v BY <1>1, <2>4, <2>5, <3>4, Keeps
    <3>6. KnownIn(f, v, Dirs) BY <3>2, <3>3 DEF KnownIn
    <3>. QED BY <2>7, <3>2, <3>5, <3>6 DEF f, v
  <2>. QED BY <2>6, <2>7
<1>. QED BY <1>9, <1>10

(* What a successful sync leaves of the headers v. *)
Remaining(v) == Keep(v, {i \in DOMAIN v : MaildirTrash \/ "deleted" \notin v[i].bits})
Cleaned(v) ==
  [i \in DOMAIN Remaining(v) |-> [Remaining(v)[i] EXCEPT !.bits = @ \ {"changed"}]]

LEMMA Cleaning ==
  ASSUME NEW v \in Seq(Header), Len(v) <= 2
  PROVE  /\ Cleaned(v) \in Seq(Header) /\ Len(Cleaned(v)) <= 2
         /\ (\A i \in DOMAIN v : Unlinks(v[i].bits)) => Cleaned(v) = <<>>
         /\ Len(v) = 1 /\ ~Unlinks(v[1].bits) =>
              /\ Len(Cleaned(v)) = 1 /\ Cleaned(v)[1].path = v[1].path
              /\ Cleaned(v)[1].bits = v[1].bits \ {"changed"}
<1> DEFINE I == {i \in DOMAIN v : MaildirTrash \/ "deleted" \notin v[i].bits}
           u == Remaining(v)
<1>1. u = Keep(v, I) /\ I \in SUBSET DOMAIN v BY DEF Remaining
<1>2. Cleaned(v) = [i \in DOMAIN u |-> [u[i] EXCEPT !.bits = @ \ {"changed"}]] BY DEF Cleaned
<1>3. \A i \in DOMAIN v : i \in I <=> ~Unlinks(v[i].bits)
  BY MaildirAssumption DEF Unlinks
<1> HIDE DEF I, u
<1>4. /\ u \in Seq(Header)
      /\ I = {} => u = <<>>
      /\ I = DOMAIN v => u = v
      /\ u = <<>> \/ u = v \/ \E i \in I : u = <<v[i]>>
  BY <1>1, Keeps
<1>5. Len(u) <= 2
  <2>1. ASSUME NEW h PROVE Len(<<h>>) <= 2 OBVIOUS
  <2>2. Len(<<>>) <= 2 OBVIOUS
  <2>3. CASE u = <<>> BY <2>2, <2>3
  <2>4. CASE \E i \in I : u = <<v[i]>> BY <2>1, <2>4
  <2>. QED BY <1>4, <2>3, <2>4
<1>6. ASSUME NEW i \in DOMAIN u
      PROVE  /\ Cleaned(v)[i] \in Header /\ Cleaned(v)[i].path = u[i].path
             /\ Cleaned(v)[i].bits = u[i].bits \ {"changed"}
  <2> DEFINE h == u[i]
             b == u[i].bits \ {"changed"}
  <2>1. h \in Header BY <1>4, Lengths
  <2>2. Cleaned(v)[i] = [h EXCEPT !.bits = b] BY <1>2
  <2>3. b \in SUBSET Bits BY <2>1, OtherBits
  <2> HIDE DEF h, b
  <2>4. Cleaned(v)[i] = [path |-> h.path, bits |-> b] /\ h.path \in Names
    BY <2>1, <2>2, <2>3 DEF Header
  <2>5. Cleaned(v)[i] \in Header /\ Cleaned(v)[i].path = h.path /\ Cleaned(v)[i].bits = b
    BY <2>3, <2>4 DEF Header
  <2>. QED BY <2>5 DEF h, b
<1>7. /\ Cleaned(v) \in Seq(Header) /\ Len(Cleaned(v)) = Len(u) /\ DOMAIN Cleaned(v) = DOMAIN u
  <2>1. \A i \in DOMAIN u : Cleaned(v)[i] \in Header BY <1>6
  <2>2. Cleaned(v) = [i \in DOMAIN u |-> Cleaned(v)[i]] BY <1>2
  <2>. QED BY <1>4, <2>1, <2>2, SameLength
<1>8. ASSUME \A i \in DOMAIN v : Unlinks(v[i].bits) PROVE Cleaned(v) = <<>>
  <2>1. I = {} BY <1>1, <1>3, <1>8
  <2>2. Len(u) = 0 BY <1>4, <2>1
  <2>. QED BY <1>7, <2>2, Lengths
<1>9. ASSUME Len(v) = 1, ~Unlinks(v[1].bits)
      PROVE  /\ Len(Cleaned(v)) = 1 /\ Cleaned(v)[1].path = v[1].path
             /\ Cleaned(v)[1].bits = v[1].bits \ {"changed"}
  <2>1. DOMAIN v = {1} BY <1>9
  <2>2. u = v BY <1>1, <1>3, <1>4, <1>9, <2>1
  <2>. QED BY <1>6, <1>7, <1>9, <2>1, <2>2
<1>. QED BY <1>5, <1>7, <1>8, <1>9

-----------------------------------------------------------------------------
(* Every step keeps the types and the places *)

(* The types of what has to do with muttng's headers. *)
LEMMA Typed ==
  ASSUME MaildirTypeOK
  PROVE  /\ view \in [Msgs -> Seq(Header)] /\ \A m \in Msgs : view[m] \in Seq(Header) /\ Len(view[m]) <= 2
         /\ file \in [Msgs -> Names \cup {None}] /\ \A m \in Msgs : file[m] \in Names \cup {None}
         /\ said \in [Msgs -> {"-", "delete", "undelete"}]
         /\ ctx.changed \in 0..1 /\ ctx.deleted \in Int
         /\ ctx = [changed |-> ctx.changed, deleted |-> ctx.deleted]
         /\ raced \subseteq Msgs /\ todo \subseteq Msgs \X (1..2) /\ mask \subseteq Dirs
         /\ scan \in [Msgs -> Names \cup {None}]
BY DEF MaildirTypeOK

(* What another program's step keeps. *)
LEMMA OthersShape ==
  ASSUME ShapeInv, NEW m \in Msgs, NEW nm \in Names \cup {None}, OtherChange(m, nm),
         born' \subseteq Msgs
  PROVE  ShapeInv'
<1>1. MaildirTypeOK /\ PlaceInv BY DEF ShapeInv
<1>2. file' \in [Msgs -> Names \cup {None}] BY <1>1 DEF OtherChange, MaildirTypeOK
<1>3. mtime' \in [Dirs -> 0..MaxClock] BY <1>1 DEF OtherChange, Touch, MaildirTypeOK
<1>4. events' \in 0..MaxEvents
  BY <1>1, MaildirAssumption DEF OtherChange, Event, MaildirTypeOK
<1>5. raced' \subseteq Msgs /\ (pc = "closed" => raced' = raced)
  BY <1>1 DEF OtherChange, MaildirTypeOK
<1>6. UNCHANGED <<clock, pc, why, view, ctx, seen, mask, scan, todo, purge, said>>
  BY DEF OtherChange
<1>7. MaildirTypeOK' BY <1>1, <1>2, <1>3, <1>4, <1>5, <1>6 DEF MaildirTypeOK
<1>8. PlaceInv' BY <1>1, <1>5, <1>6 DEF PlaceInv
<1>. QED BY <1>7, <1>8 DEF ShapeInv

(* _mh_read_dir() adds one header at most. *)
LEMMA ReadHeaders ==
  ASSUME MaildirTypeOK, NEW d \in Dirs, ReadDir(d)
  PROVE  /\ view' \in [Msgs -> Seq(Header)]
         /\ \A m \in Msgs :
              /\ view'[m] = IF file[m].dir = d THEN Append(view[m], NewHeader(file[m])) ELSE view[m]
              /\ Len(view'[m]) <= Len(view[m]) + 1
              /\ file[m].dir = d => file[m] \in Names /\ Len(view'[m]) = Len(view[m]) + 1
         /\ ctx' \in [changed : 0..1, deleted : Int]
<1>1. \A m \in Msgs : file[m].dir = d => file[m] \in Names BY NamesHaveDirs, Typed
<1>2. view' = [m \in Msgs |-> IF file[m].dir = d THEN Append(view[m], NewHeader(file[m]))
                              ELSE view[m]]
  BY DEF ReadDir
<1>3. ASSUME NEW m \in Msgs
      PROVE  /\ view'[m] \in Seq(Header) /\ Len(view'[m]) <= Len(view[m]) + 1
             /\ file[m].dir = d => Len(view'[m]) = Len(view[m]) + 1
  <2>1. view[m] \in Seq(Header) /\ Len(view[m]) \in Nat BY Typed, Lengths
  <2>2. CASE file[m].dir = d
    <3>1. NewHeader(file[m]) \in Header BY <1>1, <2>2, HeadersTyped
    <3>2. view'[m] = Append(view[m], NewHeader(file[m])) BY <1>2, <2>2
    <3>3. view'[m] \in Seq(Header) /\ Len(view'[m]) = Len(view[m]) + 1
      BY <2>1, <3>1, <3>2, AppendProperties
    <3>. QED BY <2>1, <3>3
  <2>3. CASE file[m].dir # d
    <3>1. view'[m] = view[m] BY <1>2, <2>3
    <3>. QED BY <2>1, <2>3, <3>1
  <2>. QED BY <2>2, <2>3
<1>4. view' \in [Msgs -> Seq(Header)] BY <1>2, <1>3
<1> DEFINE M == {m \in Msgs : file[m].dir = d /\ "T" \in file[m].flags}
<1>5. Cardinality(M) \in Nat BY Counting
<1>6. ctx' = [ctx EXCEPT !.deleted = ctx.deleted + Cardinality(M)] BY DEF ReadDir
<1> HIDE DEF M
<1>7. ctx' = [changed |-> ctx.changed, deleted |-> ctx.deleted + Cardinality(M)]
  BY <1>6 DEF MaildirTypeOK
<1>8. ctx' \in [changed : 0..1, deleted : Int] BY <1>5, <1>7, Typed
<1>. QED BY <1>1, <1>2, <1>3, <1>4, <1>8

LEMMA OpeningShape ==
  ASSUME ShapeInv, OpenNew \/ OpenCur PROVE ShapeInv'
<1>1. MaildirTypeOK /\ PlaceInv BY DEF ShapeInv
<1>2. PICK d \in Dirs : ReadDir(d) /\ (pc = "opening" => d = "cur") BY DEF OpenNew, OpenCur, Dirs
<1>3. UNCHANGED <<file, born, mtime, clock, events, why, mask, scan, todo, purge, said, raced>>
  BY DEF OpenNew, OpenCur, ReadDir, dirVars
<1>4. seen' \in [Dirs -> 0..MaxClock] BY <1>1, <1>2 DEF ReadDir, MaildirTypeOK
<1>5. /\ view' \in [Msgs -> Seq(Header)] /\ ctx' \in [changed : 0..1, deleted : Int]
      /\ \A m \in Msgs : Len(view'[m]) <= Len(view[m]) + 1
  BY <1>1, <1>2, ReadHeaders
<1>6. \A m \in Msgs : view[m] \in Seq(Header) /\ Len(view[m]) \in Nat /\ Len(view'[m]) \in Nat
  BY <1>1, <1>5, Typed, Lengths
<1>7. CASE OpenNew
  <2>1. \A m \in Msgs : view[m] = <<>> BY <1>1, <1>7 DEF OpenNew, PlaceInv
  <2>2. \A m \in Msgs : Len(view[m]) = 0 BY <1>6, <2>1, Lengths
  <2>3. \A m \in Msgs : Len(view'[m]) <= 1 BY <1>5, <1>6, <2>2
  <2>4. \A m \in Msgs : Len(view'[m]) <= 2 BY <1>6, <2>3
  <2>5. pc = "closed" /\ pc' = "opening" BY <1>7 DEF OpenNew
  <2>6. MaildirTypeOK' BY <1>1, <1>3, <1>4, <1>5, <2>4, <2>5 DEF MaildirTypeOK
  <2>7. PlaceInv' BY <1>1, <1>3, <2>3, <2>5 DEF PlaceInv
  <2>. QED BY <2>6, <2>7 DEF ShapeInv
<1>8. CASE OpenCur
  <2>1. pc = "opening" /\ pc' = "idle" BY <1>8 DEF OpenCur
  <2>2. \A m \in Msgs : Len(view[m]) <= 1 BY <1>1, <2>1 DEF PlaceInv
  <2>3. \A m \in Msgs : Len(view'[m]) <= 2 BY <1>5, <1>6, <2>2
  <2>4. MaildirTypeOK' BY <1>1, <1>3, <1>4, <1>5, <2>1, <2>3 DEF MaildirTypeOK
  <2>5. PlaceInv' BY <1>1, <1>3, <2>1 DEF PlaceInv
  <2>. QED BY <2>4, <2>5 DEF ShapeInv
<1>. QED BY <1>7, <1>8

(* The headers with other flags in one place. *)
LEMMA BitsSet ==
  ASSUME MaildirTypeOK, NEW m \in Msgs, NEW i \in DOMAIN view[m], NEW h \in Header
  PROVE  LET w == [view EXCEPT ![m][i] = h]
         IN  /\ w \in [Msgs -> Seq(Header)]
             /\ \A k \in Msgs : Len(w[k]) = Len(view[k]) /\ DOMAIN w[k] = DOMAIN view[k]
             /\ w[m][i] = h
             /\ \A k \in Msgs : \A j \in DOMAIN view[k] : <<k, j>> # <<m, i>> => w[k][j] = view[k][j]
<1> DEFINE u == [view[m] EXCEPT ![i] = h]
<1>1. view \in [Msgs -> Seq(Header)] /\ view[m] \in Seq(Header) BY Typed
<1>2. /\ u \in Seq(Header) /\ Len(u) = Len(view[m])
      /\ \A j \in 1..Len(view[m]) : u[j] = IF j = i THEN h ELSE view[m][j]
      /\ DOMAIN view[m] = 1..Len(view[m]) /\ DOMAIN u = 1..Len(u)
  BY <1>1, ExceptSeq, Lengths
<1>3. [view EXCEPT ![m][i] = h] = [view EXCEPT ![m] = u] BY <1>1
<1> HIDE DEF u
<1>. QED BY <1>1, <1>2, <1>3

(* Header i of m gets the flags b. *)
Flagged(m, i, b) ==
  view' = [view EXCEPT ![m][i] = [path |-> view[m][i].path, bits |-> b]]

LEMMA FlagsSet ==
  ASSUME MaildirTypeOK, NEW m \in Msgs, NEW i \in DOMAIN view[m], NEW b \in SUBSET Bits,
         view' = [view EXCEPT ![m][i].bits = b]
  PROVE  Flagged(m, i, b)
<1>1. view[m][i] \in Header BY Typed, Lengths
<1>2. [view[m][i] EXCEPT !.bits = b] = [path |-> view[m][i].path, bits |-> b]
  BY <1>1 DEF Header
<1>3. view' = [view EXCEPT ![m][i] = [view[m][i] EXCEPT !.bits = b]] OBVIOUS
<1>. QED BY <1>2, <1>3 DEF Flagged

(* What setting flags keeps of the types. *)
LEMMA FlaggedShape ==
  ASSUME MaildirTypeOK, NEW m \in Msgs, NEW i \in DOMAIN view[m], NEW b \in SUBSET Bits,
         Flagged(m, i, b)
  PROVE  /\ view' \in [Msgs -> Seq(Header)]
         /\ \A k \in Msgs : Len(view'[k]) = Len(view[k]) /\ DOMAIN view'[k] = DOMAIN view[k]
         /\ \A k \in Msgs : Len(view'[k]) <= 2
         /\ view'[m][i].path = view[m][i].path /\ view'[m][i].bits = b
         /\ \A k \in Msgs : \A j \in DOMAIN view[k] :
              <<k, j>> # <<m, i>> => view'[k][j] = view[k][j]
         /\ \A k \in Msgs : k # m => view'[k] = view[k]
<1> DEFINE h == [path |-> view[m][i].path, bits |-> b]
<1>1. h \in Header
  <2>1. view[m][i].path \in Names BY Typed, Lengths, OtherBits
  <2>. QED BY <2>1 DEF Header
<1>2. view' = [view EXCEPT ![m][i] = h] BY DEF Flagged
<1>3. h.path = view[m][i].path /\ h.bits = b OBVIOUS
<1> HIDE DEF h
<1>4. \A k \in Msgs : k # m => view'[k] = view[k] BY <1>2, Typed
<1>. QED BY <1>1, <1>2, <1>3, <1>4, BitsSet, Typed

(* flag, read and new change a header's status. *)
LEMMA StatusChanges ==
  ASSUME MaildirTypeOK, NEW m \in Msgs, NEW i \in 1..2, NEW cmd, ChangeStatus(cmd, m, i)
  PROVE  /\ i \in DOMAIN view[m] /\ pc = "idle" /\ events' \in 0..MaxEvents
         /\ ctx' = [changed |-> 1, deleted |-> ctx.deleted]
         /\ UNCHANGED <<file, born, mtime, clock, pc, why, seen, mask, scan, todo, purge,
                        raced, said>>
         /\ \E b \in SUBSET Bits :
              /\ Flagged(m, i, b) /\ "changed" \in b
              /\ "deleted" \in b <=> "deleted" \in view[m][i].bits
              /\ "trash" \in b <=> "trash" \in view[m][i].bits
<1> DEFINE b == view[m][i].bits
           new == CASE cmd = "flag" -> IF "flagged" \in b THEN b \ {"flagged"} ELSE b \cup {"flagged"}
                    [] cmd = "read" -> b \cup {"read"}
                    [] cmd = "new" -> b \ {"read", "old"}
<1>1. /\ i \in DOMAIN view[m] /\ pc = "idle" /\ cmd \in {"flag", "read", "new"}
      /\ Event /\ view' = [view EXCEPT ![m][i].bits = new \cup {"changed"}]
      /\ ctx' = [ctx EXCEPT !.changed = 1]
      /\ UNCHANGED <<file, born, mtime, clock, pc, why, seen, mask, scan, todo, purge, raced, said>>
  BY DEF ChangeStatus, SetBits
<1>2. b \in SUBSET Bits BY <1>1, Typed, Lengths, OtherBits
<1>3. /\ new \in SUBSET Bits /\ new \cup {"changed"} \in SUBSET Bits
      /\ "deleted" \in new <=> "deleted" \in b
      /\ "trash" \in new <=> "trash" \in b
  <2> HIDE DEF b
  <2>1. CASE cmd = "flag" BY <1>2, <2>1 DEF Bits, Status
  <2>2. CASE cmd = "read" BY <1>2, <2>2 DEF Bits, Status
  <2>3. CASE cmd = "new" BY <1>2, <2>3 DEF Bits, Status
  <2>. QED BY <1>1, <2>1, <2>2, <2>3
<1> HIDE DEF new
<1>4. Flagged(m, i, new \cup {"changed"}) BY <1>1, <1>3, FlagsSet
<1>5. events' \in 0..MaxEvents BY <1>1, MaildirAssumption DEF Event, MaildirTypeOK
<1>6. ctx' = [changed |-> 1, deleted |-> ctx.deleted] BY <1>1 DEF MaildirTypeOK
<1>. QED BY <1>1, <1>3, <1>4, <1>5, <1>6

(* delete and undelete change nothing but a header's deletion. *)
LEMMA DeletionChanges ==
  ASSUME MaildirTypeOK, NEW m \in Msgs, NEW i \in 1..2, NEW cmd, DeleteOrUndelete(cmd, m, i)
  PROVE  /\ i \in DOMAIN view[m] /\ pc = "idle" /\ events' \in 0..MaxEvents
         /\ cmd \in {"delete", "undelete"} /\ said' = [said EXCEPT ![m] = cmd]
         /\ ctx' \in [changed : 0..1, deleted : Int]
         /\ UNCHANGED <<file, born, mtime, clock, pc, why, seen, mask, scan, todo, purge, raced>>
         /\ \E b \in SUBSET Bits :
              /\ Flagged(m, i, b)
              /\ "changed" \in b <=> "changed" \in view[m][i].bits
              /\ "deleted" \in b <=> cmd = "delete"
              /\ "trash" \in b <=> "trash" \in view[m][i].bits
              /\ Shown(b) = Shown(view[m][i].bits)
<1> DEFINE b == view[m][i].bits
           new == IF cmd = "delete" THEN b \cup {"deleted"} ELSE b \ {"deleted"}
<1>1. /\ i \in DOMAIN view[m] /\ pc = "idle" /\ cmd \in {"delete", "undelete"}
      /\ Event /\ view' = [view EXCEPT ![m][i].bits = new]
      /\ ctx' = [ctx EXCEPT !.deleted = IF cmd = "delete" THEN ctx.deleted + 1 ELSE ctx.deleted - 1]
      /\ said' = [said EXCEPT ![m] = cmd]
      /\ UNCHANGED <<file, born, mtime, clock, pc, why, seen, mask, scan, todo, purge, raced>>
  BY DEF DeleteOrUndelete, SetBits
<1>2. b \in SUBSET Bits BY <1>1, Typed, Lengths, OtherBits
<1>3. /\ new \in SUBSET Bits
      /\ "changed" \in new <=> "changed" \in b
      /\ "deleted" \in new <=> cmd = "delete"
      /\ "trash" \in new <=> "trash" \in b
      /\ Shown(new) = Shown(b)
  <2> HIDE DEF b
  <2>1. new \in SUBSET Bits BY <1>2 DEF Bits
  <2>2. Shown(new) = Shown(b) BY DEF Shown
  <2>. QED BY <2>1, <2>2
<1> HIDE DEF new
<1>4. Flagged(m, i, new) BY <1>1, <1>3, FlagsSet
<1>5. events' \in 0..MaxEvents BY <1>1, MaildirAssumption DEF Event, MaildirTypeOK
<1>6. ctx' \in [changed : 0..1, deleted : Int]
  <2>1. ctx.changed \in 0..1 /\ ctx.deleted \in Int BY Typed
  <2> DEFINE d == IF cmd = "delete" THEN ctx.deleted + 1 ELSE ctx.deleted - 1
  <2>2. d \in Int BY <2>1
  <2>3. ctx' = [ctx EXCEPT !.deleted = d] BY <1>1
  <2> HIDE DEF d
  <2>4. ctx' = [changed |-> ctx.changed, deleted |-> d] BY <2>3 DEF MaildirTypeOK
  <2>. QED BY <2>1, <2>2, <2>4
<1>. QED BY <1>1, <1>3, <1>4, <1>5, <1>6

LEMMA CommandShape ==
  ASSUME ShapeInv, NEW m \in Msgs, NEW i \in 1..2, NEW cmd,
         ChangeStatus(cmd, m, i) \/ DeleteOrUndelete(cmd, m, i)
  PROVE  ShapeInv'
<1>1. MaildirTypeOK /\ PlaceInv BY DEF ShapeInv
<1>2. /\ i \in DOMAIN view[m] /\ pc = "idle" /\ events' \in 0..MaxEvents
      /\ UNCHANGED <<file, born, mtime, clock, pc, why, seen, mask, scan, todo, purge, raced>>
      /\ \E b \in SUBSET Bits : Flagged(m, i, b)
      /\ ctx' \in [changed : 0..1, deleted : Int]
      /\ said' \in [Msgs -> {"-", "delete", "undelete"}]
  <2>1. ctx.deleted \in Int /\ said \in [Msgs -> {"-", "delete", "undelete"}] BY <1>1, Typed
  <2>2. [changed |-> 1, deleted |-> ctx.deleted] \in [changed : 0..1, deleted : Int] BY <2>1
  <2>3. CASE ChangeStatus(cmd, m, i) BY <1>1, <2>1, <2>2, <2>3, StatusChanges
  <2>4. CASE DeleteOrUndelete(cmd, m, i) BY <1>1, <2>1, <2>4, DeletionChanges
  <2>. QED BY <2>3, <2>4
<1>3. /\ view' \in [Msgs -> Seq(Header)] /\ \A k \in Msgs : Len(view'[k]) <= 2
  BY <1>1, <1>2, FlaggedShape
<1>4. MaildirTypeOK' BY <1>1, <1>2, <1>3 DEF MaildirTypeOK
<1>5. PlaceInv' BY <1>1, <1>2 DEF PlaceInv
<1>. QED BY <1>4, <1>5 DEF ShapeInv

LEMMA AllHeadersTyped ==
  ASSUME NEW v
  PROVE  /\ AllHeaders(v) \subseteq Msgs \X (1..2)
         /\ \A m \in Msgs, i \in 1..2 : <<m, i>> \in AllHeaders(v) <=> i \in DOMAIN v[m]
BY DEF AllHeaders

(* What the first half of a check notes. *)
LEMMA CheckNotes ==
  ASSUME MaildirTypeOK, CheckNew
  PROVE  /\ pc' = "checking" /\ seen' = mtime /\ mask' = Newer /\ mask' \subseteq Dirs
         /\ todo' = todo /\ raced' \subseteq raced
         /\ scan' \in [Msgs -> Names \cup {None}]
         /\ \A m \in Msgs :
              /\ scan'[m] = IF "new" \in mask' /\ file[m].dir = "new" THEN file[m] ELSE None
              /\ scan'[m] # None => scan'[m].dir = "new" /\ "new" \in mask'
<1>1. scan' = [m \in Msgs |-> IF "new" \in Newer /\ file[m].dir = "new" THEN file[m] ELSE None]
  BY DEF CheckNew
<1>2. pc' = "checking" /\ seen' = mtime /\ mask' = Newer /\ todo' = todo /\ raced' \subseteq raced
  BY DEF CheckNew
<1>3. mask' \subseteq Dirs BY <1>2 DEF Newer
<1>4. \A m \in Msgs : file[m] \in Names \cup {None} BY Typed
<1>. QED BY <1>1, <1>2, <1>3, <1>4

LEMMA CheckShape ==
  ASSUME ShapeInv, Check PROVE ShapeInv'
<1>1. MaildirTypeOK /\ PlaceInv BY DEF ShapeInv
<1>2. CheckNew /\ pc = "idle" /\ UNCHANGED <<dirVars, why, view, ctx, said, purge>> BY DEF Check
<1>3. MaildirTypeOK' BY <1>1, <1>2, CheckNotes DEF MaildirTypeOK, dirVars
<1>4. PlaceInv' BY <1>1, <1>2, CheckNotes DEF PlaceInv
<1>. QED BY <1>3, <1>4 DEF ShapeInv

(* The second half. *)
LEMMA CheckEnds ==
  ASSUME MaildirTypeOK, PlaceInv, CheckCur
  PROVE  /\ pc = "checking" /\ \A m \in Msgs : view'[m] = Checked(m) /\ said'[m] = SaidAfter(m)
         /\ view' = [m \in Msgs |-> Checked(m)] /\ said' = [m \in Msgs |-> SaidAfter(m)]
         /\ ctx' \in [changed : 0..1, deleted : Int]
         /\ scan' = Nothing /\ mask' = {} /\ UNCHANGED <<dirVars, seen, raced>>
         /\ \/ pc' = "idle" /\ why' = "check" /\ purge' = "yes" /\ todo' = todo
            \/ pc' = "syncing" /\ todo' = AllHeaders(view') /\ UNCHANGED <<why, purge>>
<1> DEFINE kept == [m \in Msgs |-> Active(m)]
           added == [m \in Msgs |-> Added(m)]
           v == [m \in Msgs |-> kept[m] \o added[m]]
           occult == \E m \in Msgs : Len(kept[m]) < Len(view[m])
           haveNew == \E m \in Msgs : added[m] # <<>>
<1>1. /\ pc = "checking" /\ view' = v /\ UNCHANGED <<dirVars, seen, raced>>
      /\ ctx' = [changed |-> IF occult THEN HowMany(kept, "changed") % 2 ELSE ctx.changed,
                 deleted |-> HowMany(added, "deleted")
                               + (IF occult THEN HowMany(kept, "deleted") ELSE ctx.deleted)]
      /\ IF why = "check" \/ occult \/ haveNew
         THEN Idle /\ UNCHANGED todo
         ELSE BeginSync(v) /\ UNCHANGED <<why, purge>>
  BY DEF CheckCur
<1>2. v = [m \in Msgs |-> Checked(m)] BY DEF Checked
<1>3. said' = [m \in Msgs |->
                 IF Len(kept[m]) # Len(view[m]) THEN LastWord(kept[m])
                 ELSE IF /\ view[m] # <<>> /\ Entries(m) # <<>>
                         /\ ~("trash" \in Head(view[m]).bits <=> "T" \in Head(Entries(m)).flags)
                 THEN "-" ELSE said[m]]
  BY DEF CheckCur
<1>4. said' = [m \in Msgs |-> SaidAfter(m)] BY <1>3 DEF SaidAfter
<1>5. ctx' \in [changed : 0..1, deleted : Int]
  <2>1. /\ HowMany(kept, "changed") \in Nat /\ HowMany(kept, "deleted") \in Nat
        /\ HowMany(added, "deleted") \in Nat
    BY Counting
  <2>2. ctx.changed \in 0..1 /\ ctx.deleted \in Int BY Typed
  <2> HIDE DEF kept, added, occult
  <2>3. HowMany(kept, "changed") % 2 \in 0..1 BY <2>1
  <2>. QED BY <1>1, <2>1, <2>2, <2>3
<1> HIDE DEF v, occult, haveNew
<1>. QED BY <1>1, <1>2, <1>4, <1>5 DEF Idle, BeginSync

LEMMA CheckedShape ==
  ASSUME ShapeInv, SaidInv, CheckCur PROVE ShapeInv' /\ SaidInv'
<1>1. MaildirTypeOK /\ PlaceInv BY DEF ShapeInv
<1>2. \A m \in Msgs : Checked(m) \in Seq(Header) /\ Len(Checked(m)) <= 2
  BY <1>1, CheckedTyped
<1>3. \A m \in Msgs : SaidIn(Checked(m), SaidAfter(m)) /\ SaidAfter(m) \in {"-", "delete", "undelete"}
  BY <1>1, CheckedSaid DEF SaidInv
<1>4. view' \in [Msgs -> Seq(Header)] /\ \A m \in Msgs : Len(view'[m]) <= 2
  BY <1>1, <1>2, CheckEnds
<1>5. said' \in [Msgs -> {"-", "delete", "undelete"}] BY <1>1, <1>3, CheckEnds
<1>6. SaidInv' BY <1>1, <1>3, CheckEnds DEF SaidInv
<1>7. scan' \in [Msgs -> Names \cup {None}] BY <1>1, CheckEnds DEF Nothing
<1>8. /\ pc = "checking" /\ UNCHANGED <<dirVars, seen, raced>> /\ mask' = {}
      /\ ctx' \in [changed : 0..1, deleted : Int]
      /\ \A m \in Msgs : scan'[m] = None
  BY <1>1, CheckEnds DEF Nothing
<1>9. /\ pc' \in {"idle", "syncing"} /\ why' \in {"check", "sync", "close"} /\ purge' \in {"yes", "no"}
      /\ todo' \subseteq Msgs \X (1..2)
      /\ \A m \in Msgs, i \in 1..2 : <<m, i>> \in todo' => i \in DOMAIN view'[m]
      /\ pc' # "syncing" => todo' = {}
  <2>1. CASE pc' = "idle" /\ why' = "check" /\ purge' = "yes" /\ todo' = todo
    BY <1>1, <1>8, <2>1 DEF PlaceInv
  <2>2. CASE pc' = "syncing" /\ todo' = AllHeaders(view') /\ UNCHANGED <<why, purge>>
    BY <1>1, <2>2, AllHeadersTyped DEF MaildirTypeOK
  <2>. QED BY <1>1, <2>1, <2>2, CheckEnds
<1>10. MaildirTypeOK' BY <1>1, <1>4, <1>5, <1>7, <1>8, <1>9 DEF MaildirTypeOK, dirVars
<1>11. PlaceInv' BY <1>8, <1>9 DEF PlaceInv
<1>. QED BY <1>6, <1>10, <1>11 DEF ShapeInv

(* A sync begins, or first checks the folder. *)
LEMMA SyncBegins ==
  ASSUME ShapeInv, SaidInv, NEW ans \in {"yes", "no"}, NEW wh \in {"sync", "close"},
         StartSync(ans, wh)
  PROVE  /\ ShapeInv' /\ SaidInv'
         /\ \A m \in Msgs : Kin(view[m], view'[m])
<1>1. MaildirTypeOK /\ PlaceInv BY DEF ShapeInv
<1> DEFINE w == Answered(IF wh = "close" THEN MarkedOld(view) ELSE view, ans)
<1>2. /\ pc = "idle" /\ why' = wh /\ purge' = ans /\ view' = w /\ UNCHANGED dirVars
      /\ said' = [m \in Msgs |-> IF Answered(view, ans)[m] # view[m] THEN "undelete" ELSE said[m]]
      /\ CheckNothing \/ CheckNew
  BY DEF StartSync
<1>3. ctx' \in [changed : 0..1, deleted : Int]
  <2>1. ctx.changed \in 0..1 /\ ctx.deleted \in Int BY <1>1, Typed
  <2>2. \E c \in {1, ctx.changed} :
          ctx' = [changed |-> c, deleted |-> IF ans = "no" THEN 0 ELSE ctx.deleted]
    BY DEF StartSync
  <2>. QED BY <2>1, <2>2
<1>4. \A m \in Msgs :
        /\ w \in [Msgs -> Seq(Header)] /\ Kin(view[m], w[m])
        /\ \A i \in DOMAIN view[m] :
             "deleted" \in w[m][i].bits <=> ans = "yes" /\ "deleted" \in view[m][i].bits
  BY <1>1, Prepared
<1>5. w \in [Msgs -> Seq(Header)]
  <2>1. view \in [Msgs -> Seq(Header)] BY <1>1, Typed
  <2>2. CASE Msgs = {}
    <3>1. DOMAIN w = Msgs BY <2>1 DEF Answered, MarkedOld
    <3>2. w = [m \in Msgs |-> w[m]] BY <2>1 DEF Answered, MarkedOld
    <3> HIDE DEF w
    <3>. QED BY <2>2, <3>1, <3>2
  <2>3. CASE Msgs # {} BY <1>4, <2>3
  <2>. QED BY <2>2, <2>3
<1> HIDE DEF w
<1>6. /\ view' \in [Msgs -> Seq(Header)] /\ \A m \in Msgs : Len(view'[m]) <= 2
      /\ \A m \in Msgs : Kin(view[m], view'[m])
  BY <1>1, <1>2, <1>4, <1>5, Typed DEF Kin
<1>7. said' \in [Msgs -> {"-", "delete", "undelete"}] BY <1>1, <1>2, Typed
<1>8. ASSUME NEW m \in Msgs PROVE SaidIn(view'[m], said'[m])
  <2>1. /\ view[m] \in Seq(Header) /\ SaidIn(view[m], said[m]) BY <1>1, Typed DEF SaidInv
  <2>2. /\ Len(view'[m]) = Len(view[m]) /\ view'[m] \in Seq(Header)
        /\ \A i \in DOMAIN view[m] :
             /\ "trash" \in view'[m][i].bits <=> "trash" \in view[m][i].bits
             /\ "deleted" \in view'[m][i].bits <=> ans = "yes" /\ "deleted" \in view[m][i].bits
    BY <1>2, <1>4 DEF Kin
  <2>3. view'[m] = <<>> <=> view[m] = <<>> BY <2>1, <2>2, Lengths
  <2>4. Len(view[m]) = 1 => 1 \in DOMAIN view[m] BY <2>1
  <2>5. \A i \in DOMAIN view[m] :
          "deleted" \in Answered(view, ans)[m][i].bits <=> ans = "yes" /\ "deleted" \in view[m][i].bits
    BY <1>1, Undeleted, Typed
  <2>6. CASE Answered(view, ans)[m] = view[m]
    <3>1. said'[m] = said[m] BY <1>2, <2>6
    <3>2. \A i \in DOMAIN view[m] : "deleted" \in view'[m][i].bits <=> "deleted" \in view[m][i].bits
      BY <2>2, <2>5, <2>6
    <3>. QED BY <2>1, <2>2, <2>3, <2>4, <3>1, <3>2 DEF SaidIn
  <2>7. CASE Answered(view, ans)[m] # view[m]
    <3>1. said'[m] = "undelete" BY <1>2, <2>7
    <3>2. ans = "no"
      <4>1. ans = "yes" => Answered(view, ans) = view BY DEF Answered
      <4>. QED BY <2>7, <4>1
    <3>3. view[m] # <<>>
      <4>0. view \in [Msgs -> Seq(Header)] BY <1>1, Typed
      <4>1. Kin(view[m], Answered(view, ans)[m]) BY <4>0, Undeleted
      <4>2. /\ Answered(view, ans)[m] \in Seq(Header)
            /\ Len(Answered(view, ans)[m]) = Len(view[m])
        BY <4>1 DEF Kin
      <4>. QED BY <2>1, <2>7, <4>2, Lengths
    <3>. QED BY <2>2, <2>3, <2>4, <3>1, <3>2, <3>3 DEF SaidIn
  <2>. QED BY <2>6, <2>7
<1>9. SaidInv' BY <1>8 DEF SaidInv
<1>10. CASE CheckNothing
  <2>1. /\ pc' = "syncing" /\ todo' = AllHeaders(view') /\ mask' = {} /\ scan' = Nothing
        /\ UNCHANGED <<seen, raced>>
    BY <1>10 DEF CheckNothing, BeginSync
  <2>2. /\ scan' \in [Msgs -> Names \cup {None}] /\ \A m \in Msgs : scan'[m] = None
        /\ todo' \subseteq Msgs \X (1..2)
        /\ \A m \in Msgs, i \in 1..2 : <<m, i>> \in todo' => i \in DOMAIN view'[m]
    BY <2>1, AllHeadersTyped DEF Nothing
  <2>3. MaildirTypeOK' BY <1>1, <1>2, <1>3, <1>6, <1>7, <2>1, <2>2 DEF MaildirTypeOK, dirVars
  <2>4. PlaceInv' BY <2>1, <2>2 DEF PlaceInv
  <2>. QED BY <1>6, <1>9, <2>3, <2>4 DEF ShapeInv
<1>11. CASE CheckNew
  <2>1. MaildirTypeOK' BY <1>1, <1>2, <1>3, <1>6, <1>7, <1>11, CheckNotes DEF MaildirTypeOK, dirVars
  <2>2. todo' = {} BY <1>1, <1>2, <1>11, CheckNotes DEF PlaceInv
  <2>3. PlaceInv' BY <1>1, <1>11, <2>2, CheckNotes DEF PlaceInv
  <2>. QED BY <1>6, <1>9, <2>1, <2>3 DEF ShapeInv
<1>. QED BY <1>2, <1>10, <1>11

(* The steps of a sync for one header. *)
MessageStep(m, i) ==
  \/ UnlinkMessage(m, i) \/ SkipMessage(m, i) \/ RenameMessage(m, i) \/ RenameFails(m, i)

LEMMA MessageSteps ==
  ASSUME ShapeInv, NEW m \in Msgs, NEW i \in 1..2, MessageStep(m, i)
  PROVE  /\ i \in DOMAIN view[m] /\ pc = "syncing" /\ <<m, i>> \in todo
         /\ view[m][i] \in Header
         /\ view[m][i].path \in Names /\ view[m][i].path.dir \in Dirs
         /\ view[m][i].bits \in SUBSET Bits
<1>1. MaildirTypeOK /\ PlaceInv /\ pc = "syncing" /\ <<m, i>> \in todo
  BY DEF ShapeInv, MessageStep, UnlinkMessage, SkipMessage, RenameMessage, RenameFails
<1>2. i \in DOMAIN view[m] BY <1>1 DEF PlaceInv
<1>3. view[m][i] \in Header BY <1>1, <1>2, Typed, Lengths
<1>4. \A h \in Header : h.path \in Names /\ h.path.dir \in Dirs /\ h.bits \in SUBSET Bits
  BY DEF Header, Names
<1>. QED BY <1>1, <1>2, <1>3, <1>4

(* What the rename of a header's file does, and what is left if it fails. *)
LEMMA Renamed ==
  ASSUME ShapeInv, NEW m \in Msgs, NEW i \in 1..2,
         RenameMessage(m, i) \/ RenameFails(m, i)
  PROVE  LET h == view[m][i] IN
         /\ view' \in [Msgs -> Seq(Header)] /\ \A k \in Msgs : Len(view'[k]) <= 2
         /\ \A k \in Msgs : Len(view'[k]) = Len(view[k]) /\ DOMAIN view'[k] = DOMAIN view[k]
         /\ \A k \in Msgs : \A j \in DOMAIN view[k] :
              <<k, j>> # <<m, i>> => view'[k][j] = view[k][j]
         /\ view'[m][i].bits = NoteTrash(h.bits)
         /\ view'[m][i].path = IF RenameMessage(m, i) THEN NameOf(h.bits) ELSE h.path
         /\ \A k \in Msgs : k # m => view'[k] = view[k]
<1> DEFINE h == view[m][i]
<1>1. MessageStep(m, i) BY DEF MessageStep
<1>2. /\ MaildirTypeOK /\ i \in DOMAIN view[m] /\ h.path \in Names /\ h.bits \in SUBSET Bits
  BY <1>1, MessageSteps DEF ShapeInv
<1>3. NoteTrash(h.bits) \in SUBSET Bits BY <1>2 DEF NoteTrash, Bits
<1>4. CASE RenameMessage(m, i)
  <2> DEFINE g == [path |-> NameOf(h.bits), bits |-> NoteTrash(h.bits)]
  <2>1. view' = [view EXCEPT ![m][i] = g] BY <1>4 DEF RenameMessage
  <2>2. NameOf(h.bits) \in Names BY DEF NameOf, Names, Dirs
  <2>3. g \in Header BY <1>3, <2>2 DEF Header
  <2>4. g.bits = NoteTrash(h.bits) /\ g.path = NameOf(h.bits) OBVIOUS
  <2> HIDE DEF g, h
  <2>5. \A k \in Msgs : k # m => view'[k] = view[k] BY <1>2, <2>1, Typed
  <2>. QED BY <1>2, <1>4, <2>1, <2>3, <2>4, <2>5, BitsSet, Typed DEF h
<1>5. CASE RenameFails(m, i)
  <2> DEFINE b == NoteTrash(h.bits)
  <2>1. view' = [view EXCEPT ![m][i].bits = b] BY <1>5 DEF RenameFails
  <2>2. ~RenameMessage(m, i) BY <1>5 DEF RenameMessage, RenameFails
  <2>3. b \in SUBSET Bits BY <1>3
  <2> HIDE DEF b
  <2>4. Flagged(m, i, b) BY <1>2, <2>1, <2>3, FlagsSet
  <2>5. /\ view' \in [Msgs -> Seq(Header)]
        /\ \A k \in Msgs : Len(view'[k]) = Len(view[k]) /\ DOMAIN view'[k] = DOMAIN view[k]
        /\ \A k \in Msgs : Len(view'[k]) <= 2
        /\ view'[m][i].path = view[m][i].path /\ view'[m][i].bits = b
        /\ \A k \in Msgs : \A j \in DOMAIN view[k] :
             <<k, j>> # <<m, i>> => view'[k][j] = view[k][j]
        /\ \A k \in Msgs : k # m => view'[k] = view[k]
    BY <1>2, <2>3, <2>4, FlaggedShape
  <2>. QED BY <2>2, <2>5 DEF b
<1>. QED BY <1>4, <1>5

LEMMA MessageShape ==
  ASSUME ShapeInv, NEW m \in Msgs, NEW i \in 1..2, MessageStep(m, i)
  PROVE  ShapeInv'
<1> DEFINE h == view[m][i]
<1>1. MaildirTypeOK /\ PlaceInv BY DEF ShapeInv
<1>2. pc = "syncing" /\ h.path \in Names /\ h.path.dir \in Dirs /\ h.bits \in SUBSET Bits
  BY MessageSteps
<1>3. CASE UnlinkMessage(m, i)
  <2>1. /\ todo' = todo \ {<<m, i>>}
        /\ UNCHANGED <<born, clock, events, pc, why, view, ctx, seen, mask, scan, purge, said>>
    BY <1>3 DEF UnlinkMessage
  <2>2. /\ file' \in [Msgs -> Names \cup {None}] /\ mtime' \in [Dirs -> 0..MaxClock]
        /\ raced' \subseteq Msgs
    <3>1. CASE file[m] = h.path
      <4>1. /\ file' = [file EXCEPT ![m] = None]
            /\ mtime' = [d \in Dirs |-> IF d \in {h.path.dir} THEN clock ELSE mtime[d]]
            /\ raced' = raced \cup {m} \/ raced' = raced
        BY <1>3, <3>1 DEF UnlinkMessage, Touch
      <4>2. file \in [Msgs -> Names \cup {None}] /\ raced \subseteq Msgs BY <1>1, Typed
      <4>3. file' \in [Msgs -> Names \cup {None}] /\ raced' \subseteq Msgs BY <4>1, <4>2
      <4>4. mtime' \in [Dirs -> 0..MaxClock] BY <1>1, <4>1 DEF MaildirTypeOK
      <4>. QED BY <4>3, <4>4
    <3>2. CASE file[m] # h.path BY <1>1, <1>3, <3>2 DEF UnlinkMessage, MaildirTypeOK
    <3>. QED BY <3>1, <3>2
  <2>3. MaildirTypeOK' BY <1>1, <2>1, <2>2 DEF MaildirTypeOK
  <2>4. PlaceInv' BY <1>1, <1>2, <2>1 DEF PlaceInv
  <2>. QED BY <2>3, <2>4 DEF ShapeInv
<1>4. CASE SkipMessage(m, i)
  <2>1. /\ todo' = todo \ {<<m, i>>}
        /\ UNCHANGED <<dirVars, pc, why, view, ctx, seen, mask, scan, purge, raced, said>>
    BY <1>4 DEF SkipMessage
  <2>2. MaildirTypeOK' BY <1>1, <2>1 DEF MaildirTypeOK, dirVars
  <2>3. PlaceInv' BY <1>1, <1>2, <2>1 DEF PlaceInv
  <2>. QED BY <2>2, <2>3 DEF ShapeInv
<1>5. CASE RenameMessage(m, i)
  <2>1. /\ todo' = todo \ {<<m, i>>} /\ file' = [file EXCEPT ![m] = NameOf(h.bits)]
        /\ mtime' \in [Dirs -> 0..MaxClock]
        /\ UNCHANGED <<born, clock, events, pc, why, ctx, seen, mask, scan, purge, raced, said>>
    BY <1>1, <1>5 DEF RenameMessage, Touch, MaildirTypeOK
  <2>2. NameOf(h.bits) \in Names BY DEF NameOf, Names, Dirs
  <2>3. file' \in [Msgs -> Names \cup {None}] BY <1>1, <2>1, <2>2, Typed
  <2>4. /\ view' \in [Msgs -> Seq(Header)] /\ \A k \in Msgs : Len(view'[k]) <= 2
        /\ \A k \in Msgs : DOMAIN view'[k] = DOMAIN view[k]
    BY <1>5, Renamed
  <2> HIDE DEF h
  <2>5. MaildirTypeOK' BY <1>1, <2>1, <2>3, <2>4 DEF MaildirTypeOK
  <2>6. PlaceInv' BY <1>1, <1>2, <2>1, <2>4 DEF PlaceInv
  <2>. QED BY <2>5, <2>6 DEF ShapeInv
<1>6. CASE RenameFails(m, i)
  <2>1. /\ todo' = {} /\ pc' = "idle" /\ why' = "check" /\ purge' = "yes" /\ mask' = {}
        /\ scan' = Nothing /\ UNCHANGED <<dirVars, ctx, seen, raced, said>>
    BY <1>6 DEF RenameFails, Idle
  <2>2. /\ view' \in [Msgs -> Seq(Header)] /\ \A k \in Msgs : Len(view'[k]) <= 2
    BY <1>6, Renamed
  <2>3. scan' \in [Msgs -> Names \cup {None}] /\ \A k \in Msgs : scan'[k] = None
    BY <2>1 DEF Nothing
  <2>4. MaildirTypeOK' BY <1>1, <2>1, <2>2, <2>3 DEF MaildirTypeOK, dirVars
  <2>5. PlaceInv' BY <2>1, <2>3 DEF PlaceInv
  <2>. QED BY <2>4, <2>5 DEF ShapeInv
<1>. QED BY <1>3, <1>4, <1>5, <1>6 DEF MessageStep

LEMMA ClosedShape ==
  ASSUME ShapeInv, Closed, UNCHANGED dirVars PROVE ShapeInv' /\ SaidInv'
<1>1. MaildirTypeOK /\ PlaceInv BY DEF ShapeInv
<1>2. /\ pc' = "closed" /\ why' = "check" /\ view' = [m \in Msgs |-> <<>>]
      /\ ctx' = [changed |-> 0, deleted |-> 0] /\ seen' = [d \in Dirs |-> 0]
      /\ mask' = {} /\ scan' = [m \in Msgs |-> None] /\ todo' = {} /\ purge' = "yes"
      /\ raced' = {} /\ said' = [m \in Msgs |-> "-"]
  BY DEF Closed, Nothing
<1>3. /\ view' \in [Msgs -> Seq(Header)] /\ \A m \in Msgs : Len(view'[m]) <= 2 /\ view'[m] = <<>>
      /\ \A m \in Msgs : said'[m] = "-" /\ scan'[m] = None
  <2>1. <<>> \in Seq(Header) /\ Len(<<>>) <= 2 OBVIOUS
  <2>. QED BY <1>2, <2>1
<1>4. MaildirTypeOK' BY <1>1, <1>2, <1>3, MaildirAssumption DEF MaildirTypeOK, dirVars
<1>5. PlaceInv' BY <1>2, <1>3 DEF PlaceInv
<1>6. Len(<<>>) # 1 OBVIOUS
<1>7. SaidInv' BY <1>3, <1>6 DEF SaidInv, SaidIn
<1>. QED BY <1>4, <1>5, <1>7 DEF ShapeInv

(* The end of a sync that leaves the folder open. *)
LEMMA SyncEnds ==
  ASSUME ShapeInv, SyncEnd, ~Closed
  PROVE  /\ pc = "syncing" /\ todo = {} /\ pc' = "idle" /\ why' = "check" /\ purge' = "yes"
         /\ mask' = {} /\ scan' = Nothing /\ seen' = mtime /\ UNCHANGED <<dirVars, todo, raced>>
         /\ \/ purge = "no" /\ UNCHANGED <<view, ctx, said>>
            \/ /\ view' = [m \in Msgs |-> Cleaned(view[m])]
               /\ ctx' \in [changed : 0..1, deleted : Int]
               /\ said' = [m \in Msgs |-> IF view'[m] = view[m] THEN said[m] ELSE LastWord(view'[m])]
<1> DEFINE Kept(h) == MaildirTrash \/ "deleted" \notin h.bits
           kept == [m \in Msgs |-> Keep(view[m], {i \in DOMAIN view[m] : Kept(view[m][i])})]
           clean == [m \in Msgs |-> [i \in DOMAIN kept[m] |->
                                      [kept[m][i] EXCEPT !.bits = @ \ {"changed"}]]]
<1>1. /\ pc = "syncing" /\ todo = {} /\ Idle /\ seen' = mtime /\ UNCHANGED <<dirVars, todo, raced>>
      /\ IF purge = "no" THEN UNCHANGED <<view, ctx, said>>
         ELSE /\ view' = clean
              /\ ctx' = [changed |-> 0,
                         deleted |-> IF MaildirTrash THEN HowMany(clean, "deleted") ELSE 0]
              /\ said' = [m \in Msgs |-> IF clean[m] = view[m] THEN said[m]
                                         ELSE LastWord(clean[m])]
  BY DEF SyncEnd
<1>2. clean = [m \in Msgs |-> Cleaned(view[m])] BY DEF Cleaned, Remaining
<1>3. HowMany(clean, "deleted") \in Nat BY Counting
<1> HIDE DEF clean
<1>4. CASE purge = "no" BY <1>1, <1>4 DEF Idle
<1>5. CASE purge # "no"
  <2>1. ctx' \in [changed : 0..1, deleted : Int] BY <1>1, <1>3, <1>5
  <2>2. view' = clean BY <1>1, <1>5
  <2>3. said' = [m \in Msgs |-> IF view'[m] = view[m] THEN said[m] ELSE LastWord(view'[m])]
    BY <1>1, <1>5
  <2>. QED BY <1>1, <1>2, <2>1, <2>2, <2>3 DEF Idle
<1>. QED BY <1>4, <1>5

LEMMA SyncEndShape ==
  ASSUME ShapeInv, SaidInv, SyncEnd PROVE ShapeInv' /\ SaidInv'
<1>1. MaildirTypeOK /\ PlaceInv BY DEF ShapeInv
<1>2. CASE Closed BY <1>2, ClosedShape DEF SyncEnd
<1>3. CASE ~Closed
  <2>1. /\ pc' = "idle" /\ why' = "check" /\ purge' = "yes" /\ mask' = {} /\ todo' = {}
        /\ scan' = Nothing /\ seen' = mtime /\ UNCHANGED <<dirVars, raced>>
    BY <1>3, SyncEnds
  <2>2. scan' \in [Msgs -> Names \cup {None}] /\ \A m \in Msgs : scan'[m] = None
    BY <2>1 DEF Nothing
  <2>3. PlaceInv' BY <2>1, <2>2 DEF PlaceInv
  <2>4. CASE UNCHANGED <<view, ctx, said>>
    <3>1. MaildirTypeOK' BY <1>1, <2>1, <2>2, <2>4 DEF MaildirTypeOK, dirVars
    <3>2. SaidInv' BY <2>4 DEF SaidInv
    <3>. QED BY <2>3, <3>1, <3>2 DEF ShapeInv
  <2>5. CASE /\ view' = [m \in Msgs |-> Cleaned(view[m])]
             /\ ctx' \in [changed : 0..1, deleted : Int]
             /\ said' = [m \in Msgs |-> IF view'[m] = view[m] THEN said[m] ELSE LastWord(view'[m])]
    <3>1. \A m \in Msgs : Cleaned(view[m]) \in Seq(Header) /\ Len(Cleaned(view[m])) <= 2
      BY <1>1, Typed, Cleaning
    <3>2. /\ view' \in [Msgs -> Seq(Header)] /\ \A m \in Msgs : Len(view'[m]) <= 2
          /\ \A m \in Msgs : view'[m] \in Seq(Header)
      BY <2>5, <3>1
    <3>3. ASSUME NEW m \in Msgs
          PROVE  SaidIn(view'[m], said'[m]) /\ said'[m] \in {"-", "delete", "undelete"}
      <4>1. CASE view'[m] = view[m] BY <1>1, <2>5, <4>1, Typed DEF SaidInv
      <4>2. CASE view'[m] # view[m] BY <2>5, <3>2, <4>2, LastWordIs
      <4>. QED BY <4>1, <4>2
    <3>4. said' \in [Msgs -> {"-", "delete", "undelete"}] BY <2>5, <3>3
    <3>5. MaildirTypeOK' BY <1>1, <2>1, <2>2, <2>5, <3>2, <3>4 DEF MaildirTypeOK, dirVars
    <3>6. SaidInv' BY <3>3 DEF SaidInv
    <3>. QED BY <2>3, <3>5, <3>6 DEF ShapeInv
  <2>. QED BY <1>3, <2>4, <2>5, SyncEnds
<1>. QED BY <1>2, <1>3

(* The steps of other programs and of the clock. *)
OtherStep ==
  \/ \E m \in Msgs, nm \in OtherNames : Deliver(m, nm) \/ Rename(m, nm)
  \/ \E m \in Msgs : Remove(m)

LEMMA OtherSteps ==
  ASSUME ShapeInv, OtherStep
  PROVE  \E m \in Msgs, nm \in Names \cup {None} :
           OtherChange(m, nm) /\ born' \subseteq Msgs /\ (file[m] = None => nm # None)
<1>1. OtherNames \subseteq Names /\ born \subseteq Msgs /\ None \notin Names
  BY MaildirAssumption DEF ShapeInv, MaildirTypeOK, Names, None, Dirs
<1>2. ASSUME NEW m \in Msgs, NEW nm \in OtherNames, Deliver(m, nm) \/ Rename(m, nm)
      PROVE  OtherChange(m, nm) /\ born' \subseteq Msgs /\ nm # None /\ nm \in Names
  BY <1>1, <1>2 DEF Deliver, Rename
<1>3. ASSUME NEW m \in Msgs, Remove(m)
      PROVE  OtherChange(m, None) /\ born' \subseteq Msgs /\ file[m] # None
  BY <1>1, <1>3 DEF Remove
<1>. QED BY <1>2, <1>3 DEF OtherStep

(* The steps of Next, as the proofs below take them. *)
LEMMA Steps ==
  ASSUME ShapeInv, Next
  PROVE  \/ OtherStep \/ Tick \/ OpenNew \/ OpenCur \/ Check \/ CheckCur \/ SyncEnd
         \/ \E m \in Msgs, i \in 1..2, cmd \in Commands :
              ChangeStatus(cmd, m, i) \/ DeleteOrUndelete(cmd, m, i)
         \/ \E ans \in {"yes", "no"}, wh \in {"sync", "close"} : StartSync(ans, wh)
         \/ \E m \in Msgs, i \in 1..2 : MessageStep(m, i)
         \/ CloseUnchanged
<1>1. \A x \in Headers : x[1] \in Msgs /\ x[2] \in 1..2 BY DEF Headers
<1>2. \A x \in First(todo) : x[1] \in Msgs /\ x[2] \in 1..2
  BY Typed DEF First, ShapeInv
<1>3. CASE MuttngStep
  <2>1. CASE \E x \in Headers, cmd \in Commands :
               ChangeStatus(cmd, x[1], x[2]) \/ DeleteOrUndelete(cmd, x[1], x[2])
    BY <1>1, <2>1
  <2>2. CASE \E x \in First(todo) : \/ UnlinkMessage(x[1], x[2]) \/ SkipMessage(x[1], x[2])
                                    \/ RenameMessage(x[1], x[2]) \/ RenameFails(x[1], x[2])
    BY <1>2, <2>2 DEF MessageStep
  <2>. QED BY <1>3, <2>1, <2>2 DEF MuttngStep
<1>. QED BY <1>3 DEF Next, OtherStep

LEMMA SaidKept ==
  ASSUME ShapeInv, SaidInv, Next PROVE ShapeInv' /\ SaidInv'
<1>1. MaildirTypeOK /\ PlaceInv BY DEF ShapeInv
<1>2. ASSUME UNCHANGED <<view, said>> PROVE SaidInv' BY <1>2 DEF SaidInv
<1>3. CASE OtherStep
  <2>1. PICK m \in Msgs, nm \in Names \cup {None} : OtherChange(m, nm) /\ born' \subseteq Msgs
    BY <1>3, OtherSteps
  <2>2. ShapeInv' BY <2>1, OthersShape
  <2>. QED BY <1>2, <2>1, <2>2 DEF OtherChange
<1>4. CASE Tick
  <2>1. /\ clock' \in 0..MaxClock
        /\ UNCHANGED <<file, born, mtime, events, pc, why, view, ctx, seen, mask, scan, todo, purge,
                       raced, said>>
    BY <1>1, <1>4, MaildirAssumption DEF Tick, MaildirTypeOK
  <2>2. MaildirTypeOK' BY <1>1, <2>1 DEF MaildirTypeOK
  <2>3. PlaceInv' BY <1>1, <2>1 DEF PlaceInv
  <2>. QED BY <1>2, <2>1, <2>2, <2>3 DEF ShapeInv
<1>5. CASE OpenNew \/ OpenCur
  <2>1. ShapeInv' BY <1>5, OpeningShape
  <2>2. PICK d \in Dirs : ReadDir(d) BY <1>5 DEF OpenNew, OpenCur, Dirs
  <2>3. said' = said BY <2>2 DEF ReadDir
  <2>4. ASSUME NEW m \in Msgs PROVE SaidIn(view'[m], said[m])
    <3>1. view[m] \in Seq(Header) /\ SaidIn(view[m], said[m]) BY <1>1, Typed DEF SaidInv
    <3>2. CASE file[m].dir # d
      <4>1. view'[m] = view[m] BY <1>1, <2>2, <3>2, ReadHeaders
      <4>. QED BY <3>1, <4>1
    <3>3. CASE file[m].dir = d /\ view[m] # <<>>
      <4>1. Len(view[m]) \in Nat /\ Len(view[m]) # 0 BY <3>1, <3>3, Lengths
      <4>2. Len(view'[m]) = Len(view[m]) + 1 /\ view'[m] \in Seq(Header)
        BY <1>1, <2>2, <3>3, ReadHeaders
      <4>3. Len(view'[m]) # 1 /\ Len(view'[m]) # 0 BY <4>1, <4>2
      <4>4. view'[m] # <<>> BY <4>2, <4>3, Lengths
      <4>. QED BY <4>3, <4>4 DEF SaidIn
    <3>4. CASE file[m].dir = d /\ view[m] = <<>>
      <4> DEFINE h == NewHeader(file[m])
      <4>1. file[m] \in Names /\ view'[m] = Append(<<>>, h) BY <1>1, <2>2, <3>4, ReadHeaders
      <4>2. h \in Header /\ ("deleted" \in h.bits <=> "trash" \in h.bits)
        BY <4>1, HeadersTyped, NewHeaders
      <4> HIDE DEF h
      <4>3. view'[m] = <<h>> BY <4>1, <4>2, Appended
      <4>4. view'[m] # <<>> /\ view'[m][1] = h BY <4>3
      <4>5. said[m] = "-" BY <3>1, <3>4 DEF SaidIn
      <4>. QED BY <4>2, <4>4, <4>5 DEF SaidIn
    <3>. QED BY <3>2, <3>3, <3>4
  <2>. QED BY <2>1, <2>3, <2>4 DEF SaidInv
<1>6. CASE Check
  <2>1. ShapeInv' BY <1>6, CheckShape
  <2>. QED BY <1>2, <1>6, <2>1 DEF Check
<1>7. CASE CheckCur BY <1>7, CheckedShape
<1>8. CASE SyncEnd BY <1>8, SyncEndShape
<1>9. CASE CloseUnchanged BY <1>9, ClosedShape DEF CloseUnchanged
<1>10. CASE \E ans \in {"yes", "no"}, wh \in {"sync", "close"} : StartSync(ans, wh)
  BY <1>10, SyncBegins
<1>11. ASSUME NEW m \in Msgs, NEW i \in 1..2, NEW cmd \in Commands, ChangeStatus(cmd, m, i)
       PROVE  ShapeInv' /\ SaidInv'
  <2>1. ShapeInv' BY <1>11, CommandShape
  <2>2. i \in DOMAIN view[m] /\ said' = said BY <1>1, <1>11, StatusChanges
  <2>3. PICK b \in SUBSET Bits :
          /\ Flagged(m, i, b)
          /\ "deleted" \in b <=> "deleted" \in view[m][i].bits
          /\ "trash" \in b <=> "trash" \in view[m][i].bits
    BY <1>1, <1>11, StatusChanges
  <2>4. ASSUME NEW k \in Msgs PROVE SaidIn(view'[k], said[k])
    <3>1. /\ Len(view'[k]) = Len(view[k]) /\ view'[k] \in Seq(Header) /\ view[k] \in Seq(Header)
          /\ SaidIn(view[k], said[k])
      BY <1>1, <2>2, <2>3, FlaggedShape, Typed DEF SaidInv
    <3>2. ASSUME Len(view[k]) = 1
          PROVE  /\ "deleted" \in view'[k][1].bits <=> "deleted" \in view[k][1].bits
                 /\ "trash" \in view'[k][1].bits <=> "trash" \in view[k][1].bits
      <4>1. DOMAIN view[k] = {1} BY <3>1, <3>2
      <4>2. CASE k = m
        <5>1. i = 1 BY <2>2, <4>1, <4>2
        <5>2. view'[m][i].bits = b BY <1>1, <2>2, <2>3, FlaggedShape
        <5>. QED BY <2>3, <4>2, <5>1, <5>2
      <4>3. CASE k # m
        <5>1. view'[k] = view[k] BY <1>1, <2>2, <2>3, <4>3, FlaggedShape
        <5>. QED BY <5>1
      <4>. QED BY <4>2, <4>3
    <3>3. view'[k] = <<>> <=> view[k] = <<>> BY <3>1, Lengths
    <3>. QED BY <3>1, <3>2, <3>3 DEF SaidIn
  <2>. QED BY <2>1, <2>2, <2>4 DEF SaidInv
<1>12. ASSUME NEW m \in Msgs, NEW i \in 1..2, NEW cmd \in Commands, DeleteOrUndelete(cmd, m, i)
       PROVE  ShapeInv' /\ SaidInv'
  <2>1. ShapeInv' BY <1>12, CommandShape
  <2>2. /\ i \in DOMAIN view[m] /\ said' = [said EXCEPT ![m] = cmd] /\ cmd \in {"delete", "undelete"}
    BY <1>1, <1>12, DeletionChanges
  <2>3. PICK b \in SUBSET Bits : Flagged(m, i, b) /\ ("deleted" \in b <=> cmd = "delete")
    BY <1>1, <1>12, DeletionChanges
  <2>4. /\ \A k \in Msgs : k # m => view'[k] = view[k]
        /\ Len(view'[m]) = Len(view[m]) /\ view'[m][i].bits = b
    BY <1>1, <2>2, <2>3, FlaggedShape
  <2>5. ASSUME NEW k \in Msgs, k # m PROVE SaidIn(view'[k], said'[k])
    BY <1>1, <2>2, <2>4, <2>5, Typed DEF SaidInv
  <2>6. SaidIn(view'[m], said'[m])
    <3>1. said'[m] = cmd BY <1>1, <2>2, Typed
    <3>2. view[m] \in Seq(Header) /\ view'[m] \in Seq(Header)
      BY <1>1, <2>2, <2>3, FlaggedShape, Typed
    <3>3. view'[m] # <<>>
      <4>1. view[m] # <<>> BY <2>2
      <4>. QED BY <2>4, <3>2, <4>1, Lengths
    <3>4. ASSUME Len(view'[m]) = 1 PROVE view'[m][1].bits = b
      <4>0. Len(view[m]) = 1 BY <2>4, <3>4
      <4>1. DOMAIN view[m] = {1} BY <3>2, <4>0
      <4>2. i = 1 BY <2>2, <4>1
      <4>. QED BY <2>4, <4>2
    <3>. QED BY <2>2, <2>3, <3>1, <3>3, <3>4 DEF SaidIn
  <2>. QED BY <2>1, <2>5, <2>6 DEF SaidInv
<1>13. ASSUME NEW m \in Msgs, NEW i \in 1..2, MessageStep(m, i)
       PROVE  ShapeInv' /\ SaidInv'
  <2>1. ShapeInv' BY <1>13, MessageShape
  <2>2. CASE UnlinkMessage(m, i) \/ SkipMessage(m, i)
    BY <1>2, <2>1, <2>2 DEF UnlinkMessage, SkipMessage
  <2>3. CASE RenameMessage(m, i) \/ RenameFails(m, i)
    <3>1. said' = said BY <2>3 DEF RenameMessage, RenameFails
    <3>2. /\ \A k \in Msgs : k # m => view'[k] = view[k]
          /\ Len(view'[m]) = Len(view[m]) /\ view'[m] \in Seq(Header)
          /\ view'[m][i].bits = NoteTrash(view[m][i].bits)
      BY <2>3, Renamed
    <3>3. /\ i \in DOMAIN view[m] /\ view[m] \in Seq(Header) /\ SaidIn(view[m], said[m])
      BY <1>1, <1>13, MessageSteps, Typed DEF SaidInv
    <3>4. SaidIn(view'[m], said[m])
      <4>1. view'[m] # <<>>
        <5>1. view[m] # <<>> BY <3>3
        <5>. QED BY <3>2, <3>3, <5>1, Lengths
      <4>2. ASSUME Len(view'[m]) = 1
            PROVE  /\ "deleted" \in view'[m][1].bits <=> "deleted" \in view[m][1].bits
                   /\ "trash" \in view'[m][1].bits <=> "deleted" \in view'[m][1].bits
        <5>0. Len(view[m]) = 1 BY <3>2, <4>2
        <5>1. DOMAIN view[m] = {1} BY <3>3, <5>0
        <5>2. i = 1 BY <3>3, <5>1
        <5>. QED BY <3>2, <5>2 DEF NoteTrash
      <4>. QED BY <3>2, <3>3, <4>1, <4>2 DEF SaidIn
    <3>. QED BY <2>1, <3>1, <3>2, <3>4 DEF SaidInv
  <2>. QED BY <1>13, <2>2, <2>3 DEF MessageStep
<1>. QED BY <1>3, <1>4, <1>5, <1>6, <1>7, <1>8, <1>9, <1>10, <1>11, <1>12, <1>13, Steps

-----------------------------------------------------------------------------
(* Every step keeps what muttng knows *)

(* The times of directories only grow, and never beyond the clock. *)
LEMMA TimeKept ==
  ASSUME ShapeInv, TimeInv, Next PROVE TimeInv'
<1>1. MaildirTypeOK /\ PlaceInv BY DEF ShapeInv
<1>2. clock \in Int /\ \A d \in Dirs : mtime[d] \in Int /\ seen[d] \in Int
  BY <1>1, MaildirAssumption DEF MaildirTypeOK
<1>3. ASSUME UNCHANGED <<clock, mtime>>, seen' = seen \/ seen' = mtime PROVE TimeInv'
  BY <1>2, <1>3 DEF TimeInv
<1>4. ASSUME NEW D, Touch(D), clock' = clock, seen' = seen PROVE TimeInv'
  BY <1>2, <1>4 DEF TimeInv, Touch
<1>5. ASSUME Closed, UNCHANGED dirVars PROVE TimeInv'
  BY <1>1, <1>2, <1>5, MaildirAssumption DEF TimeInv, Closed, dirVars, MaildirTypeOK
<1>6. CASE OtherStep
  <2>1. PICK m \in Msgs, nm \in Names \cup {None} : OtherChange(m, nm) BY <1>6, OtherSteps
  <2>. QED BY <1>4, <2>1 DEF OtherChange
<1>7. CASE Tick BY <1>2, <1>7 DEF Tick, TimeInv
<1>8. CASE OpenNew \/ OpenCur BY <1>3, <1>8 DEF OpenNew, OpenCur, ReadDir, dirVars
<1>9. CASE Check BY <1>3, <1>9 DEF Check, CheckNew, dirVars
<1>10. CASE CheckCur BY <1>3, <1>10 DEF CheckCur, dirVars
<1>11. CASE SyncEnd BY <1>3, <1>5, <1>11 DEF SyncEnd, dirVars
<1>12. CASE CloseUnchanged BY <1>5, <1>12 DEF CloseUnchanged
<1>13. ASSUME NEW m \in Msgs, NEW i \in 1..2, NEW cmd \in Commands,
              ChangeStatus(cmd, m, i) \/ DeleteOrUndelete(cmd, m, i)
       PROVE  TimeInv'
  BY <1>3, <1>13 DEF ChangeStatus, DeleteOrUndelete
<1>14. ASSUME NEW ans, NEW wh, StartSync(ans, wh) PROVE TimeInv'
  <2>1. UNCHANGED dirVars /\ (seen' = seen \/ seen' = mtime)
    BY <1>14 DEF StartSync, CheckNothing, CheckNew
  <2>. QED BY <1>3, <2>1 DEF dirVars
<1>15. ASSUME NEW m \in Msgs, NEW i \in 1..2, MessageStep(m, i) PROVE TimeInv'
  <2>1. CASE UnlinkMessage(m, i)
    <3>1. UNCHANGED <<clock, seen>> /\ (mtime' = mtime \/ Touch({view[m][i].path.dir}))
      BY <2>1 DEF UnlinkMessage
    <3>. QED BY <1>3, <1>4, <3>1
  <2>2. CASE SkipMessage(m, i) BY <1>3, <2>2 DEF SkipMessage, dirVars
  <2>3. CASE RenameMessage(m, i)
    <3>1. /\ UNCHANGED <<clock, seen>>
          /\ Touch({view[m][i].path.dir, NameOf(view[m][i].bits).dir})
      BY <2>3 DEF RenameMessage
    <3>. QED BY <1>4, <3>1
  <2>4. CASE RenameFails(m, i) BY <1>3, <2>4 DEF RenameFails, dirVars
  <2>. QED BY <1>15, <2>1, <2>2, <2>3, <2>4 DEF MessageStep
<1>. QED BY <1>6, <1>7, <1>8, <1>9, <1>10, <1>11, <1>12, <1>13, <1>14, <1>15, Steps

LEMMA KnownLess ==
  ASSUME NEW nm, NEW v, NEW D, NEW E, E \subseteq D, KnownIn(nm, v, D)
  PROVE  KnownIn(nm, v, E)
BY DEF KnownIn

LEMMA NothingKnown ==
  /\ \A D : D \subseteq Dirs => KnownIn(None, <<>>, D)
  /\ \A nm, v : KnownIn(nm, v, {})
  /\ None.dir \notin Dirs
<1>1. None.dir \notin Dirs BY DEF None, Dirs
<1>2. DOMAIN <<>> = {} OBVIOUS
<1>3. ASSUME NEW D, D \subseteq Dirs PROVE KnownIn(None, <<>>, D)
  BY <1>1, <1>2, <1>3 DEF KnownIn
<1>4. ASSUME NEW nm, NEW v PROVE KnownIn(nm, v, {}) BY DEF KnownIn
<1>. QED BY <1>1, <1>3, <1>4

(* What is newer stays newer until the next look. *)
LEMMA NewerGrows ==
  ASSUME MaildirTypeOK, TimeInv, seen' = seen
  PROVE  /\ mtime' = mtime => Newer' = Newer
         /\ \A D : Touch(D) => Newer \subseteq Newer' /\ \A d \in Dirs \cap D : seen[d] # clock => d \in Newer'
<1>1. \A d \in Dirs : mtime[d] \in Int /\ seen[d] \in Int /\ mtime[d] <= clock /\ seen[d] <= clock
  BY MaildirAssumption DEF MaildirTypeOK, TimeInv
<1>2. clock \in Int BY MaildirAssumption DEF MaildirTypeOK
<1>3. ASSUME NEW D, Touch(D)
      PROVE Newer \subseteq Newer' /\ \A d \in Dirs \cap D : seen[d] # clock => d \in Newer'
  <2>1. \A d \in Dirs : mtime'[d] = IF d \in D THEN clock ELSE mtime[d] BY <1>3 DEF Touch
  <2>2. ASSUME NEW d \in Newer PROVE d \in Newer'
    <3>1. d \in Dirs /\ mtime[d] > seen[d] BY DEF Newer
    <3>2. mtime'[d] > seen[d] BY <1>1, <1>2, <2>1, <3>1
    <3>. QED BY <3>1, <3>2 DEF Newer
  <2>3. ASSUME NEW d \in Dirs \cap D, seen[d] # clock PROVE d \in Newer'
    <3>1. mtime'[d] > seen[d] BY <1>1, <1>2, <2>1, <2>3
    <3>. QED BY <3>1 DEF Newer
  <2>. QED BY <2>2, <2>3
<1>4. mtime' = mtime => Newer' = Newer BY DEF Newer
<1>. QED BY <1>3, <1>4

(* A message to which nothing happens but that directories become newer. *)
LEMMA FreshStays ==
  ASSUME NEW m \in Msgs, FreshIn(m), pc' = pc, file'[m] = file[m], view'[m] = view[m],
         mask' = mask, scan' = scan, purge' = purge, Newer \subseteq Newer',
         <<m, 1>> \in todo => <<m, 1>> \in todo'
  PROVE  FreshIn(m)'
<1>1. pc = "idle" => KnownIn(file[m], view[m], Dirs \ Newer')
  BY KnownLess DEF FreshIn
<1>2. FreshIn(m)' <=>
        /\ pc = "opening" => view[m] = IF file[m].dir = "new" THEN <<NewHeader(file[m])>> ELSE <<>>
        /\ pc = "idle" => KnownIn(file[m], view[m], Dirs \ Newer')
        /\ pc = "checking" =>
             /\ KnownIn(file[m], view[m], Dirs \ mask)
             /\ scan[m] = IF "new" \in mask /\ file[m].dir = "new" THEN file[m] ELSE None
        /\ pc = "syncing" =>
             IF file[m] = None
             THEN \A i \in DOMAIN view[m] :
                    purge = "yes" /\ Unlinks(view[m][i].bits) /\ view[m][i].path.dir \in Newer'
             ELSE KnownIn(file[m], view[m], Dirs) /\ (<<m, 1>> \notin todo' => Done(view[m][1]))
  BY DEF FreshIn
<1>. QED BY <1>1, <1>2 DEF FreshIn

(* Other programs' changes make a directory newer, or the message is missed. *)
LEMMA FreshOthers ==
  ASSUME ShapeInv, TimeInv, FreshInv, OtherStep, NEW m \in Msgs \ raced'
  PROVE  FreshIn(m)'
<1>1. MaildirTypeOK /\ PlaceInv BY DEF ShapeInv
<1>2. PICK k \in Msgs, nm \in Names \cup {None} : OtherChange(k, nm) BY OtherSteps
<1> DEFINE D == {file[k].dir, nm.dir} \cap Dirs
<1>3. /\ file' = [file EXCEPT ![k] = nm] /\ Touch(D)
      /\ raced' = IF \/ pc \in {"opening", "checking", "syncing"}
                     \/ pc = "idle" /\ \E d \in D : seen[d] = clock
                  THEN raced \cup {k} ELSE raced
      /\ UNCHANGED <<clock, pc, why, view, ctx, seen, mask, scan, todo, purge, said>>
  BY <1>2 DEF OtherChange
<1> HIDE DEF D
<1>4. Newer \subseteq Newer' /\ \A d \in Dirs \cap D : seen[d] # clock => d \in Newer'
  BY <1>1, <1>3, NewerGrows
<1>5. m \notin raced /\ FreshIn(m) BY <1>3 DEF FreshInv
<1>6. CASE m # k
  <2>1. file'[m] = file[m] BY <1>1, <1>3, <1>6, Typed
  <2>. QED BY <1>3, <1>4, <1>5, <2>1, FreshStays
<1>7. CASE m = k
  <2>1. /\ pc' \notin {"opening", "checking", "syncing"} /\ pc' = pc
        /\ pc = "idle" => \A d \in D : seen[d] # clock
    BY <1>3, <1>7
  <2>2. ASSUME pc = "idle" PROVE KnownIn(nm, view[m], Dirs \ Newer')
    <3>1. D \subseteq Newer' BY <1>4, <2>1, <2>2 DEF D
    <3>2. KnownIn(file[m], view[m], Dirs \ Newer) BY <1>5, <2>2 DEF FreshIn
    <3>3. nm.dir \notin Dirs \ Newer' BY <3>1 DEF D
    <3>4. ASSUME NEW i \in DOMAIN view[m] PROVE view[m][i].path.dir \notin Dirs \ Newer'
      <4>1. view[m][i].path.dir \in Dirs \ Newer => view[m][i].path = file[m] BY <3>2 DEF KnownIn
      <4>2. file[m].dir \in Dirs => file[m].dir \in Newer' BY <1>7, <3>1 DEF D
      <4>. QED BY <1>4, <4>1, <4>2
    <3>. QED BY <3>3, <3>4 DEF KnownIn
  <2>3. file'[m] = nm /\ view'[m] = view[m] BY <1>1, <1>3, <1>7, Typed
  <2>. QED BY <2>1, <2>2, <2>3 DEF FreshIn
<1>. QED BY <1>6, <1>7

LEMMA FreshOpening ==
  ASSUME ShapeInv, FreshInv, OpenNew \/ OpenCur, NEW m \in Msgs \ raced'
  PROVE  FreshIn(m)'
<1>1. MaildirTypeOK /\ PlaceInv BY DEF ShapeInv
<1>2. UNCHANGED <<file, mtime>> /\ seen' = mtime /\ raced' = raced
  BY DEF OpenNew, OpenCur, ReadDir, dirVars
<1>3. FreshIn(m) /\ file[m] \in Names \cup {None} BY <1>1, <1>2, Typed DEF FreshInv
<1> DEFINE h == NewHeader(file[m])
<1>4. file[m] \in Names => h \in Header /\ Append(<<>>, h) = <<h>>
  <2>1. file[m] \in Names => h \in Header BY HeadersTyped
  <2>. QED BY <2>1, Appended
<1>5. CASE OpenNew
  <2>1. view[m] = <<>> BY <1>1, <1>5 DEF OpenNew, PlaceInv
  <2>2. view'[m] = IF file[m].dir = "new" THEN Append(<<>>, h) ELSE <<>>
    BY <1>1, <1>5, <2>1, ReadHeaders DEF OpenNew, Dirs
  <2>3. file[m].dir = "new" => file[m] \in Names BY <1>3, NamesHaveDirs DEF Dirs
  <2> HIDE DEF h
  <2>4. view'[m] = IF file[m].dir = "new" THEN <<h>> ELSE <<>> BY <1>4, <2>2, <2>3
  <2>5. pc' = "opening" BY <1>5 DEF OpenNew
  <2>. QED BY <1>2, <2>4, <2>5 DEF FreshIn, h
<1>6. CASE OpenCur
  <2>1. pc = "opening" /\ pc' = "idle" BY <1>6 DEF OpenCur
  <2>2. view[m] = IF file[m].dir = "new" THEN <<h>> ELSE <<>> BY <1>3, <2>1 DEF FreshIn
  <2>3. view'[m] = IF file[m].dir = "cur" THEN Append(view[m], h) ELSE view[m]
    BY <1>1, <1>6, ReadHeaders DEF OpenCur, Dirs
  <2>4. Newer' = {}
    <3>1. \A d \in Dirs : mtime[d] \in Int BY <1>1, MaildirAssumption DEF MaildirTypeOK
    <3>. QED BY <1>2, <3>1 DEF Newer
  <2>5. CASE file[m] = None
    <3>1. file[m].dir \notin Dirs BY <2>5, NothingKnown
    <3>2. view'[m] = <<>> BY <2>2, <2>3, <3>1 DEF Dirs
    <3>. QED BY <1>2, <2>1, <2>4, <2>5, <3>2, NothingKnown DEF FreshIn
  <2>6. CASE file[m] # None
    <3>1. file[m] \in Names /\ file[m].dir \in Dirs BY <1>3, <2>6, NamesHaveDirs
    <3>2. h.path = file[m] /\ h.bits = ParseFlags(file[m]) /\ h \in Header
          /\ ("trash" \in h.bits <=> "T" \in file[m].flags)
      BY <3>1, NewHeaders, HeadersTyped
    <3> HIDE DEF h
    <3>3. view'[m] = <<h>> BY <1>4, <2>2, <2>3, <3>1 DEF Dirs
    <3>4. Len(<<h>>) = 1 /\ <<h>>[1] = h /\ DOMAIN <<h>> = {1} OBVIOUS
    <3>5. KnownIn(file[m], <<h>>, Dirs) BY <3>2, <3>4 DEF KnownIn
    <3>. QED BY <1>2, <2>1, <2>4, <3>3, <3>5 DEF FreshIn
  <2>. QED BY <2>5, <2>6
<1>. QED BY <1>5, <1>6

(* A check notes what it does not know. *)
LEMMA FreshChecking ==
  ASSUME ShapeInv, FreshInv, pc = "idle", CheckNew, UNCHANGED file,
         NEW m \in Msgs \ raced', Kin(view[m], view'[m])
  PROVE  FreshIn(m)'
<1>1. MaildirTypeOK BY DEF ShapeInv
<1>2. KnownIn(file[m], view'[m], Dirs \ Newer)
  <2>1. CASE Newer = Dirs
    <3>1. Dirs \ Newer = {} BY <2>1
    <3>. QED BY <3>1, NothingKnown
  <2>2. CASE Newer # Dirs
    <3>1. raced' = raced BY <2>2 DEF CheckNew
    <3>2. KnownIn(file[m], view[m], Dirs \ Newer) BY <3>1 DEF FreshInv, FreshIn
    <3>. QED BY <1>1, <3>2, KinKnow, Typed
  <2>. QED BY <2>1, <2>2
<1>3. /\ pc' = "checking" /\ mask' = Newer
      /\ scan'[m] = IF "new" \in mask' /\ file[m].dir = "new" THEN file[m] ELSE None
  BY <1>1, CheckNotes
<1>. QED BY <1>2, <1>3 DEF FreshIn

LEMMA FreshChecked ==
  ASSUME ShapeInv, FreshInv, CheckCur, NEW m \in Msgs \ raced'
  PROVE  FreshIn(m)'
<1>1. MaildirTypeOK /\ PlaceInv BY DEF ShapeInv
<1>2. /\ pc = "checking" /\ view'[m] = Checked(m) /\ UNCHANGED <<file, seen, raced>>
      /\ \/ pc' = "idle"
         \/ pc' = "syncing" /\ todo' = AllHeaders(view')
  BY <1>1, CheckEnds DEF dirVars
<1>3. FreshIn(m) BY <1>2 DEF FreshInv
<1>4. CASE file[m] = None
  <2>1. view'[m] = <<>> /\ DOMAIN <<>> = {} BY <1>1, <1>2, <1>3, <1>4, CheckedFresh
  <2>2. KnownIn(None, <<>>, Dirs \ Newer') BY NothingKnown
  <2>. QED BY <1>2, <1>4, <2>1, <2>2 DEF FreshIn
<1>5. CASE file[m] # None
  <2>1. KnownIn(file[m], view'[m], Dirs) /\ Len(view'[m]) = 1 /\ view'[m] \in Seq(Header)
    BY <1>1, <1>2, <1>3, <1>5, CheckedFresh, CheckedTyped
  <2>2. KnownIn(file[m], view'[m], Dirs \ Newer') BY <2>1, KnownLess
  <2>3. 1 \in DOMAIN view'[m] BY <2>1
  <2>4. pc' = "syncing" => <<m, 1>> \in todo'
    <3>1. 1 \in 1..2 OBVIOUS
    <3>2. <<m, 1>> \in AllHeaders(view') BY <2>3, <3>1, AllHeadersTyped
    <3>. QED BY <1>2, <3>2
  <2>. QED BY <1>2, <1>5, <2>1, <2>2, <2>4 DEF FreshIn
<1>. QED BY <1>4, <1>5

LEMMA FreshSyncing ==
  ASSUME ShapeInv, SaidInv, FreshInv, NEW ans \in {"yes", "no"}, NEW wh \in {"sync", "close"},
         StartSync(ans, wh), NEW m \in Msgs \ raced'
  PROVE  FreshIn(m)'
<1>1. MaildirTypeOK BY DEF ShapeInv
<1>2. pc = "idle" /\ UNCHANGED file /\ Kin(view[m], view'[m])
  BY SyncBegins DEF StartSync, dirVars
<1>3. CASE CheckNew BY <1>2, <1>3, FreshChecking
<1>4. CASE CheckNothing
  <2>1. Newer = {} /\ pc' = "syncing" /\ todo' = AllHeaders(view') /\ UNCHANGED raced
    BY <1>4 DEF CheckNothing, BeginSync
  <2>2. KnownIn(file[m], view[m], Dirs \ Newer) BY <1>2, <2>1 DEF FreshInv, FreshIn
  <2>3. Dirs \ Newer = Dirs BY <2>1
  <2>4. KnownIn(file[m], view'[m], Dirs) BY <1>1, <1>2, <2>2, <2>3, KinKnow, Typed
  <2>5. /\ view'[m] \in Seq(Header) /\ \A i \in DOMAIN view'[m] : view'[m][i].path.dir \in Dirs
    <3>1. view'[m] \in Seq(Header) BY <1>2 DEF Kin
    <3>2. \A h \in Header : h.path.dir \in Dirs BY DEF Header, Names
    <3>. QED BY <3>1, <3>2, Lengths
  <2>6. CASE file[m] = None
    <3>1. \A i \in DOMAIN view'[m] : FALSE
      BY <2>4, <2>5, <2>6, NothingKnown DEF KnownIn
    <3>. QED BY <1>2, <2>1, <2>6, <3>1 DEF FreshIn
  <2>7. CASE file[m] # None
    <3>1. file[m].dir \in Dirs BY <1>1, <2>7, Typed, NamesHaveDirs
    <3>2. Len(view'[m]) = 1 BY <2>4, <3>1 DEF KnownIn
    <3>3. 1 \in DOMAIN view'[m] BY <2>5, <3>2
    <3>4. <<m, 1>> \in todo'
      <4>1. 1 \in 1..2 OBVIOUS
      <4>. QED BY <2>1, <3>3, <4>1, AllHeadersTyped
    <3>. QED BY <1>2, <2>1, <2>4, <2>7, <3>4 DEF FreshIn
  <2>. QED BY <2>6, <2>7
<1>. QED BY <1>3, <1>4 DEF StartSync

LEMMA FreshCommand ==
  ASSUME ShapeInv, FreshInv, NEW k \in Msgs, NEW i \in 1..2, NEW cmd,
         ChangeStatus(cmd, k, i) \/ DeleteOrUndelete(cmd, k, i), NEW m \in Msgs \ raced'
  PROVE  FreshIn(m)'
<1>1. MaildirTypeOK BY DEF ShapeInv
<1>2. /\ i \in DOMAIN view[k] /\ pc = "idle" /\ UNCHANGED <<pc, file, mtime, seen, raced>>
      /\ \E b \in SUBSET Bits :
           /\ Flagged(k, i, b)
           /\ "trash" \in b <=> "trash" \in view[k][i].bits
           /\ "changed" \in view[k][i].bits => "changed" \in b
           /\ "changed" \notin b => Shown(b) = Shown(view[k][i].bits)
  <2>1. CASE ChangeStatus(cmd, k, i) BY <1>1, <2>1, StatusChanges
  <2>2. CASE DeleteOrUndelete(cmd, k, i) BY <1>1, <2>2, DeletionChanges
  <2>. QED BY <2>1, <2>2
<1>3. Kin(view[m], view'[m])
  <2>1. PICK b \in SUBSET Bits :
           /\ Flagged(k, i, b)
           /\ "trash" \in b <=> "trash" \in view[k][i].bits
           /\ "changed" \in view[k][i].bits => "changed" \in b
           /\ "changed" \notin b => Shown(b) = Shown(view[k][i].bits)
    BY <1>2
  <2>2. /\ view'[m] \in Seq(Header) /\ Len(view'[m]) = Len(view[m]) /\ DOMAIN view'[m] = DOMAIN view[m]
        /\ view'[k][i].path = view[k][i].path /\ view'[k][i].bits = b
        /\ \A j \in DOMAIN view[m] : <<m, j>> # <<k, i>> => view'[m][j] = view[m][j]
    BY <1>1, <1>2, <2>1, FlaggedShape
  <2>3. ASSUME NEW j \in DOMAIN view[m]
        PROVE  /\ view'[m][j].path = view[m][j].path
               /\ "trash" \in view'[m][j].bits <=> "trash" \in view[m][j].bits
               /\ "changed" \in view[m][j].bits => "changed" \in view'[m][j].bits
               /\ "changed" \notin view'[m][j].bits => Shown(view'[m][j].bits) = Shown(view[m][j].bits)
    <3>1. CASE <<m, j>> = <<k, i>> BY <2>1, <2>2, <3>1
    <3>2. CASE <<m, j>> # <<k, i>>
      <4>1. view'[m][j] = view[m][j] BY <2>2, <3>2
      <4>. QED BY <4>1
    <3>. QED BY <3>1, <3>2
  <2>. QED BY <2>2, <2>3 DEF Kin
<1>4. KnownIn(file[m], view[m], Dirs \ Newer) BY <1>2 DEF FreshInv, FreshIn
<1>5. KnownIn(file[m], view'[m], Dirs \ Newer) BY <1>1, <1>3, <1>4, KinKnow, Typed
<1>6. Newer' = Newer BY <1>2 DEF Newer
<1>. QED BY <1>2, <1>5, <1>6 DEF FreshIn

(* In a sync, a message that has not been missed has a file that has been    *)
(* removed, or one header that knows its file.                               *)
LEMMA InSync ==
  ASSUME ShapeInv, NEW m \in Msgs, FreshIn(m), pc = "syncing", file[m] # None
  PROVE  /\ DOMAIN view[m] = {1} /\ Len(view[m]) = 1 /\ view[m][1].path = file[m]
         /\ "changed" \notin view[m][1].bits =>
              Shown(view[m][1].bits) = Shown(ParseFlags(file[m]))
         /\ "trash" \in view[m][1].bits <=> "T" \in file[m].flags
         /\ <<m, 1>> \notin todo => Done(view[m][1])
         /\ file[m] \in Names /\ file[m].dir \in Dirs
<1>1. MaildirTypeOK BY DEF ShapeInv
<1>2. KnownIn(file[m], view[m], Dirs) /\ (<<m, 1>> \notin todo => Done(view[m][1])) BY DEF FreshIn
<1>3. file[m].dir \in Dirs /\ file[m] \in Names BY <1>1, Typed, NamesHaveDirs
<1>4. /\ Len(view[m]) = 1 /\ view[m][1].path = file[m]
      /\ "changed" \notin view[m][1].bits => Shown(view[m][1].bits) = Shown(ParseFlags(file[m]))
  BY <1>2, <1>3 DEF KnownIn
<1>5. view[m] \in Seq(Header) BY <1>1, Typed
<1>6. DOMAIN view[m] = {1} BY <1>4, <1>5
<1>7. "trash" \in view[m][1].bits <=> "T" \in file[m].flags BY <1>2, <1>3, <1>4, <1>6 DEF KnownIn
<1>. QED BY <1>2, <1>3, <1>4, <1>6, <1>7

LEMMA FreshMessage ==
  ASSUME ShapeInv, TimeInv, FreshInv, NEW k \in Msgs, NEW i \in 1..2, MessageStep(k, i),
         NEW m \in Msgs \ raced'
  PROVE  FreshIn(m)'
<1> DEFINE h == view[k][i]
<1>1. MaildirTypeOK BY DEF ShapeInv
<1>2. /\ i \in DOMAIN view[k] /\ pc = "syncing" /\ h.path.dir \in Dirs /\ h.path \in Names
      /\ h.bits \in SUBSET Bits
  BY MessageSteps
<1>3. m \notin raced /\ FreshIn(m)
  <2>1. raced \subseteq raced'
    BY DEF MessageStep, UnlinkMessage, SkipMessage, RenameMessage, RenameFails
  <2>. QED BY <2>1 DEF FreshInv
<1>4. CASE UnlinkMessage(k, i)
  <2>1. /\ Unlinks(h.bits) /\ todo' = todo \ {<<k, i>>}
        /\ IF file[k] = h.path
           THEN /\ file' = [file EXCEPT ![k] = None] /\ Touch({h.path.dir})
                /\ raced' = IF seen[h.path.dir] = clock \/ purge = "no" THEN raced \cup {k} ELSE raced
           ELSE UNCHANGED <<file, mtime, raced>>
        /\ UNCHANGED <<born, clock, events, pc, why, view, ctx, seen, mask, scan, purge, said>>
    BY <1>4 DEF UnlinkMessage
  <2>2. Newer \subseteq Newer' BY <1>1, <2>1, NewerGrows
  <2>3. CASE m # k
    <3>1. file'[m] = file[m] BY <1>1, <2>1, <2>3, Typed
    <3>2. <<m, 1>> \in todo => <<m, 1>> \in todo' BY <2>1, <2>3
    <3>. QED BY <1>3, <2>1, <2>2, <3>1, <3>2, FreshStays
  <2>4. CASE m = k /\ file[m] = None
    <3>1. h.path # None BY <1>2, NamesHaveDirs
    <3>2. file' = file BY <2>1, <2>4, <3>1
    <3>3. \A j \in DOMAIN view[m] :
            purge = "yes" /\ Unlinks(view[m][j].bits) /\ view[m][j].path.dir \in Newer
      BY <1>2, <1>3, <2>4 DEF FreshIn
    <3>. QED BY <1>2, <2>1, <2>2, <2>4, <3>2, <3>3 DEF FreshIn
  <2>5. CASE m = k /\ file[m] # None
    <3>1. DOMAIN view[m] = {1} /\ view[m][1].path = file[m] /\ file[m].dir \in Dirs
      BY <1>2, <1>3, <2>5, InSync
    <3>2. i = 1 /\ file[k] = h.path BY <1>2, <2>5, <3>1
    <3>3. seen[h.path.dir] # clock /\ purge = "yes"
      <4>1. purge \in {"yes", "no"} BY <1>1 DEF MaildirTypeOK
      <4>. QED BY <1>3, <2>1, <2>5, <3>2, <4>1
    <3>4. h.path.dir \in Newer' BY <1>1, <1>2, <2>1, <3>2, <3>3, NewerGrows
    <3>5. file'[m] = None BY <1>1, <2>1, <2>5, <3>2, Typed
    <3>6. \A j \in DOMAIN view'[m] : j = 1 /\ view'[m][j] = h BY <2>1, <2>5, <3>1, <3>2
    <3> HIDE DEF h
    <3>. QED BY <1>2, <2>1, <3>3, <3>4, <3>5, <3>6 DEF FreshIn
  <2>. QED BY <2>3, <2>4, <2>5
<1>5. CASE SkipMessage(k, i)
  <2>1. /\ ~Unlinks(h.bits) /\ (NeedsSync(h.bits) => NameOf(h.bits) = h.path)
        /\ todo' = todo \ {<<k, i>>}
        /\ UNCHANGED <<dirVars, pc, why, view, ctx, seen, mask, scan, purge, raced, said>>
    BY <1>5 DEF SkipMessage
  <2>2. Newer' = Newer BY <2>1 DEF Newer, dirVars
  <2>3. CASE m # k \/ file[m] = None \/ <<m, 1>> \notin todo \/ <<m, 1>> \in todo'
    <3>1. CASE m # k \/ <<m, 1>> \notin todo \/ <<m, 1>> \in todo'
      <4>1. <<m, 1>> \in todo => <<m, 1>> \in todo' BY <2>1, <3>1
      <4>. QED BY <1>3, <2>1, <2>2, <4>1, FreshStays DEF dirVars
    <3>2. CASE file[m] = None
      BY <1>2, <1>3, <2>1, <2>2, <3>2 DEF FreshIn, dirVars
    <3>. QED BY <2>3, <3>1, <3>2
  <2>4. CASE m = k /\ file[m] # None
    <3>1. DOMAIN view[m] = {1} BY <1>2, <1>3, <2>4, InSync
    <3>2. i = 1 BY <1>2, <2>4, <3>1
    <3>3. Done(view[m][1])
      <4>1. ASSUME "changed" \in h.bits PROVE Shown(h.bits) = Shown(ParseFlags(h.path))
        <5>1. NeedsSync(h.bits) BY <4>1 DEF NeedsSync
        <5>2. NameOf(h.bits) = h.path BY <2>1, <5>1
        <5>. QED BY <1>2, <5>2, NamesSayFlags
      <4>. QED BY <2>1, <2>4, <3>2, <4>1 DEF Done
    <3>4. KnownIn(file[m], view[m], Dirs) BY <1>2, <1>3, <2>4 DEF FreshIn
    <3>. QED BY <1>2, <2>1, <2>4, <3>3, <3>4 DEF FreshIn, dirVars
  <2>. QED BY <2>3, <2>4
<1>6. CASE RenameMessage(k, i)
  <2> DEFINE nm == NameOf(h.bits)
  <2>1. /\ ~Unlinks(h.bits) /\ file[k] = h.path /\ file' = [file EXCEPT ![k] = nm]
        /\ Touch({h.path.dir, nm.dir}) /\ todo' = todo \ {<<k, i>>}
        /\ UNCHANGED <<born, clock, events, pc, why, ctx, seen, mask, scan, purge, raced, said>>
    BY <1>6 DEF RenameMessage
  <2>2. /\ \A j \in Msgs : Len(view'[j]) = Len(view[j]) /\ DOMAIN view'[j] = DOMAIN view[j]
        /\ \A j \in Msgs : j # k => view'[j] = view[j]
        /\ view'[k][i].bits = NoteTrash(h.bits) /\ view'[k][i].path = nm
    BY <1>6, Renamed
  <2>3. nm \in Names BY <1>2 DEF NameOf, Names, Dirs
  <2>4. CASE m # k
    <3>1. file'[m] = file[m] /\ view'[m] = view[m] BY <1>1, <2>1, <2>2, <2>4, Typed
    <3>2. <<m, 1>> \in todo => <<m, 1>> \in todo' BY <2>1, <2>4
    <3>3. Newer \subseteq Newer' BY <1>1, <2>1, NewerGrows
    <3>. QED BY <1>3, <2>1, <3>1, <3>2, <3>3, FreshStays
  <2>5. CASE m = k
    <3>1. file[m] # None BY <1>2, <2>1, <2>5, NamesHaveDirs
    <3>2. DOMAIN view[m] = {1} /\ Len(view[m]) = 1 BY <1>2, <1>3, <3>1, InSync
    <3>3. i = 1 BY <1>2, <2>5, <3>2
    <3>4. file'[m] = nm BY <1>1, <2>1, <2>5, Typed
    <3>5. /\ Shown(ParseFlags(nm)) = Shown(h.bits) /\ Shown(NoteTrash(h.bits)) = Shown(h.bits)
          /\ "T" \in nm.flags <=> "deleted" \in h.bits
      BY <1>2, NamesSayFlags
    <3>6. /\ "trash" \in NoteTrash(h.bits) <=> "deleted" \in h.bits
          /\ "deleted" \in NoteTrash(h.bits) <=> "deleted" \in h.bits
      BY DEF NoteTrash
    <3>7. nm # None BY <2>3 DEF Names, None, Dirs
    <3>8. /\ DOMAIN view'[m] = {1} /\ Len(view'[m]) = 1
          /\ view'[m][1].bits = NoteTrash(h.bits) /\ view'[m][1].path = nm
      BY <2>2, <2>5, <3>2, <3>3
    <3> HIDE DEF nm, h
    <3>9. KnownIn(nm, view'[m], Dirs) BY <3>5, <3>6, <3>8 DEF KnownIn
    <3>10. Done(view'[m][1]) BY <2>1, <3>5, <3>6, <3>8 DEF Done, Unlinks
    <3>. QED BY <1>2, <2>1, <3>4, <3>7, <3>9, <3>10 DEF FreshIn
  <2>. QED BY <2>4, <2>5
<1>7. CASE RenameFails(k, i)
  <2>1. /\ ~Unlinks(h.bits) /\ file[k] # h.path /\ pc' = "idle"
        /\ UNCHANGED <<dirVars, ctx, seen, raced, said>>
    BY <1>7 DEF RenameFails, Idle
  <2>2. Newer' = Newer /\ file' = file BY <2>1 DEF Newer, dirVars
  <2>3. m # k
    <3>1. ASSUME m = k, file[m] = None PROVE FALSE BY <1>2, <1>3, <2>1, <3>1 DEF FreshIn
    <3>2. ASSUME m = k, file[m] # None PROVE FALSE
      <4>1. DOMAIN view[m] = {1} /\ view[m][1].path = file[m] BY <1>2, <1>3, <3>2, InSync
      <4>. QED BY <1>2, <2>1, <3>2, <4>1
    <3>. QED BY <3>1, <3>2
  <2>4. view'[m] = view[m] BY <1>7, <2>3, Renamed
  <2>5. KnownIn(file[m], view[m], Dirs \ Newer)
    <3>1. CASE file[m] = None
      <4>1. \A j \in DOMAIN view[m] : view[m][j].path.dir \in Newer
        BY <1>2, <1>3, <3>1 DEF FreshIn
      <4>. QED BY <3>1, <4>1, NothingKnown DEF KnownIn
    <3>2. CASE file[m] # None
      <4>1. KnownIn(file[m], view[m], Dirs) BY <1>2, <1>3, <3>2 DEF FreshIn
      <4>. QED BY <4>1, KnownLess
    <3>. QED BY <3>1, <3>2
  <2>. QED BY <2>1, <2>2, <2>4, <2>5 DEF FreshIn
<1>. QED BY <1>4, <1>5, <1>6, <1>7 DEF MessageStep

LEMMA FreshEnd ==
  ASSUME ShapeInv, FreshInv, SyncEnd, ~Closed, NEW m \in Msgs \ raced'
  PROVE  FreshIn(m)'
<1>1. MaildirTypeOK BY DEF ShapeInv
<1>2. /\ pc = "syncing" /\ todo = {} /\ pc' = "idle" /\ seen' = mtime /\ UNCHANGED <<dirVars, raced>>
      /\ \/ purge = "no" /\ view' = view
         \/ view' = [k \in Msgs |-> Cleaned(view[k])]
  BY SyncEnds
<1>3. FreshIn(m) /\ view[m] \in Seq(Header) /\ Len(view[m]) <= 2
  BY <1>1, <1>2, Typed DEF FreshInv
<1>4. Dirs \ Newer' = Dirs
  <2>1. \A d \in Dirs : mtime[d] \in Int BY <1>1, MaildirAssumption DEF MaildirTypeOK
  <2>. QED BY <1>2, <2>1 DEF Newer, dirVars
<1>5. KnownIn(file[m], view'[m], Dirs)
  <2>1. CASE file[m] = None
    <3>1. \A i \in DOMAIN view[m] : purge = "yes" /\ Unlinks(view[m][i].bits)
      BY <1>2, <1>3, <2>1 DEF FreshIn
    <3>2. view'[m] = <<>>
      <4>1. CASE purge = "no" /\ view' = view
        <5>1. view[m] = <<>> BY <1>3, <3>1, <4>1, Lengths
        <5>. QED BY <4>1, <5>1
      <4>2. CASE view' = [k \in Msgs |-> Cleaned(view[k])]
        <5>1. Cleaned(view[m]) = <<>> BY <1>3, <3>1, Cleaning
        <5>. QED BY <4>2, <5>1
      <4>. QED BY <1>2, <4>1, <4>2
    <3>. QED BY <2>1, <3>2, NothingKnown
  <2>2. CASE file[m] # None
    <3> DEFINE h == view[m][1]
    <3>1. /\ Len(view[m]) = 1 /\ h.path = file[m]
          /\ "changed" \notin h.bits => Shown(h.bits) = Shown(ParseFlags(file[m]))
          /\ "trash" \in h.bits <=> "T" \in file[m].flags
          /\ Done(h)
      BY <1>2, <1>3, <2>2, InSync
    <3>2. CASE view' = view BY <1>2, <1>3, <2>2, <3>2 DEF FreshIn
    <3>3. CASE view' = [k \in Msgs |-> Cleaned(view[k])]
      <4> DEFINE w == Cleaned(view[m])
      <4>1. /\ w \in Seq(Header) /\ Len(w) = 1 /\ w[1].path = file[m]
            /\ w[1].bits = h.bits \ {"changed"}
        BY <1>3, <3>1, Cleaning DEF Done
      <4>2. view'[m] = w BY <3>3
      <4>3. Shown(h.bits) = Shown(ParseFlags(file[m])) BY <3>1 DEF Done
      <4>4. Shown(h.bits \ {"changed"}) = Shown(h.bits) BY DEF Shown
      <4> HIDE DEF w, h
      <4>5. DOMAIN w = {1} BY <4>1
      <4>. QED BY <3>1, <4>1, <4>2, <4>3, <4>4, <4>5 DEF KnownIn
    <3>. QED BY <1>2, <3>2, <3>3
  <2>. QED BY <2>1, <2>2
<1>. QED BY <1>2, <1>4, <1>5 DEF FreshIn, dirVars

-----------------------------------------------------------------------------
(* The theorems *)

LEMMA InvInit == Init => MaildirInv
<1> SUFFICES ASSUME Init PROVE MaildirInv OBVIOUS
<1>1. \E k \in 0..N : born = 1..k BY DEF Init
<1>2. born \subseteq Msgs BY <1>1, MaildirAssumption DEF Msgs
<1>3. /\ file \in [Msgs -> Names \cup {None}] /\ pc = "closed" /\ why = "check"
      /\ mtime = [d \in Dirs |-> 0] /\ clock = 0 /\ events = 0
      /\ view = [m \in Msgs |-> <<>>] /\ ctx = [changed |-> 0, deleted |-> 0]
      /\ seen = [d \in Dirs |-> 0] /\ mask = {} /\ scan = [m \in Msgs |-> None] /\ todo = {}
      /\ purge = "yes" /\ raced = {} /\ said = [m \in Msgs |-> "-"]
  BY MaildirAssumption DEF Init, Nothing
<1>4. /\ view \in [Msgs -> Seq(Header)] /\ \A m \in Msgs : Len(view[m]) <= 2 /\ view[m] = <<>>
  <2>1. <<>> \in Seq(Header) /\ Len(<<>>) <= 2 OBVIOUS
  <2>. QED BY <1>3, <2>1
<1>5. MaildirTypeOK BY <1>2, <1>3, <1>4, MaildirAssumption DEF MaildirTypeOK
<1>6. PlaceInv BY <1>3 DEF PlaceInv
<1>7. TimeInv BY <1>3 DEF TimeInv
<1>8. SaidInv
  <2>1. Len(<<>>) # 1 OBVIOUS
  <2>. QED BY <1>3, <1>4, <2>1 DEF SaidInv, SaidIn
<1>9. FreshInv BY <1>3 DEF FreshInv, FreshIn
<1>. QED BY <1>5, <1>6, <1>7, <1>8, <1>9 DEF MaildirInv, ShapeInv

LEMMA FreshKept == ASSUME MaildirInv, Next PROVE FreshInv'
<1>1. ShapeInv /\ TimeInv /\ SaidInv /\ FreshInv BY DEF MaildirInv
<1>2. SUFFICES ASSUME NEW m \in Msgs \ raced' PROVE FreshIn(m)' BY DEF FreshInv
<1>3. CASE OtherStep BY <1>1, <1>2, <1>3, FreshOthers
<1>4. CASE Tick
  <2>1. UNCHANGED <<file, mtime, pc, view, seen, mask, scan, todo, purge, raced>> BY <1>4 DEF Tick
  <2>2. FreshIn(m) /\ Newer' = Newer BY <1>1, <1>2, <2>1 DEF FreshInv, Newer
  <2>. QED BY <1>2, <2>1, <2>2, FreshStays
<1>5. CASE OpenNew \/ OpenCur BY <1>1, <1>2, <1>5, FreshOpening
<1>6. CASE Check
  <2>1. Kin(view[m], view'[m])
    <3>1. view' = view /\ view[m] \in Seq(Header) BY <1>1, <1>6, Typed DEF Check, ShapeInv
    <3>. QED BY <3>1 DEF Kin
  <2>. QED BY <1>1, <1>2, <1>6, <2>1, FreshChecking DEF Check, dirVars
<1>7. CASE CheckCur BY <1>1, <1>2, <1>7, FreshChecked
<1>8. ASSUME Closed PROVE FreshIn(m)' BY <1>8 DEF Closed, FreshIn
<1>9. CASE SyncEnd BY <1>1, <1>2, <1>8, <1>9, FreshEnd
<1>10. CASE CloseUnchanged BY <1>8, <1>10 DEF CloseUnchanged
<1>11. CASE \E k \in Msgs, i \in 1..2, cmd \in Commands :
              ChangeStatus(cmd, k, i) \/ DeleteOrUndelete(cmd, k, i)
  BY <1>1, <1>2, <1>11, FreshCommand
<1>12. CASE \E ans \in {"yes", "no"}, wh \in {"sync", "close"} : StartSync(ans, wh)
  BY <1>1, <1>2, <1>12, FreshSyncing
<1>13. CASE \E k \in Msgs, i \in 1..2 : MessageStep(k, i)
  BY <1>1, <1>2, <1>13, FreshMessage
<1>. QED BY <1>1, <1>3, <1>4, <1>5, <1>6, <1>7, <1>9, <1>10, <1>11, <1>12, <1>13, Steps

LEMMA InvNext == MaildirInv /\ [Next]_vars => MaildirInv'
<1> SUFFICES ASSUME MaildirInv, [Next]_vars PROVE MaildirInv' OBVIOUS
<1>1. CASE Next
  <2>1. ShapeInv /\ TimeInv /\ SaidInv /\ FreshInv BY DEF MaildirInv
  <2>2. ShapeInv' /\ SaidInv' BY <1>1, <2>1, SaidKept
  <2>3. TimeInv' BY <1>1, <2>1, TimeKept
  <2>4. FreshInv' BY <1>1, FreshKept
  <2>. QED BY <2>2, <2>3, <2>4 DEF MaildirInv
<1>2. CASE UNCHANGED vars
  <2>1. UNCHANGED <<file, born, mtime, clock, events, pc, why, view, ctx, seen, mask, scan, todo,
                    purge, raced, said>>
    BY <1>2 DEF vars, dirVars
  <2>2. ShapeInv' BY <2>1 DEF MaildirInv, ShapeInv, MaildirTypeOK, PlaceInv
  <2>3. TimeInv' /\ SaidInv' BY <2>1 DEF MaildirInv, TimeInv, SaidInv
  <2>4. FreshInv'
    <3>1. Newer' = Newer BY <2>1 DEF Newer
    <3>2. ASSUME NEW m \in Msgs \ raced' PROVE FreshIn(m)'
      <4>1. m \in Msgs /\ FreshIn(m) BY <2>1, <3>2 DEF MaildirInv, FreshInv
      <4>. QED BY <2>1, <3>1, <4>1, FreshStays
    <3>. QED BY <3>2 DEF FreshInv
  <2>. QED BY <2>2, <2>3, <2>4 DEF MaildirInv
<1>. QED BY <1>1, <1>2

(* The folder, the headers and the notes of a check or a sync are of their   *)
(* types in every state, and no message ever has more than two headers.      *)
THEOREM MaildirTypeCorrect == SafetySpec => []MaildirTypeOK
<1>1. MaildirInv => MaildirTypeOK BY DEF MaildirInv, ShapeInv
<1>. QED BY InvInit, InvNext, <1>1, PTL DEF SafetySpec

(* If the times of the directories give no reason to scan them, then muttng  *)
(* shows exactly the messages that are there, but for those it has missed.   *)
THEOREM ViewAlwaysFresh == SafetySpec => []ViewFresh
<1>1. ASSUME MaildirInv PROVE ViewFresh
  <2>1. SUFFICES ASSUME pc = "idle", Newer = {}, NEW m \in Msgs \ raced
                 PROVE  IF file[m] = None THEN view[m] = <<>>
                        ELSE /\ Len(view[m]) = 1 /\ view[m][1].path = file[m]
                             /\ "changed" \notin view[m][1].bits
                                  => Shown(view[m][1].bits) = Shown(ParseFlags(file[m]))
    BY DEF ViewFresh
  <2>2. MaildirTypeOK /\ FreshIn(m) BY <1>1 DEF MaildirInv, ShapeInv, FreshInv
  <2>3. Dirs \ Newer = Dirs BY <2>1
  <2>4. KnownIn(file[m], view[m], Dirs) BY <2>1, <2>2, <2>3 DEF FreshIn
  <2>5. view[m] \in Seq(Header) /\ file[m] \in Names \cup {None} BY <2>2, Typed
  <2>6. CASE file[m] = None
    <3>1. \A h \in Header : h.path.dir \in Dirs BY DEF Header, Names
    <3>2. \A i \in DOMAIN view[m] : view[m][i].path.dir \in Dirs BY <2>5, <3>1, Lengths
    <3>3. \A i \in DOMAIN view[m] : FALSE BY <2>4, <2>6, <3>2, NothingKnown DEF KnownIn
    <3>. QED BY <2>5, <2>6, <3>3, Lengths
  <2>7. CASE file[m] # None
    <3>1. file[m].dir \in Dirs BY <2>5, <2>7, NamesHaveDirs
    <3>. QED BY <2>4, <2>7, <3>1 DEF KnownIn
  <2>. QED BY <2>6, <2>7
<1>. QED BY InvInit, InvNext, <1>1, PTL DEF SafetySpec

(* The user's last word on a message's deletion stands, whatever names other *)
(* programs give to the file, unless they have deleted or undeleted it.      *)
THEOREM DeletionsAreKept == SafetySpec => []DeletionKept
<1>1. MaildirInv => DeletionKept BY DEF MaildirInv, SaidInv, SaidIn, DeletionKept
<1>. QED BY InvInit, InvNext, <1>1, PTL DEF SafetySpec

(* A sync removes a message only if the user has deleted it, or another      *)
(* program has marked it as trashed and the user has not undeleted it.       *)
THEOREM OnlyDeletedAreRemoved == SafetySpec => OnlyDeletedRemoved
<1> DEFINE Kept(m) ==
      pc = "syncing" /\ todo' # todo /\ file[m] # None /\ file'[m] = None =>
        said[m] = "delete" \/ (said[m] = "-" /\ "T" \in file[m].flags)
<1>1. ASSUME MaildirInv, Next, NEW m \in Msgs \ raced,
             pc = "syncing", todo' # todo, file[m] # None, file'[m] = None
      PROVE  said[m] = "delete" \/ (said[m] = "-" /\ "T" \in file[m].flags)
  <2>1. ShapeInv /\ SaidInv /\ FreshIn(m) /\ MaildirTypeOK
    BY <1>1 DEF MaildirInv, FreshInv, ShapeInv
  <2>2. PICK k \in Msgs, i \in 1..2 : UnlinkMessage(k, i) /\ k = m
    <3>1. CASE OtherStep
      <4>1. todo' = todo BY <2>1, <3>1, OtherSteps DEF OtherChange
      <4>. QED BY <1>1, <4>1
    <3>2. CASE Tick BY <1>1, <3>2 DEF Tick
    <3>3. CASE OpenNew \/ OpenCur \/ Check \/ CheckCur \/ CloseUnchanged
               \/ \E ans \in {"yes", "no"}, wh \in {"sync", "close"} : StartSync(ans, wh)
      BY <1>1, <3>3 DEF OpenNew, OpenCur, Check, CheckCur, CloseUnchanged, StartSync
    <3>4. CASE SyncEnd BY <1>1, <3>4 DEF SyncEnd, dirVars
    <3>5. CASE \E k \in Msgs, i \in 1..2, cmd \in Commands :
                 ChangeStatus(cmd, k, i) \/ DeleteOrUndelete(cmd, k, i)
      BY <1>1, <3>5 DEF ChangeStatus, DeleteOrUndelete
    <3>6. ASSUME NEW k \in Msgs, NEW i \in 1..2, MessageStep(k, i)
          PROVE  UnlinkMessage(k, i) /\ k = m
      <4>1. CASE UnlinkMessage(k, i)
        <5>1. file' = file \/ file' = [file EXCEPT ![k] = None] BY <4>1 DEF UnlinkMessage
        <5>. QED BY <1>1, <2>1, <4>1, <5>1, Typed
      <4>2. CASE SkipMessage(k, i) BY <1>1, <4>2 DEF SkipMessage, dirVars
      <4>3. CASE RenameMessage(k, i)
        <5>1. file' = [file EXCEPT ![k] = NameOf(view[k][i].bits)] BY <4>3 DEF RenameMessage
        <5>2. NameOf(view[k][i].bits) # None BY DEF NameOf, None
        <5>. QED BY <1>1, <2>1, <5>1, <5>2, Typed
      <4>4. CASE RenameFails(k, i) BY <1>1, <4>4 DEF RenameFails, dirVars
      <4>. QED BY <3>6, <4>1, <4>2, <4>3, <4>4 DEF MessageStep
    <3>. QED BY <1>1, <2>1, <3>1, <3>2, <3>3, <3>4, <3>5, <3>6, Steps
  <2>3. /\ DOMAIN view[m] = {1} /\ Len(view[m]) = 1
        /\ "trash" \in view[m][1].bits <=> "T" \in file[m].flags
    BY <1>1, <2>1, InSync
  <2>4. i = 1
    <3>1. MessageStep(k, i) BY <2>2 DEF MessageStep
    <3>2. i \in DOMAIN view[m] BY <2>1, <2>2, <3>1, MessageSteps
    <3>. QED BY <2>3, <3>2
  <2>5. "deleted" \in view[m][1].bits BY <2>2, <2>4 DEF UnlinkMessage, Unlinks
  <2>6. SaidIn(view[m], said[m]) /\ said[m] \in {"-", "delete", "undelete"}
    BY <1>1, <2>1, Typed DEF SaidInv
  <2>. QED BY <2>3, <2>5, <2>6 DEF SaidIn
<1>2. MaildirInv /\ [Next]_vars => [\A m \in Msgs \ raced : Kept(m)]_vars
  <2> SUFFICES ASSUME MaildirInv, Next PROVE \A m \in Msgs \ raced : Kept(m) OBVIOUS
  <2>. QED BY <1>1
<1>3. MaildirInv /\ [Next]_vars =>
        [\A m \in Msgs \ raced :
           pc = "syncing" /\ todo' # todo /\ file[m] # None /\ file'[m] = None =>
             said[m] = "delete" \/ (said[m] = "-" /\ "T" \in file[m].flags)]_vars
  BY <1>2
<1>. QED BY InvInit, InvNext, <1>3, PTL DEF SafetySpec, OnlyDeletedRemoved

-----------------------------------------------------------------------------
(* ctx->changed, the count of changed headers in one bit *)

(* Where the changed ones of the headers v are. *)
ChangedAt(v) == {i \in 1..2 : i \in DOMAIN v /\ "changed" \in v[i].bits}

(* If ctx->changed is 0, an even number of headers are changed. *)
EvenInv == ctx.changed = 0 => HowMany(view, "changed") % 2 = 0

LEMMA SameCount ==
  ASSUME NEW v, NEW w, \A m \in Msgs : ChangedAt(v[m]) = ChangedAt(w[m])
  PROVE  HowMany(v, "changed") = HowMany(w, "changed")
<1> DEFINE X(u) == {x \in Msgs \X (1..2) : x[2] \in ChangedAt(u[x[1]])}
<1>1. \A u : {x \in Msgs \X (1..2) : x[2] \in DOMAIN u[x[1]] /\ "changed" \in u[x[1]][x[2]].bits} = X(u)
  BY DEF ChangedAt
<1>2. X(v) = X(w) OBVIOUS
<1>. QED BY <1>1, <1>2 DEF HowMany

LEMMA NoneCounted ==
  ASSUME NEW v, \A m \in Msgs : ChangedAt(v[m]) = {} PROVE HowMany(v, "changed") = 0
<1> DEFINE X == {x \in Msgs \X (1..2) : x[2] \in DOMAIN v[x[1]] /\ "changed" \in v[x[1]][x[2]].bits}
<1>1. X = {} BY DEF ChangedAt
<1>. QED BY <1>1, FS_EmptySet DEF HowMany

(* Headers that are added are not changed. *)
LEMMA CleanAdded ==
  ASSUME NEW v \in Seq(Header), NEW d \in Seq(Header),
         \A i \in DOMAIN d : "changed" \notin d[i].bits
  PROVE  ChangedAt(v \o d) = ChangedAt(v)
<1>1. /\ Len(v \o d) = Len(v) + Len(d) /\ Len(v) \in Nat /\ Len(d) \in Nat
      /\ v \o d \in Seq(Header)
  BY ConcatProperties, Lengths
<1>2. \A i \in 1..Len(v) + Len(d) : (v \o d)[i] = IF i <= Len(v) THEN v[i] ELSE d[i - Len(v)]
  BY ConcatProperties
<1> DEFINE w == v \o d
<1>3. DOMAIN w = 1..Len(v) + Len(d) /\ DOMAIN v = 1..Len(v) /\ DOMAIN d = 1..Len(d)
  BY <1>1, Lengths
<1>4. \A i \in DOMAIN w : w[i] = IF i <= Len(v) THEN v[i] ELSE d[i - Len(v)] BY <1>2, <1>3
<1> HIDE DEF w
<1>5. ASSUME NEW i \in 1..2 PROVE i \in ChangedAt(w) <=> i \in ChangedAt(v)
  <2>1. CASE i \in DOMAIN v
    <3>1. i \in DOMAIN w /\ i <= Len(v) BY <1>1, <1>3, <2>1
    <3>. QED BY <1>4, <2>1, <3>1 DEF ChangedAt
  <2>2. CASE i \notin DOMAIN v
    <3>1. ASSUME i \in DOMAIN w PROVE "changed" \notin w[i].bits
      <4>1. i \in Int /\ ~(i <= Len(v)) /\ i - Len(v) \in DOMAIN d
        BY <1>1, <1>3, <2>2, <3>1
      <4>. QED BY <1>4, <3>1, <4>1
    <3>. QED BY <2>2, <3>1 DEF ChangedAt
  <2>. QED BY <2>1, <2>2
<1>. QED BY <1>5 DEF ChangedAt, w

(* A check changes no header, and adds none that is changed; it may remove   *)
(* some.                                                                     *)
LEMMA CheckedChanged ==
  ASSUME MaildirTypeOK, PlaceInv, NEW m \in Msgs
  PROVE  /\ ChangedAt(Checked(m)) = ChangedAt(Active(m))
         /\ ~(Len(Active(m)) < Len(view[m])) => ChangedAt(Active(m)) = ChangedAt(view[m])
<1> DEFINE v == view[m]
           a == Active(m)
           d == Added(m)
           nm == Entries(m)[1]
<1>1. v \in Seq(Header) /\ Len(v) <= 2 /\ Len(v) \in Nat BY Typed, Lengths
<1>2. a \in Seq(Header) /\ d \in Seq(Header) BY CheckedTyped
<1>3. d = <<>> \/ (file[m] \in Names /\ d = <<NewHeader(file[m])>>) BY CheckedWays
<1>4. \A i \in DOMAIN d : "changed" \notin d[i].bits
  <2>1. CASE d = <<>> BY <2>1
  <2>2. CASE file[m] \in Names /\ d = <<NewHeader(file[m])>> BY <2>2, NewHeaders
  <2>. QED BY <1>3, <2>1, <2>2
<1>5. ChangedAt(Checked(m)) = ChangedAt(a) BY <1>2, <1>4, CleanAdded DEF Checked
<1>6. ASSUME v # <<>>, nm \in Names, a = MergedFirst(v, nm) PROVE ChangedAt(a) = ChangedAt(v)
  <2>1. v[1] \in Header BY <1>1, <1>6, Lengths
  <2>2. "changed" \in Merge(v[1], nm).bits <=> "changed" \in v[1].bits BY <1>6, <2>1, Merged
  <2>3. DOMAIN a = DOMAIN v /\ a[1] = Merge(v[1], nm) /\ \A i \in DOMAIN v : i # 1 => a[i] = v[i]
    BY <1>1, <1>6, FirstMerged DEF MergedFirst
  <2> HIDE DEF a, v, nm
  <2>. QED BY <2>2, <2>3 DEF ChangedAt
<1>7. ASSUME v # <<>>, nm \in Names, a = <<Merge(v[1], nm)>>, Len(v) = 1
      PROVE  ChangedAt(a) = ChangedAt(v)
  <2>1. v[1] \in Header BY <1>1, <1>7, Lengths
  <2>2. "changed" \in Merge(v[1], nm).bits <=> "changed" \in v[1].bits BY <1>7, <2>1, Merged
  <2>3. DOMAIN a = {1} /\ DOMAIN v = {1} /\ a[1] = Merge(v[1], nm)
    <3>1. DOMAIN v = {1} BY <1>1, <1>7
    <3>. QED BY <1>7, <3>1
  <2> HIDE DEF a, v, nm
  <2>. QED BY <2>2, <2>3 DEF ChangedAt
<1>8. ASSUME ~(Len(a) < Len(v)) PROVE ChangedAt(a) = ChangedAt(v)
  <2>1. CASE a = Keep(v, Staying(v))
    <3>1. Staying(v) \in SUBSET DOMAIN v BY DEF Staying
    <3>2. \/ a = <<>> \/ a = v
          \/ \E i \in Staying(v) : a = <<v[i]>>
      BY <1>1, <2>1, <3>1, Keeps
    <3>3. CASE a = <<>>
      <4>1. Len(a) = 0 BY <3>3
      <4>2. Len(v) = 0 BY <1>1, <1>8, <4>1
      <4>. QED BY <1>1, <3>3, <4>2, Lengths
    <3>4. CASE \E i \in Staying(v) : a = <<v[i]>>
      <4>1. PICK i \in DOMAIN v : a = <<v[i]>> BY <3>1, <3>4
      <4>2. Len(a) = 1 BY <4>1
      <4>3. i \in 1..Len(v) BY <1>1, <4>1, Lengths
      <4>4. i = 1 /\ Len(v) = 1
        <5>1. ASSUME NEW n \in Nat, ~(1 < n), NEW j \in 1..n PROVE j = 1 /\ n = 1 BY <5>1
        <5>2. Len(v) \in Nat /\ ~(1 < Len(v)) BY <1>1, <1>8, <4>2
        <5>. QED BY <4>3, <5>1, <5>2
      <4>5. v = <<v[1]>> BY <1>1, <4>4, Forms
      <4>. QED BY <4>1, <4>4, <4>5
    <3>. QED BY <3>2, <3>3, <3>4
  <2>2. CASE v = <<>> /\ a = <<>> BY <2>2
  <2>3. CASE v # <<>> /\ nm \in Names /\ (a = MergedFirst(v, nm) \/ a = <<Merge(v[1], nm)>>)
    <3>1. CASE a = MergedFirst(v, nm) BY <1>6, <2>3, <3>1
    <3>2. CASE a = <<Merge(v[1], nm)>>
      <4>1. Len(a) = 1 BY <3>2
      <4>2. Len(v) # 0 BY <1>1, <2>3, Lengths
      <4>3. Len(v) = 1
        <5>1. ASSUME NEW n \in Nat, ~(1 < n), n # 0 PROVE n = 1 BY <5>1
        <5>2. Len(v) \in Nat /\ ~(1 < Len(v)) BY <1>1, <1>8, <4>1
        <5>. QED BY <4>2, <5>1, <5>2
      <4>. QED BY <1>7, <2>3, <3>2, <4>3
    <3>. QED BY <2>3, <3>1, <3>2
  <2>. QED BY <2>1, <2>2, <2>3, CheckedWays
<1>. QED BY <1>5, <1>8

LEMMA EvenChecked ==
  ASSUME ShapeInv, EvenInv, CheckCur PROVE EvenInv'
<1> DEFINE kept == [m \in Msgs |-> Active(m)]
           occult == \E m \in Msgs : Len(kept[m]) < Len(view[m])
<1>1. MaildirTypeOK /\ PlaceInv BY DEF ShapeInv
<1>2. ctx'.changed = IF occult THEN HowMany(kept, "changed") % 2 ELSE ctx.changed
  BY DEF CheckCur
<1>3. \A m \in Msgs : ChangedAt(view'[m]) = ChangedAt(kept[m])
  BY <1>1, CheckEnds, CheckedChanged
<1>4. HowMany(view', "changed") = HowMany(kept, "changed") BY <1>3, SameCount
<1>5. ASSUME ~occult PROVE HowMany(view', "changed") = HowMany(view, "changed")
  <2>1. \A m \in Msgs : ChangedAt(kept[m]) = ChangedAt(view[m]) BY <1>1, <1>5, CheckedChanged
  <2>2. HowMany(kept, "changed") = HowMany(view, "changed") BY <2>1, SameCount
  <2>. QED BY <1>4, <2>2
<1> HIDE DEF kept, occult
<1>6. CASE occult BY <1>2, <1>4, <1>6 DEF EvenInv
<1>7. CASE ~occult BY <1>2, <1>5, <1>7 DEF EvenInv
<1>. QED BY <1>6, <1>7

(* A step that changes the headers elsewhere than in "changed". *)
LEMMA EvenStays ==
  ASSUME EvenInv, ctx'.changed = ctx.changed,
         \A m \in Msgs : ChangedAt(view'[m]) = ChangedAt(view[m])
  PROVE  EvenInv'
<1>1. HowMany(view', "changed") = HowMany(view, "changed") BY SameCount
<1>. QED BY <1>1 DEF EvenInv

LEMMA EvenOpening ==
  ASSUME ShapeInv, EvenInv, OpenNew \/ OpenCur PROVE EvenInv'
<1>1. MaildirTypeOK BY DEF ShapeInv
<1>2. PICK d \in Dirs : ReadDir(d) BY DEF OpenNew, OpenCur, Dirs
<1>3. ctx'.changed = ctx.changed BY <1>1, <1>2 DEF ReadDir, MaildirTypeOK
<1>4. ASSUME NEW m \in Msgs PROVE ChangedAt(view'[m]) = ChangedAt(view[m])
  <2>1. view[m] \in Seq(Header) BY <1>1, Typed
  <2>2. CASE file[m].dir = d
    <3> DEFINE h == NewHeader(file[m])
    <3>1. file[m] \in Names /\ view'[m] = Append(view[m], h) BY <1>1, <1>2, <2>2, ReadHeaders
    <3>2. h \in Header /\ "changed" \notin h.bits BY <3>1, HeadersTyped, NewHeaders
    <3> HIDE DEF h
    <3>3. Append(view[m], h) = view[m] \o <<h>> BY <2>1, <3>2, AppendIsConcat
    <3>4. <<h>> \in Seq(Header) /\ \A i \in DOMAIN <<h>> : "changed" \notin <<h>>[i].bits BY <3>2
    <3>. QED BY <2>1, <3>1, <3>3, <3>4, CleanAdded
  <2>3. CASE file[m].dir # d BY <1>1, <1>2, <2>3, ReadHeaders
  <2>. QED BY <2>2, <2>3
<1>. QED BY <1>3, <1>4, EvenStays

LEMMA EvenSyncing ==
  ASSUME ShapeInv, EvenInv, NEW ans \in {"yes", "no"}, NEW wh \in {"sync", "close"},
         StartSync(ans, wh)
  PROVE  EvenInv'
<1>1. MaildirTypeOK BY DEF ShapeInv
<1> DEFINE v == IF wh = "close" THEN MarkedOld(view) ELSE view
           c == IF v # view THEN 1 ELSE ctx.changed
<1>2. view' = Answered(v, ans) /\ ctx'.changed = c BY DEF StartSync
<1>3. view \in [Msgs -> Seq(Header)] BY <1>1, Typed
<1> HIDE DEF v
<1>4. CASE v # view BY <1>2, <1>4 DEF EvenInv
<1>5. CASE v = view
  <2>1. ctx'.changed = ctx.changed BY <1>2, <1>5
  <2>2. ASSUME NEW m \in Msgs PROVE ChangedAt(view'[m]) = ChangedAt(view[m])
    <3>1. CASE ans = "yes" BY <1>2, <1>5, <3>1 DEF Answered
    <3>2. CASE ans = "no"
      <4>1. view'[m] = [i \in DOMAIN view[m] |-> [view[m][i] EXCEPT !.bits = @ \ {"deleted"}]]
        BY <1>2, <1>5, <3>2 DEF Answered
      <4>2. DOMAIN view'[m] = DOMAIN view[m] BY <4>1
      <4>3. ASSUME NEW i \in DOMAIN view[m]
            PROVE  "changed" \in view'[m][i].bits <=> "changed" \in view[m][i].bits
        <5> DEFINE h == view[m][i]
        <5>1. h \in Header BY <1>3, Lengths
        <5>2. view'[m][i] = [h EXCEPT !.bits = h.bits \ {"deleted"}] BY <4>1
        <5> HIDE DEF h
        <5>3. view'[m][i].bits = h.bits \ {"deleted"} BY <5>1, <5>2 DEF Header
        <5>. QED BY <5>3 DEF h
      <4>. QED BY <4>2, <4>3 DEF ChangedAt
    <3>. QED BY <3>1, <3>2
  <2>. QED BY <2>1, <2>2, EvenStays
<1>. QED BY <1>4, <1>5

LEMMA EvenCommand ==
  ASSUME ShapeInv, EvenInv, NEW m \in Msgs, NEW i \in 1..2, NEW cmd,
         ChangeStatus(cmd, m, i) \/ DeleteOrUndelete(cmd, m, i)
  PROVE  EvenInv'
<1>1. MaildirTypeOK BY DEF ShapeInv
<1>2. CASE ChangeStatus(cmd, m, i)
  <2>1. ctx'.changed = 1 BY <1>1, <1>2, StatusChanges
  <2>. QED BY <2>1 DEF EvenInv
<1>3. CASE DeleteOrUndelete(cmd, m, i)
  <2>1. ctx'.changed = ctx.changed BY <1>1, <1>3 DEF DeleteOrUndelete, MaildirTypeOK
  <2>2. PICK b \in SUBSET Bits :
          Flagged(m, i, b) /\ ("changed" \in b <=> "changed" \in view[m][i].bits)
    BY <1>1, <1>3, DeletionChanges
  <2>3. i \in DOMAIN view[m] BY <1>1, <1>3, DeletionChanges
  <2>4. /\ \A k \in Msgs : DOMAIN view'[k] = DOMAIN view[k]
        /\ view'[m][i].bits = b
        /\ \A k \in Msgs : \A j \in DOMAIN view[k] :
             <<k, j>> # <<m, i>> => view'[k][j] = view[k][j]
    BY <1>1, <2>2, <2>3, FlaggedShape
  <2>5. ASSUME NEW k \in Msgs, NEW j \in DOMAIN view[k]
        PROVE  "changed" \in view'[k][j].bits <=> "changed" \in view[k][j].bits
    <3>1. CASE k = m /\ j = i BY <2>2, <2>4, <3>1
    <3>2. CASE <<k, j>> # <<m, i>> BY <2>4, <3>2
    <3>. QED BY <3>1, <3>2
  <2>6. \A k \in Msgs : ChangedAt(view'[k]) = ChangedAt(view[k]) BY <2>4, <2>5 DEF ChangedAt
  <2>. QED BY <2>1, <2>6, EvenStays
<1>. QED BY <1>2, <1>3

LEMMA EvenMessage ==
  ASSUME ShapeInv, EvenInv, NEW m \in Msgs, NEW i \in 1..2, MessageStep(m, i) PROVE EvenInv'
<1>1. ctx' = ctx
  BY DEF MessageStep, UnlinkMessage, SkipMessage, RenameMessage, RenameFails
<1>2. CASE UnlinkMessage(m, i) \/ SkipMessage(m, i)
  <2>1. view' = view BY <1>2 DEF UnlinkMessage, SkipMessage
  <2>. QED BY <1>1, <2>1 DEF EvenInv
<1>3. CASE RenameMessage(m, i) \/ RenameFails(m, i)
  <2>1. /\ \A k \in Msgs : DOMAIN view'[k] = DOMAIN view[k]
        /\ view'[m][i].bits = NoteTrash(view[m][i].bits)
        /\ \A k \in Msgs : \A j \in DOMAIN view[k] :
             <<k, j>> # <<m, i>> => view'[k][j] = view[k][j]
    BY <1>3, Renamed
  <2>2. \A b : "changed" \in NoteTrash(b) <=> "changed" \in b BY DEF NoteTrash
  <2>3. ASSUME NEW k \in Msgs, NEW j \in DOMAIN view[k]
        PROVE  "changed" \in view'[k][j].bits <=> "changed" \in view[k][j].bits
    <3>1. CASE k = m /\ j = i BY <2>1, <2>2, <3>1
    <3>2. CASE <<k, j>> # <<m, i>> BY <2>1, <3>2
    <3>. QED BY <3>1, <3>2
  <2>4. \A k \in Msgs : ChangedAt(view'[k]) = ChangedAt(view[k]) BY <2>1, <2>3 DEF ChangedAt
  <2>. QED BY <1>1, <2>4, EvenStays
<1>. QED BY <1>2, <1>3 DEF MessageStep

(* The headers are freed. *)
LEMMA EvenClosed == ASSUME Closed PROVE EvenInv'
<1>1. \A m \in Msgs : view'[m] = <<>> BY DEF Closed
<1>2. ChangedAt(<<>>) = {} BY DEF ChangedAt
<1>3. HowMany(view', "changed") = 0 BY <1>1, <1>2, NoneCounted
<1>. QED BY <1>3 DEF EvenInv

LEMMA EvenSynced ==
  ASSUME ShapeInv, EvenInv, SyncEnd PROVE EvenInv'
<1>1. CASE Closed BY <1>1, EvenClosed
<1>2. CASE ~Closed
  <2>1. \/ UNCHANGED <<view, ctx>>
        \/ view' = [m \in Msgs |-> Cleaned(view[m])]
    BY <1>2, SyncEnds
  <2>2. CASE UNCHANGED <<view, ctx>> BY <2>2 DEF EvenInv
  <2>3. CASE view' = [m \in Msgs |-> Cleaned(view[m])]
    <3>1. ASSUME NEW m \in Msgs PROVE ChangedAt(Cleaned(view[m])) = {}
      <4> DEFINE u == Remaining(view[m])
      <4>1. u \in Seq(Header)
        <5>1. view[m] \in Seq(Header) /\ Len(view[m]) <= 2 BY Typed DEF ShapeInv
        <5>. QED BY <5>1, Keeps DEF Remaining
      <4>2. Cleaned(view[m]) = [i \in DOMAIN u |-> [u[i] EXCEPT !.bits = @ \ {"changed"}]]
        BY DEF Cleaned
      <4> HIDE DEF u
      <4>3. ASSUME NEW i \in DOMAIN u PROVE "changed" \notin Cleaned(view[m])[i].bits
        <5> DEFINE h == u[i]
        <5>1. h \in Header BY <4>1, Lengths
        <5>2. Cleaned(view[m])[i] = [h EXCEPT !.bits = h.bits \ {"changed"}] BY <4>2
        <5> HIDE DEF h
        <5>3. Cleaned(view[m])[i].bits = h.bits \ {"changed"} BY <5>1, <5>2 DEF Header
        <5>. QED BY <5>3
      <4>4. DOMAIN Cleaned(view[m]) = DOMAIN u BY <4>2
      <4>. QED BY <4>3, <4>4 DEF ChangedAt
    <3>2. HowMany(view', "changed") = 0 BY <2>3, <3>1, NoneCounted
    <3>. QED BY <3>2 DEF EvenInv
  <2>. QED BY <2>1, <2>2, <2>3
<1>. QED BY <1>1, <1>2

LEMMA EvenInit == Init => EvenInv
<1> SUFFICES ASSUME Init PROVE EvenInv OBVIOUS
<1>1. \A m \in Msgs : view[m] = <<>> BY DEF Init
<1>2. ChangedAt(<<>>) = {} BY DEF ChangedAt
<1>3. HowMany(view, "changed") = 0 BY <1>1, <1>2, NoneCounted
<1>. QED BY <1>3 DEF EvenInv

LEMMA EvenNext == MaildirInv /\ EvenInv /\ [Next]_vars => EvenInv'
<1> SUFFICES ASSUME MaildirInv, EvenInv, [Next]_vars PROVE EvenInv' OBVIOUS
<1>1. ShapeInv BY DEF MaildirInv
<1>2. ASSUME UNCHANGED <<view, ctx>> PROVE EvenInv' BY <1>2 DEF EvenInv
<1>3. CASE UNCHANGED vars BY <1>2, <1>3 DEF vars
<1>4. CASE OtherStep
  <2>1. UNCHANGED <<view, ctx>> BY <1>1, <1>4, OtherSteps DEF OtherChange
  <2>. QED BY <1>2, <2>1
<1>5. CASE Tick BY <1>2, <1>5 DEF Tick
<1>6. CASE Check BY <1>2, <1>6 DEF Check
<1>7. CASE CloseUnchanged BY <1>7, EvenClosed DEF CloseUnchanged
<1>. QED BY <1>1, <1>3, <1>4, <1>5, <1>6, <1>7, EvenChecked, EvenOpening, EvenSyncing,
            EvenCommand, EvenMessage, EvenSynced, Steps

(* A header ceases to be marked as changed only when the file's name says    *)
(* what it says, or the file is gone: no check, sync or close drops a        *)
(* change, but for a close that saves nothing although headers are changed,  *)
(* and then it is an even number of them, which is what the one bit of       *)
(* ctx->changed cannot tell from none.                                       *)
THEOREM ChangesAlwaysReachFile == SafetySpec => ChangesReachFile
<1> DEFINE Drops(m) ==
             /\ Len(view[m]) = 1 /\ "changed" \in view[m][1].bits /\ file'[m] # None
             /\ IF pc' = "closed" THEN pc = "idle" => HowMany(view, "changed") % 2 = 1
                ELSE Len(view'[m]) = 1 => "changed" \notin view'[m][1].bits
           Stays(m) == pc' # "closed" /\ Len(view'[m]) = 1 /\ "changed" \in view'[m][1].bits
           Reached(m) == Shown(view[m][1].bits) = Shown(ParseFlags(file'[m]))
<1>1. ASSUME MaildirInv, EvenInv, Next, NEW m \in Msgs \ (raced \cup raced'), Drops(m)
      PROVE  Reached(m)
  <2>1. ShapeInv /\ SaidInv /\ FreshIn(m) /\ MaildirTypeOK /\ PlaceInv
    BY <1>1 DEF MaildirInv, FreshInv, ShapeInv
  <2>2. /\ view[m] \in Seq(Header) /\ Len(view[m]) = 1 /\ DOMAIN view[m] = {1}
        /\ "changed" \in view[m][1].bits /\ pc # "closed"
    <3>1. view[m] \in Seq(Header) /\ Len(view[m]) = 1 /\ "changed" \in view[m][1].bits
      BY <1>1, <2>1, Typed
    <3>2. Len(<<>>) # 1 OBVIOUS
    <3>3. pc # "closed" BY <2>1, <3>1, <3>2 DEF PlaceInv
    <3>4. DOMAIN view[m] = {1} BY <3>1
    <3>. QED BY <3>1, <3>3, <3>4
  <2>3. ~Stays(m) BY <1>1
  <2>4. ASSUME view'[m] = view[m], pc' # "closed" PROVE FALSE BY <2>2, <2>3, <2>4
  <2>5. CASE OtherStep
    <3>1. view' = view /\ pc' = pc BY <2>1, <2>5, OtherSteps DEF OtherChange
    <3>. QED BY <2>2, <2>4, <3>1
  <2>6. CASE Tick BY <2>2, <2>4, <2>6 DEF Tick
  <2>7. CASE OpenNew BY <2>2, <2>7 DEF OpenNew
  <2>8. CASE OpenCur
    <3>1. pc = "opening" BY <2>8 DEF OpenCur
    <3>2. view[m] = IF file[m].dir = "new" THEN <<NewHeader(file[m])>> ELSE <<>>
      BY <2>1, <3>1 DEF FreshIn
    <3>3. file[m].dir = "new"
      <4>1. Len(<<>>) # 1 OBVIOUS
      <4>. QED BY <2>2, <3>2, <4>1
    <3>4. file[m] \in Names BY <2>1, <3>3, Typed, NamesHaveDirs DEF Dirs
    <3>5. view[m][1] = NewHeader(file[m]) BY <3>2, <3>3
    <3>6. "changed" \notin NewHeader(file[m]).bits BY <3>4, NewHeaders
    <3>. QED BY <2>2, <3>5, <3>6
  <2>9. CASE Check
    <3>1. view' = view /\ pc' = "checking" BY <2>1, <2>9, CheckNotes DEF Check
    <3>. QED BY <2>4, <3>1
  <2>10. CASE CheckCur
    <3>1. /\ pc = "checking" /\ view'[m] = Checked(m) /\ file' = file
          /\ pc' = "idle" \/ pc' = "syncing"
      BY <2>1, <2>10, CheckEnds DEF dirVars
    <3>2. Len(Checked(m)) = 1 /\ "changed" \in Checked(m)[1].bits
      BY <1>1, <2>1, <2>2, <3>1, CheckedFresh
    <3>. QED BY <2>3, <3>1, <3>2
  <2>11. CASE SyncEnd
    <3>1. pc = "syncing" /\ todo = {} /\ file' = file BY <2>11 DEF SyncEnd, dirVars
    <3>2. view[m][1].path = file[m] /\ Done(view[m][1])
      BY <1>1, <2>1, <3>1, InSync
    <3>. QED BY <2>2, <3>1, <3>2 DEF Done
  <2>12. CASE CloseUnchanged
    <3>1. pc = "idle" /\ pc' = "closed" /\ ctx.changed = 0 BY <2>12 DEF CloseUnchanged, Closed
    <3>2. HowMany(view, "changed") % 2 = 0 BY <1>1, <3>1 DEF EvenInv
    <3>. QED BY <1>1, <3>1, <3>2
  <2>13. ASSUME NEW k \in Msgs, NEW i \in 1..2, NEW cmd \in Commands,
                ChangeStatus(cmd, k, i) \/ DeleteOrUndelete(cmd, k, i)
         PROVE  FALSE
    <3>1. PICK b \in SUBSET Bits :
            /\ i \in DOMAIN view[k] /\ Flagged(k, i, b) /\ pc' = pc
            /\ "changed" \in view[k][i].bits => "changed" \in b
      BY <2>1, <2>13, StatusChanges, DeletionChanges
    <3>2. /\ Len(view'[m]) = Len(view[m]) /\ view'[k][i].bits = b
          /\ <<m, 1>> # <<k, i>> => view'[m][1] = view[m][1]
      BY <2>1, <2>2, <3>1, FlaggedShape
    <3>3. "changed" \in view'[m][1].bits
      <4>1. CASE m = k /\ i = 1 BY <2>2, <3>1, <3>2, <4>1
      <4>2. CASE <<m, 1>> # <<k, i>> BY <2>2, <3>2, <4>2
      <4>. QED BY <4>1, <4>2
    <3>. QED BY <2>2, <2>3, <3>1, <3>2, <3>3
  <2>14. ASSUME NEW ans \in {"yes", "no"}, NEW wh \in {"sync", "close"}, StartSync(ans, wh)
         PROVE  FALSE
    <3>1. Kin(view[m], view'[m]) BY <2>1, <2>14, SyncBegins
    <3>2. pc' = "syncing" \/ pc' = "checking"
      BY <2>14 DEF StartSync, CheckNothing, BeginSync, CheckNew
    <3>. QED BY <2>2, <2>3, <3>1, <3>2 DEF Kin
  <2>15. ASSUME NEW k \in Msgs, NEW i \in 1..2, MessageStep(k, i) PROVE FALSE
    <3>1. pc = "syncing" /\ i \in DOMAIN view[k] BY <2>1, <2>15, MessageSteps
    <3>2. CASE UnlinkMessage(k, i) BY <2>2, <2>4, <3>2 DEF UnlinkMessage
    <3>3. CASE SkipMessage(k, i) BY <2>2, <2>4, <3>3 DEF SkipMessage
    <3>4. CASE RenameMessage(k, i) \/ RenameFails(k, i)
      <4>1. /\ Len(view'[m]) = Len(view[m])
            /\ <<m, 1>> # <<k, i>> => view'[m][1] = view[m][1]
            /\ view'[k][i].bits = NoteTrash(view[k][i].bits)
        BY <2>1, <2>2, <3>4, Renamed
      <4>2. "changed" \in NoteTrash(view[m][1].bits) BY <2>2 DEF NoteTrash
      <4>3. "changed" \in view'[m][1].bits
        <5>1. CASE m = k /\ i = 1 BY <4>1, <4>2, <5>1
        <5>2. CASE <<m, 1>> # <<k, i>> BY <2>2, <4>1, <5>2
        <5>. QED BY <5>1, <5>2
      <4>4. pc' # "closed" BY <3>1, <3>4 DEF RenameMessage, RenameFails, Idle
      <4>. QED BY <2>2, <2>3, <4>1, <4>3, <4>4
    <3>. QED BY <2>15, <3>2, <3>3, <3>4 DEF MessageStep
  <2>. QED BY <1>1, <2>1, <2>5, <2>6, <2>7, <2>8, <2>9, <2>10, <2>11, <2>12, <2>13, <2>14, <2>15,
              Steps
<1>2. MaildirInv /\ EvenInv /\ [Next]_vars =>
        [\A m \in Msgs \ (raced \cup raced') : Drops(m) => Reached(m)]_vars
  <2> SUFFICES ASSUME MaildirInv, EvenInv, Next
               PROVE  \A m \in Msgs \ (raced \cup raced') : Drops(m) => Reached(m)
    OBVIOUS
  <2>. QED BY <1>1
<1>3. MaildirInv /\ EvenInv /\ [Next]_vars =>
        [\A m \in Msgs \ (raced \cup raced') :
           /\ Len(view[m]) = 1 /\ "changed" \in view[m][1].bits /\ file'[m] # None
           /\ IF pc' = "closed" THEN pc = "idle" => HowMany(view, "changed") % 2 = 1
              ELSE Len(view'[m]) = 1 => "changed" \notin view'[m][1].bits
           => Shown(view[m][1].bits) = Shown(ParseFlags(file'[m]))]_vars
  BY <1>2
<1>. QED BY InvInit, InvNext, EvenInit, EvenNext, <1>3, PTL DEF SafetySpec, ChangesReachFile
=============================================================================
