---------------------------- MODULE ContextProofs ----------------------------
(***************************************************************************)
(* Proofs about the open mailbox and its cached searches, for any number   *)
(* of messages, any set of commands and any score rules: sync and close    *)
(* never take a changed mailbox for unchanged, what is closed is what was  *)
(* on the screen, the counters are right, no message is lost on the way to *)
(* the trash folder, and cached results are right.                         *)
(***************************************************************************)
EXTENDS Search, FiniteSetTheorems, TLAPS

Keys == Counters \cup {"changed"}
Pair == [h : SUBSET Bits, c : [Keys -> Int]]

(* What every way to set a flag does with a header and its context x, which  *)
(* become y: a header that differs from x in what the folder stores is       *)
(* marked as changed, and so is its context; no mark is taken away.          *)
Noticed(x, y) ==
  /\ y \in Pair
  /\ "changed" \notin y.h => "changed" \notin x.h /\ Stored(y.h) = Stored(x.h)
  /\ "changed" \in y.h => "changed" \in x.h \/ y.c["changed"] # 0
  /\ x.c["changed"] # 0 => y.c["changed"] # 0

-----------------------------------------------------------------------------
(* Counting keeps the counters integers and leaves changed alone. *)
LEMMA CountType ==
  ASSUME NEW c \in [Keys -> Int], NEW k \in Counters, NEW d \in Int
  PROVE  Count(c, k, d) \in [Keys -> Int] /\ Count(c, k, d)["changed"] = c["changed"]
BY DEF Count, Keys, Counters

(* The same for two counters. *)
LEMMA CountTwiceType ==
  ASSUME NEW c \in [Keys -> Int], NEW k \in Counters, NEW l \in Counters,
         NEW d \in Int, NEW e \in Int
  PROVE  Count(Count(c, k, d), l, e) \in [Keys -> Int]
<1>1. Count(c, k, d) \in [Keys -> Int]
  BY CountType
<1> QED BY <1>1, CountType

(* Adding or taking away a bit the folder does not store, and counting. *)
LEMMA QuietNoticed ==
  ASSUME NEW x \in Pair, NEW h \in SUBSET Bits, NEW c \in [Keys -> Int],
         \A b \in Status \cup {"changed"} : b \in h <=> b \in x.h,
         c["changed"] = x.c["changed"]
  PROVE  Noticed(x, [h |-> h, c |-> c])
BY DEF Noticed, Pair, Stored, Status

(* Whatever else is done, a touched header is noticed. *)
LEMMA TouchNoticed ==
  ASSUME NEW x \in Pair, NEW h \in SUBSET Bits, NEW c \in [Keys -> Int]
  PROVE  Noticed(x, Touch([h |-> h, c |-> c]))
<1> DEFINE y == Touch([h |-> h, c |-> c])
<1>1. y.h = h \cup {"changed"} /\ y.c = [c EXCEPT !["changed"] = 1]
  BY DEF Touch
<1>2. y \in Pair /\ y.c["changed"] = 1 /\ "changed" \in y.h
  BY <1>1 DEF Touch, Pair, Bits, Keys
<1> QED BY <1>2 DEF Noticed

(* Nothing is done. *)
LEMMA SameNoticed == ASSUME NEW x \in Pair PROVE Noticed(x, x)
BY DEF Noticed

(* One call after another. *)
LEMMA NoticedTrans ==
  ASSUME NEW x, NEW y, NEW z, Noticed(x, y), Noticed(y, z)
  PROVE  Noticed(x, z)
BY DEF Noticed

(* Deletion marks and tags are not stored in the folder. *)
LEMMA SetDeleteNoticed == ASSUME NEW x \in Pair PROVE Noticed(x, SetDelete(x))
<1>1. CASE "deleted" \in x.h
  BY <1>1, SameNoticed DEF SetDelete
<1>2. CASE "deleted" \notin x.h
  <2>1. /\ x.h \cup {"deleted"} \in SUBSET Bits
        /\ Count(x.c, "deleted", 1) \in [Keys -> Int]
        /\ Count(x.c, "deleted", 1)["changed"] = x.c["changed"]
    BY CountType DEF Pair, Bits, Counters
  <2> QED BY <1>2, <2>1, QuietNoticed DEF SetDelete, Status
<1> QED BY <1>1, <1>2

(* Undeleting a message, which clears appended too. *)
LEMMA ClearDeleteNoticed == ASSUME NEW x \in Pair PROVE Noticed(x, ClearDelete(x))
<1>1. CASE "deleted" \notin x.h
  BY <1>1, SameNoticed DEF ClearDelete
<1>2. CASE "deleted" \in x.h
  <2>1. /\ x.h \ {"deleted", "appended"} \in SUBSET Bits
        /\ Count(x.c, "deleted", -1) \in [Keys -> Int]
        /\ Count(x.c, "deleted", -1)["changed"] = x.c["changed"]
    BY CountType DEF Pair, Bits, Counters
  <2> QED BY <1>2, <2>1, QuietNoticed DEF ClearDelete, Status
<1> QED BY <1>1, <1>2

(* Tagging a message. *)
LEMMA SetTagNoticed == ASSUME NEW x \in Pair PROVE Noticed(x, SetTag(x))
<1>1. CASE "tagged" \in x.h
  BY <1>1, SameNoticed DEF SetTag
<1>2. CASE "tagged" \notin x.h
  <2>1. /\ x.h \cup {"tagged"} \in SUBSET Bits
        /\ Count(x.c, "tagged", 1) \in [Keys -> Int]
        /\ Count(x.c, "tagged", 1)["changed"] = x.c["changed"]
    BY CountType DEF Pair, Bits, Counters
  <2> QED BY <1>2, <2>1, QuietNoticed DEF SetTag, Status
<1> QED BY <1>1, <1>2

(* Untagging a message. *)
LEMMA ClearTagNoticed == ASSUME NEW x \in Pair PROVE Noticed(x, ClearTag(x))
<1>1. CASE "tagged" \notin x.h
  BY <1>1, SameNoticed DEF ClearTag
<1>2. CASE "tagged" \in x.h
  <2>1. /\ x.h \ {"tagged"} \in SUBSET Bits
        /\ Count(x.c, "tagged", -1) \in [Keys -> Int]
        /\ Count(x.c, "tagged", -1)["changed"] = x.c["changed"]
    BY CountType DEF Pair, Bits, Counters
  <2> QED BY <1>2, <2>1, QuietNoticed DEF ClearTag, Status
<1> QED BY <1>1, <1>2

(* appended and purged, which have no counter. *)
LEMMA HeaderOnlyNoticed ==
  ASSUME NEW x \in Pair
  PROVE  /\ Noticed(x, SetAppended(x)) /\ Noticed(x, SetPurged(x))
         /\ Noticed(x, ClearPurged(x))
<1>1. \A h \in SUBSET Bits : [x EXCEPT !.h = h] = [h |-> h, c |-> x.c]
  BY DEF Pair
<1>2. x.h \cup {"appended"} \in SUBSET Bits /\ x.h \cup {"purged"} \in SUBSET Bits
      /\ x.h \ {"purged"} \in SUBSET Bits /\ x.c \in [Keys -> Int]
  BY DEF Pair, Bits
<1>3. Noticed(x, [h |-> x.h \cup {"appended"}, c |-> x.c])
  BY <1>2, QuietNoticed DEF Status
<1>4. Noticed(x, [h |-> x.h \cup {"purged"}, c |-> x.c])
  BY <1>2, QuietNoticed DEF Status
<1>5. Noticed(x, [h |-> x.h \ {"purged"}, c |-> x.c])
  BY <1>2, QuietNoticed DEF Status
<1> QED BY <1>1, <1>2, <1>3, <1>4, <1>5 DEF SetAppended, SetPurged, ClearPurged

(* All other cases of the switch end in Touch(), if they do anything. *)
LEMMA MarkReadType == ASSUME NEW x \in Pair PROVE MarkRead(x) \in Pair
<1>1. (IF "old" \in x.h THEN 0 ELSE -1) \in Int
  OBVIOUS
<1>2. Count(Count(x.c, "unread", -1), "new", IF "old" \in x.h THEN 0 ELSE -1) \in [Keys -> Int]
  BY <1>1, CountTwiceType DEF Pair, Counters
<1> QED BY <1>2 DEF MarkRead, Pair, Bits, Status

(* TouchNoticed for a pair. *)
LEMMA TouchPairNoticed == ASSUME NEW x \in Pair, NEW y \in Pair PROVE Noticed(x, Touch(y))
<1>1. y = [h |-> y.h, c |-> y.c] /\ y.h \in SUBSET Bits /\ y.c \in [Keys -> Int]
  BY DEF Pair
<1> QED BY <1>1, TouchNoticed

(* Reading a message, however it is asked for. *)
LEMMA ReadNoticed ==
  ASSUME NEW x \in Pair
  PROVE  Noticed(x, SetRead(x)) /\ Noticed(x, ClearNew(x))
BY MarkReadType, TouchPairNoticed, SameNoticed DEF SetRead, ClearNew

(* Making a message new. *)
LEMMA SetNewNoticed == ASSUME NEW x \in Pair PROVE Noticed(x, SetNew(x))
<1>1. x.h \ {"read", "old"} \in SUBSET Bits
  BY DEF Pair, Bits, Status
<1>2. (IF "read" \in x.h THEN 1 ELSE 0) \in Int
  OBVIOUS
<1>3. Count(Count(x.c, "new", 1), "unread", IF "read" \in x.h THEN 1 ELSE 0) \in [Keys -> Int]
  BY <1>2, CountTwiceType DEF Pair, Counters
<1> QED BY <1>1, <1>3, TouchNoticed, SameNoticed DEF SetNew

(* Making a message unread. *)
LEMMA ClearReadNoticed == ASSUME NEW x \in Pair PROVE Noticed(x, ClearRead(x))
<1>1. x.h \ {"read"} \in SUBSET Bits
  BY DEF Pair, Bits, Status
<1>2. (IF "old" \in x.h THEN 0 ELSE 1) \in Int
  OBVIOUS
<1>3. Count(Count(x.c, "unread", 1), "new", IF "old" \in x.h THEN 0 ELSE 1) \in [Keys -> Int]
  BY <1>2, CountTwiceType DEF Pair, Counters
<1> QED BY <1>1, <1>3, TouchNoticed, SameNoticed DEF ClearRead

(* Making a message old. *)
LEMMA SetOldNoticed == ASSUME NEW x \in Pair PROVE Noticed(x, SetOld(x))
<1>1. x.h \cup {"old"} \in SUBSET Bits
  BY DEF Pair, Bits, Status
<1>2. (IF "read" \in x.h THEN 0 ELSE -1) \in Int
  OBVIOUS
<1>3. Count(x.c, "new", IF "read" \in x.h THEN 0 ELSE -1) \in [Keys -> Int]
  BY <1>2, CountType DEF Pair, Counters
<1> QED BY <1>1, <1>3, TouchNoticed, SameNoticed DEF SetOld

(* Making a message not old. *)
LEMMA ClearOldNoticed == ASSUME NEW x \in Pair PROVE Noticed(x, ClearOld(x))
<1>1. x.h \ {"old"} \in SUBSET Bits
  BY DEF Pair, Bits, Status
<1>2. (IF "read" \in x.h THEN 0 ELSE 1) \in Int
  OBVIOUS
<1>3. Count(x.c, "new", IF "read" \in x.h THEN 0 ELSE 1) \in [Keys -> Int]
  BY <1>2, CountType DEF Pair, Counters
<1> QED BY <1>1, <1>3, TouchNoticed, SameNoticed DEF ClearOld

(* Flagging a message. *)
LEMMA SetFlaggedNoticed == ASSUME NEW x \in Pair PROVE Noticed(x, SetFlagged(x))
<1>1. x.h \cup {"flagged"} \in SUBSET Bits
  BY DEF Pair, Bits, Status
<1>3. Count(x.c, "flagged", 1) \in [Keys -> Int]
  BY CountType DEF Pair, Counters
<1> QED BY <1>1, <1>3, TouchNoticed, SameNoticed DEF SetFlagged

(* Taking the flag away. *)
LEMMA ClearFlaggedNoticed == ASSUME NEW x \in Pair PROVE Noticed(x, ClearFlagged(x))
<1>1. x.h \ {"flagged"} \in SUBSET Bits
  BY DEF Pair, Bits, Status
<1>3. Count(x.c, "flagged", -1) \in [Keys -> Int]
  BY CountType DEF Pair, Counters
<1> QED BY <1>1, <1>3, TouchNoticed, SameNoticed DEF ClearFlagged

(* Marking as replied, which reads the message too, and the converse. *)
LEMMA RepliedNoticed ==
  ASSUME NEW x \in Pair
  PROVE  Noticed(x, SetReplied(x)) /\ Noticed(x, ClearReplied(x))
<1>1. ASSUME NEW y \in Pair
      PROVE  [y EXCEPT !.h = @ \cup {"replied"}] \in Pair
             /\ [y EXCEPT !.h = @ \ {"replied"}] \in Pair
  BY DEF Pair, Bits, Status
<1> DEFINE y == IF "read" \in x.h THEN x ELSE MarkRead(x)
<1>2. y \in Pair
  BY MarkReadType
<1>3. SetReplied(x) = IF "replied" \in x.h THEN x
                      ELSE Touch([y EXCEPT !.h = @ \cup {"replied"}])
  BY DEF SetReplied
<1> HIDE DEF y
<1>4. Noticed(x, SetReplied(x))
  BY <1>1, <1>2, <1>3, TouchPairNoticed, SameNoticed
<1>5. Noticed(x, ClearReplied(x))
  BY <1>1, TouchPairNoticed, SameNoticed DEF ClearReplied
<1> QED BY <1>4, <1>5

(* _mutt_set_flag() with any flag and value. *)
LEMMA SetFlagNoticed == ASSUME NEW x \in Pair, NEW call PROVE Noticed(x, SetFlag(x, call))
<1>1. CASE mode = "ro" /\ call[1] # "TAG"
  BY <1>1, SameNoticed DEF SetFlag
<1>2. CASE ~(mode = "ro" /\ call[1] # "TAG")
  <2> QED BY <1>2, SMTT(60), SameNoticed, SetDeleteNoticed, ClearDeleteNoticed, HeaderOnlyNoticed,
           SetNewNoticed, ReadNoticed, ClearReadNoticed, SetOldNoticed, ClearOldNoticed,
           RepliedNoticed, SetFlaggedNoticed, ClearFlaggedNoticed, SetTagNoticed,
           ClearTagNoticed DEF SetFlag
<1> QED BY <1>1, <1>2

(* A command, which makes up to three calls. *)
LEMMA ApplyNoticed == ASSUME NEW x \in Pair, NEW calls PROVE Noticed(x, Apply(x, calls))
<1> DEFINE y == SetFlag(x, calls[1])
           z == SetFlag(y, calls[2])
<1>1. Noticed(x, y) /\ y \in Pair
  BY SetFlagNoticed DEF Noticed
<1> HIDE DEF y
<1>2. Noticed(y, z) /\ z \in Pair
  BY <1>1, SetFlagNoticed DEF Noticed
<1> HIDE DEF z
<1>3. Noticed(z, SetFlag(z, calls[3]))
  BY <1>2, SetFlagNoticed
<1>4. Apply(x, calls) = SetFlag(z, calls[3])
  BY DEF Apply, y, z
<1> QED BY <1>1, <1>2, <1>3, <1>4, NoticedTrans

-----------------------------------------------------------------------------
(* With bits b, counters c and folder d, message m is not taken for          *)
(* unchanged if it is not.                                                   *)
Faithful(b, c, d, m) ==
  IF "changed" \in b[m] THEN c["changed"] # 0 ELSE Stored(d[m]) = Stored(b[m])

(* The headers that are there: in the middle of reading new mail, also those *)
(* that have been read but not yet counted.                                  *)
Known == here \cup (IF doing = "parse" THEN todo ELSE {})

Changes == \A m \in Known : Faithful(bits, ctx, disk, m)

(* Messages are numbered as they arrive, and before is used by the reading   *)
(* of new mail only.                                                         *)
Numbered ==
  /\ here \subseteq 1..arrived /\ stored \subseteq 1..arrived
  /\ doing = "parse" => todo \subseteq 1..arrived
  /\ doing \notin {"parse", "index"} => before = {}

Inv == TypeOK /\ Numbered /\ Changes

(* The types of the folder, and of all else. *)
FolderTypes ==
  /\ stored \subseteq Msgs
  /\ disk \in [Msgs -> SUBSET (Status \cup {"deleted"})]
  /\ trash \subseteq Msgs /\ saved \subseteq Msgs /\ bypass \subseteq Msgs
  /\ arrived \in 0..N

(* The header of a message and the context are a pair. *)
LEMMA HeaderPair == ASSUME TypeOK, NEW m \in Msgs PROVE Header(m) \in Pair
BY DEF TypeOK, Header, Pair, Keys

(* A flag is set in the header of m, outside the reading of new mail. *)
LEMMA UpdateStep ==
  ASSUME TypeOK, Changes, NEW m \in Msgs, NEW x, Noticed(Header(m), x), Update(m, x),
         here' = here, disk' = disk, doing # "parse", doing' # "parse"
  PROVE  /\ bits' \in [Msgs -> SUBSET Bits]
         /\ ctx' \in [Counters \cup {"changed"} -> Int]
         /\ Changes'
<1>1. x.h \in SUBSET Bits /\ x.c \in [Keys -> Int]
  BY DEF Noticed, Pair
<1>2. bits' \in [Msgs -> SUBSET Bits] /\ bits'[m] = x.h
      /\ \A k \in Msgs \ {m} : bits'[k] = bits[k]
  BY <1>1 DEF Update, TypeOK
<1>3. ctx' \in [Counters \cup {"changed"} -> Int]
  BY <1>1 DEF Update, Keys
<1>4. Header(m).h = bits[m] /\ Header(m).c = ctx
  BY DEF Header
<1>5. Changes'
  <2> SUFFICES ASSUME NEW k \in here PROVE Faithful(bits', ctx', disk, k)
    BY DEF Changes, Known
  <2>1. k \in Msgs /\ Faithful(bits, ctx, disk, k)
    BY DEF Changes, Known, TypeOK
  <2>2. CASE k = m
    BY <1>2, <1>4, <2>1, <2>2 DEF Noticed, Faithful, Update
  <2>3. CASE k # m
    BY <1>2, <1>4, <2>1, <2>3 DEF Noticed, Faithful, Update
  <2> QED BY <2>2, <2>3
<1> QED BY <1>2, <1>3, <1>5

(* New mail begins to be read, with bits b. *)
LEMMA StartParseStep ==
  ASSUME TypeOK, Numbered, NEW b \in [Msgs -> SUBSET Bits], StartParse(b),
         here' = here, disk' = disk,
         \A m \in here : Faithful(b, ctx', disk, m)
  PROVE  /\ bits' \in [Msgs -> SUBSET Bits]
         /\ todo' \subseteq Msgs /\ todo' \subseteq 1..arrived
         /\ before' \subseteq here' /\ doing' = "parse"
         /\ Changes'
<1>1. /\ \A m \in stored \ here : bits'[m] = disk[m]
      /\ \A m \in here : bits'[m] = b[m]
      /\ bits' \in [Msgs -> SUBSET Bits]
  BY DEF StartParse, TypeOK, Bits
<1>2. \A m \in stored \ here : "changed" \notin disk[m]
  BY DEF TypeOK, Status
<1>3. Changes'
  <2> SUFFICES ASSUME NEW m \in here \cup (stored \ here)
               PROVE  Faithful(bits', ctx', disk, m)
    BY DEF Changes, Known, StartParse
  <2> QED BY <1>1, <1>2 DEF Faithful
<1> QED BY <1>1, <1>3 DEF StartParse, TypeOK, Numbered

(* Setting a flag in the header of m keeps all headers faithful. *)
LEMMA ChangedHeader ==
  ASSUME TypeOK, NEW m \in Msgs, NEW x, Noticed(Header(m), x),
         NEW k \in Msgs, Faithful(bits, ctx, disk, k)
  PROVE  Faithful([bits EXCEPT ![m] = x.h], x.c, disk, k)
<1>1. Header(m).h = bits[m] /\ Header(m).c = ctx
  BY DEF Header
<1>2. bits \in [Msgs -> SUBSET Bits]
  BY DEF TypeOK
<1>3. CASE k = m
  BY <1>1, <1>2, <1>3 DEF Noticed, Faithful
<1>4. CASE k # m
  BY <1>1, <1>2, <1>4 DEF Noticed, Faithful
<1> QED BY <1>3, <1>4

(* A new message that is marked makes the context changed. *)
LEMMA CountNewType ==
  ASSUME NEW c \in [Keys -> Int], NEW h \in SUBSET Bits
  PROVE  /\ CountNew(c, h) \in [Keys -> Int]
         /\ "changed" \in h => CountNew(c, h)["changed"] # 0
         /\ c["changed"] # 0 => CountNew(c, h)["changed"] # 0
<1>1. \A k \in Keys : c[k] \in Int /\ c[k] + 1 \in Int
  OBVIOUS
<1> QED BY <1>1 DEF CountNew, Keys

(* A message is counted; b and c are the headers and counters just before. *)
LEMMA ArriveStep ==
  ASSUME Inv, NEW m, NEW b \in [Msgs -> SUBSET Bits], NEW c \in [Keys -> Int],
         NEW s, Arrive(m, b, c, s), idhash' \in {"yes", "no"},
         \A k \in here \cup todo : Faithful(b, c, disk, k)
  PROVE  Inv'
<1> DEFINE x == [h |-> b[m], c |-> c]
           y == Apply(x, ScoreCalls(s))
           h == y.h
<1>1. doing = "parse" /\ m \in todo /\ m \in Msgs
  BY DEF Arrive, Inv, TypeOK
<1>2. x \in Pair /\ x.h = b[m]
  BY <1>1 DEF Pair
<1>3. Noticed(x, y)
  BY <1>2, ApplyNoticed
<1>4. /\ here' = here \cup {m}
      /\ visible' = IF pattern = "all" THEN visible \cup {m} ELSE visible
      /\ bits' = [b EXCEPT ![m] = h] /\ ctx' = CountNew(c, h)
      /\ todo' = todo \ {m} /\ doing' = IF todo = {m} THEN "index" ELSE "parse"
      /\ UNCHANGED <<before, pattern, mode, purge, folderVars>>
  BY DEF Arrive
<1>5. h \in SUBSET Bits
  BY <1>3 DEF Noticed, Pair
<1>6. "changed" \notin h => "changed" \notin b[m] /\ Stored(h) = Stored(b[m])
  BY <1>2, <1>3 DEF Noticed
<1> HIDE DEF h
<1>7. ctx' \in [Counters \cup {"changed"} -> Int]
  BY <1>4, <1>5, CountNewType DEF Keys
<1>8. bits' \in [Msgs -> SUBSET Bits] /\ bits'[m] = h
      /\ \A k \in Msgs \ {m} : bits'[k] = b[k]
  BY <1>1, <1>4, <1>5
<1>9. TypeOK'
  BY <1>1, <1>4, <1>7, <1>8 DEF TypeOK, Inv, folderVars
<1>10. Numbered'
  BY <1>1, <1>4 DEF Numbered, Inv, folderVars
<1>11. Changes'
  <2> SUFFICES ASSUME NEW k \in here \cup todo PROVE Faithful(bits', ctx', disk, k)
    BY <1>1, <1>4 DEF Changes, Known, folderVars
  <2>1. k \in Msgs /\ Faithful(b, c, disk, k)
    BY DEF Inv, TypeOK
  <2>2. CASE k = m
    BY <1>4, <1>5, <1>6, <1>8, <2>1, <2>2, CountNewType DEF Faithful
  <2>3. CASE k # m
    BY <1>4, <1>5, <1>8, <2>1, <2>3, CountNewType DEF Faithful
  <2> QED BY <2>2, <2>3
<1> QED BY <1>9, <1>10, <1>11 DEF Inv

-----------------------------------------------------------------------------
(* One lemma for each kind of action. *)

(* A message arrives: it has no header yet. *)
LEMMA DeliverStep == ASSUME Inv, NEW a \in Arrivals, Deliver(a) PROVE Inv'
<1> USE DEF Inv
<1>1. arrived + 1 \in Msgs /\ arrived + 1 \notin here /\ arrived \in Nat
  BY ContextAssumption DEF Deliver, TypeOK, Msgs, Numbered
<1>2. a \in SUBSET (Status \cup {"deleted"})
  BY ContextAssumption
<1>3. /\ disk' \in [Msgs -> SUBSET (Status \cup {"deleted"})]
      /\ \A m \in here : disk'[m] = disk[m]
  BY <1>1, <1>2 DEF Deliver, TypeOK
<1>4. arrived' = arrived + 1 /\ arrived' \in 0..N /\ 1..arrived \subseteq 1..arrived'
  BY <1>1, ContextAssumption DEF Deliver, TypeOK, Msgs
<1>5. TypeOK'
  BY <1>1, <1>3, <1>4 DEF Deliver, TypeOK, hdrVars
<1>6. Numbered'
  BY <1>1, <1>4 DEF Deliver, Numbered, hdrVars
<1>7. Changes'
  BY <1>3 DEF Deliver, Changes, Known, Faithful, hdrVars
<1> QED BY <1>5, <1>6, <1>7

(* The folder is opened, or has new mail. *)
LEMMA OpenStep ==
  ASSUME Inv, (\E md \in {"rw", "ro"} : Open(md)) \/ CheckMailbox
  PROVE  Inv'
<1> USE DEF Inv
<1>1. StartParse(bits) /\ mode' \in {"rw", "ro", "nowrite", "closed"}
      /\ UNCHANGED <<here, ctx, visible, pattern, purge, idhash, folderVars>>
  BY DEF Open, CheckMailbox, TypeOK
<1>2. bits \in [Msgs -> SUBSET Bits] /\ disk' = disk /\ here' = here /\ ctx' = ctx
  BY <1>1 DEF TypeOK, folderVars
<1>3. \A m \in here : Faithful(bits, ctx', disk, m)
  BY <1>2 DEF Changes, Known
<1>4. /\ bits' \in [Msgs -> SUBSET Bits] /\ Changes'
      /\ todo' \subseteq Msgs /\ todo' \subseteq 1..arrived
      /\ before' \subseteq here' /\ doing' = "parse"
  BY <1>1, <1>2, <1>3, StartParseStep
<1>5. TypeOK'
  BY <1>1, <1>4 DEF TypeOK, folderVars
<1>6. Numbered'
  BY <1>1, <1>4 DEF Numbered, folderVars
<1> QED BY <1>4, <1>5, <1>6

(* A new message is counted, and may have another one scored again. *)
LEMMA ParseStep ==
  ASSUME Inv, NEW m \in todo, NEW s \in Scores,
         \/ ParseMessage(m, s)
         \/ \E n \in here \cup todo, t \in Scores : ParseSuperseding(m, n, s, t)
  PROVE  Inv'
<1>0. doing = "parse"
  BY DEF ParseMessage, ParseSuperseding, Arrive
<1>1. \A k \in here \cup todo : k \in Msgs /\ Faithful(bits, ctx, disk, k)
  BY <1>0 DEF Inv, Changes, Known, TypeOK
<1>2. CASE ParseMessage(m, s)
  BY <1>1, <1>2, ArriveStep DEF ParseMessage, Inv, TypeOK, Keys
<1>3. ASSUME NEW n \in here \cup todo, NEW t \in Scores, ParseSuperseding(m, n, s, t)
      PROVE  Inv'
  <2> DEFINE x == IF n \in here \/ idhash = "no"
                  THEN Apply(Header(n), ScoreCalls(t)) ELSE Header(n)
  <2>1. n \in Msgs /\ Header(n) \in Pair
    BY <1>1, HeaderPair DEF Inv
  <2>2. Noticed(Header(n), x)
    BY <2>1, ApplyNoticed, SameNoticed
  <2>3. Arrive(m, [bits EXCEPT ![n] = x.h], x.c, s) /\ idhash' = "yes"
    BY <1>3 DEF ParseSuperseding
  <2>4. x.h \in SUBSET Bits /\ x.c \in [Keys -> Int]
    BY <2>2 DEF Noticed, Pair
  <2> HIDE DEF x
  <2>5. [bits EXCEPT ![n] = x.h] \in [Msgs -> SUBSET Bits]
    BY <2>4 DEF Inv, TypeOK
  <2>6. \A k \in here \cup todo : Faithful([bits EXCEPT ![n] = x.h], x.c, disk, k)
    BY <1>1, <2>1, <2>2, ChangedHeader DEF Inv
  <2> QED BY <2>3, <2>4, <2>5, <2>6, ArriveStep
<1> QED BY <1>2, <1>3

(* Only which messages are shown, the mode or the loop change. *)
LEMMA ViewStep ==
  ASSUME Inv, UNCHANGED <<here, bits, ctx, idhash, folderVars>>,
         purge' \in {"yes", "no"},
         visible' \subseteq here, pattern' \in Patterns \cup {"all"},
         mode' \in {"closed", "rw", "ro", "nowrite"},
         doing' \in AllCommands \cup {"idle", "index", "score", "markold",
                                      "markold+move", "move", "finish"},
         todo' \subseteq Msgs, before' \subseteq here,
         doing' # "index" => before' = {}
  PROVE  Inv'
<1>1. doing' # "parse"
  BY DEF AllCommands
<1>2. TypeOK'
  BY DEF Inv, TypeOK, folderVars
<1>3. Numbered'
  BY <1>1 DEF Inv, Numbered, folderVars
<1>4. Changes'
  BY <1>1 DEF Inv, Changes, Known, Faithful, folderVars
<1> QED BY <1>2, <1>3, <1>4 DEF Inv

(* A flag of m is set, by a command or in a loop. *)
LEMMA FlagSetStep ==
  ASSUME Inv, NEW m \in Msgs, NEW x, Noticed(Header(m), x), Update(m, x),
         UNCHANGED <<here, visible, pattern, mode, before, purge, idhash>>,
         UNCHANGED <<stored, disk, trash, arrived>>,
         saved' \subseteq Msgs, bypass' \subseteq Msgs, todo' \subseteq todo,
         doing \notin {"parse", "index"}, doing' \in {doing, "idle", "finish"}
  PROVE  Inv'
<1>1. doing' \notin {"parse", "index"}
  OBVIOUS
<1>2. /\ bits' \in [Msgs -> SUBSET Bits]
      /\ ctx' \in [Counters \cup {"changed"} -> Int]
      /\ Changes'
  BY <1>1, UpdateStep DEF Inv
<1>3. TypeOK'
  BY <1>2 DEF Inv, TypeOK
<1>4. Numbered'
  BY <1>1 DEF Inv, Numbered
<1> QED BY <1>2, <1>3, <1>4 DEF Inv

(* The types of what a command does outside of the header. *)
LEMMA EffectsType ==
  ASSUME TypeOK, NEW m \in Msgs, NEW cmd, Effects(cmd, m)
  PROVE  /\ saved' \subseteq Msgs /\ bypass' \subseteq Msgs
         /\ UNCHANGED <<stored, disk, trash, arrived>>
BY DEF Effects, TypeOK

(* A command for the message under the cursor. *)
LEMMA CommandStep ==
  ASSUME Inv, NEW m \in visible, NEW cmd, Command(cmd, m)
  PROVE  Inv'
<1>1. m \in Msgs /\ doing = "idle"
  BY DEF Inv, TypeOK, Command, Idle
<1>2. Noticed(Header(m), Apply(Header(m), CallsOf(cmd, bits[m])))
  BY <1>1, HeaderPair, ApplyNoticed DEF Inv
<1>3. /\ saved' \subseteq Msgs /\ bypass' \subseteq Msgs
      /\ UNCHANGED <<stored, disk, trash, arrived>>
  BY <1>1, EffectsType DEF Inv, Command
<1> QED BY <1>1, <1>2, <1>3, FlagSetStep DEF Command

(* A command for many messages, at one of them. *)
LEMMA LoopCommandStep ==
  ASSUME Inv, NEW m \in todo, LoopCommand(m)
  PROVE  Inv'
<1>1. m \in Msgs /\ doing \notin {"parse", "index"}
  BY DEF Inv, TypeOK, LoopCommand, AllCommands
<1>2. Noticed(Header(m), Apply(Header(m), CallsOf(doing, bits[m])))
  BY <1>1, HeaderPair, ApplyNoticed DEF Inv
<1>3. /\ saved' \subseteq Msgs /\ bypass' \subseteq Msgs
      /\ UNCHANGED <<stored, disk, trash, arrived>>
  BY <1>1, EffectsType DEF Inv, LoopCommand
<1> QED BY <1>1, <1>2, <1>3, FlagSetStep DEF LoopCommand, Rest

(* A message is scored again. *)
LEMMA RescoreStep ==
  ASSUME Inv, NEW m \in todo, NEW s \in Scores, RescoreMessage(m, s)
  PROVE  Inv'
<1>1. m \in Msgs /\ doing = "score"
  BY DEF Inv, TypeOK, RescoreMessage
<1>2. Noticed(Header(m), Apply(Header(m), ScoreCalls(s)))
  BY <1>1, HeaderPair, ApplyNoticed DEF Inv
<1>3. /\ saved' \subseteq Msgs /\ bypass' \subseteq Msgs
      /\ UNCHANGED <<stored, disk, trash, arrived>>
  BY <1>1, EffectsType DEF Inv, RescoreMessage
<1> QED BY <1>1, <1>2, <1>3, FlagSetStep DEF RescoreMessage, Rest

(* mark_old, at one message. *)
LEMMA MarkOldStep ==
  ASSUME Inv, NEW m \in todo, MarkOld(m)
  PROVE  Inv'
<1>1. m \in Msgs /\ doing \notin {"parse", "index"} /\ doing' = doing
  BY DEF Inv, TypeOK, MarkOld
<1>2. Noticed(Header(m), SetFlag(Header(m), Set("OLD")))
  BY <1>1, HeaderPair, SetFlagNoticed DEF Inv
<1>3. /\ saved' \subseteq Msgs /\ bypass' \subseteq Msgs
      /\ UNCHANGED <<stored, disk, trash, arrived>>
  BY DEF Inv, TypeOK, MarkOld, folderVars
<1> QED BY <1>1, <1>2, <1>3, FlagSetStep DEF MarkOld, Rest

(* A read message is moved when the mailbox is closed. *)
LEMMA MoveStep ==
  ASSUME Inv, NEW m \in todo, MoveMessage(m)
  PROVE  Inv'
<1>1. m \in Msgs /\ doing = "move"
  BY DEF Inv, TypeOK, MoveMessage
<1>2. Noticed(Header(m), Apply(Header(m), <<Set("DELETE"), Set("APPENDED"), Skip>>))
  BY <1>1, HeaderPair, ApplyNoticed DEF Inv
<1>3. /\ saved' \subseteq Msgs /\ bypass' \subseteq Msgs
      /\ UNCHANGED <<stored, disk, trash, arrived>>
  BY <1>1, EffectsType DEF Inv, MoveMessage
<1> QED BY <1>1, <1>2, <1>3, FlagSetStep DEF MoveMessage, Rest

(* The actions of ViewStep's kind. *)
LEMMA QuietStep ==
  ASSUME Inv,
         \/ UpdateIndex
         \/ \E cmd \in Commands : TagCommand(cmd)
         \/ \E cmd \in Commands, pat \in Patterns : PatternFunc(cmd, pat)
         \/ Rescore
         \/ \E pat \in Patterns \cup {"all"} : Limit(pat)
         \/ ToggleWrite
         \/ \E ans \in {"yes", "no"}, move \in BOOLEAN : CloseStart(ans, move)
         \/ MarkedOld
         \/ MoveFails
  PROVE  Inv'
<1>0. /\ visible \subseteq here /\ here \subseteq Msgs /\ todo \subseteq Msgs
      /\ pattern \in Patterns \cup {"all"} /\ before \subseteq here
      /\ mode \in {"closed", "rw", "ro", "nowrite"} /\ purge \in {"yes", "no"}
      /\ doing \notin {"parse", "index"} => before = {}
  BY DEF Inv, TypeOK, Numbered
<1>1. ASSUME NEW what \in AllCommands \cup {"score"}, NEW S \in SUBSET here, Loop(what, S)
      PROVE  Inv'
  BY <1>0, <1>1, ViewStep DEF Loop, Idle, AllCommands
<1>2. CASE UpdateIndex
  <2>1. visible' \subseteq here /\ before' = {} /\ doing' = "idle"
    BY <1>0, <1>2 DEF UpdateIndex
  <2> QED BY <1>0, <1>2, <2>1, ViewStep DEF UpdateIndex
<1>3. CASE \E cmd \in Commands : TagCommand(cmd)
  BY <1>0, <1>1, <1>3, ContextAssumption DEF TagCommand
<1>4. CASE \E cmd \in Commands, pat \in Patterns : PatternFunc(cmd, pat)
  BY <1>0, <1>1, <1>4, ContextAssumption DEF PatternFunc
<1>5. CASE Rescore
  BY <1>1, <1>5 DEF Rescore
<1>6. CASE \E pat \in Patterns \cup {"all"} : Limit(pat)
  BY <1>0, <1>6, ViewStep DEF Limit, Idle
<1>7. CASE ToggleWrite
  BY <1>0, <1>7, ViewStep DEF ToggleWrite, Idle
<1>8. ASSUME NEW ans \in {"yes", "no"}, NEW move \in BOOLEAN, CloseStart(ans, move)
      PROVE  Inv'
  BY <1>0, <1>8, ViewStep DEF CloseStart, Idle
<1>9. CASE MarkedOld
  BY <1>0, <1>9, ViewStep DEF MarkedOld
<1>10. CASE MoveFails
  BY <1>0, <1>10, ViewStep DEF MoveFails
<1> QED BY <1>2, <1>3, <1>4, <1>5, <1>6, <1>7, <1>8, <1>9, <1>10

-----------------------------------------------------------------------------
(* Sync and close. *)

(* What has been stored once is stored again unchanged. *)
LEMMA StoredTwice ==
  ASSUME NEW h
  PROVE  /\ Stored(Stored(h)) = Stored(h)
         /\ Stored(h \ {"deleted"}) = Stored(h) /\ Stored(h \ {"changed"}) = Stored(h)
         /\ Stored(h) \in SUBSET (Status \cup {"deleted"})
BY DEF Stored, Status

(* Undeleting what the user does not want to purge. *)
LEMMA AnswerStep ==
  ASSUME Inv, NEW ans, doing # "parse"
  PROVE  /\ BitsAfter(ans) \in [Msgs -> SUBSET Bits]
         /\ CtxAfter(ans) \in [Counters \cup {"changed"} -> Int]
         /\ BypassAfter(ans) \subseteq Msgs
         /\ \A m \in here : Stored(BitsAfter(ans)[m]) = Stored(bits[m])
         /\ \A m \in here : Faithful(BitsAfter(ans), CtxAfter(ans), disk, m)
<1>1. BitsAfter(ans) \in [Msgs -> SUBSET Bits]
  BY DEF BitsAfter, Inv, TypeOK
<1>2. /\ CtxAfter(ans) \in [Counters \cup {"changed"} -> Int]
      /\ CtxAfter(ans)["changed"] = ctx["changed"]
  BY DEF CtxAfter, Inv, TypeOK, Counters
<1>3. BypassAfter(ans) \subseteq Msgs
  BY DEF BypassAfter, Inv, TypeOK
<1>4. \A m \in here : /\ m \in Msgs /\ Faithful(bits, ctx, disk, m)
                      /\ BitsAfter(ans)[m] \in {bits[m], bits[m] \ {"deleted"}}
  BY DEF Inv, Changes, Known, TypeOK, BitsAfter
<1>5. \A m \in here : Stored(BitsAfter(ans)[m]) = Stored(bits[m])
  BY <1>4, StoredTwice
<1>6. \A m \in here : Faithful(BitsAfter(ans), CtxAfter(ans), disk, m)
  BY <1>2, <1>4, <1>5 DEF Faithful
<1> QED BY <1>1, <1>2, <1>3, <1>5, <1>6

(* A sync or close that fails before it does anything. *)
LEMMA TrashFailsStep ==
  ASSUME Inv, NEW ans, doing \in {"idle", "finish"}, TrashFails(ans)
  PROVE  Inv'
<1>1. /\ visible \subseteq here /\ todo \subseteq Msgs /\ before = {}
      /\ pattern \in Patterns \cup {"all"} /\ mode \in {"closed", "rw", "ro", "nowrite"}
  BY DEF Inv, TypeOK, Numbered
<1> QED BY <1>1, ViewStep DEF TrashFails

(* One that fails later: the marks stay, for the next one. *)
LEMMA SyncFailsStep ==
  ASSUME Inv, NEW ans, doing \in {"idle", "finish"}, SyncFails(ans)
  PROVE  Inv'
<1>1. /\ ctx' = CtxAfter(ans) /\ bypass' = BypassAfter(ans) /\ purge' = "yes"
      /\ UNCHANGED <<here, visible, pattern, mode, idhash, stored, disk, trash, saved, arrived>>
      /\ before = {}
  BY DEF SyncFails, Inv, Numbered
<1>2. /\ BitsAfter(ans) \in [Msgs -> SUBSET Bits] /\ bypass' \subseteq Msgs
      /\ ctx' \in [Counters \cup {"changed"} -> Int]
      /\ \A m \in here : Faithful(BitsAfter(ans), ctx', disk, m)
  BY <1>1, AnswerStep
<1>3. CASE StartParse(BitsAfter(ans))
  <2>1. /\ bits' \in [Msgs -> SUBSET Bits] /\ Changes'
        /\ todo' \subseteq Msgs /\ todo' \subseteq 1..arrived
        /\ before' \subseteq here' /\ doing' = "parse"
    BY <1>1, <1>2, <1>3, StartParseStep DEF Inv
  <2>2. TypeOK'
    BY <1>1, <1>2, <2>1 DEF Inv, TypeOK
  <2>3. Numbered'
    BY <1>1, <2>1 DEF Inv, Numbered
  <2> QED BY <2>1, <2>2, <2>3 DEF Inv
<1>4. CASE bits' = BitsAfter(ans) /\ doing' = "idle" /\ UNCHANGED <<todo, before>>
  <2>1. TypeOK'
    BY <1>1, <1>2, <1>4 DEF Inv, TypeOK
  <2>2. Numbered'
    BY <1>1, <1>4 DEF Inv, Numbered
  <2>3. Changes'
    BY <1>1, <1>2, <1>4 DEF Changes, Known
  <2> QED BY <2>1, <2>2, <2>3 DEF Inv
<1> QED BY <1>3, <1>4 DEF SyncFails

(* The folder is written: its types, and what it has then. *)
LEMMA WriteStep ==
  ASSUME Inv, NEW ans, doing # "parse", Write(ans)
  PROVE  /\ FolderTypes'
         /\ stored' = here \ Doomed(ans) /\ arrived' = arrived
         /\ \A m \in here \ Doomed(ans) : Stored(disk'[m]) = Stored(bits[m])
<1>1. \A m \in here : m \in Msgs
  BY DEF Inv, TypeOK
<1>2. Doomed(ans) \subseteq here /\ ForTrash(ans) \subseteq here /\ BypassAfter(ans) \subseteq Msgs
  BY AnswerStep DEF Doomed, ForTrash
<1>3. \A m \in Msgs : (IF m \in here \ Doomed(ans) THEN Stored(bits[m]) ELSE {})
                        \in SUBSET (Status \cup {"deleted"})
  BY StoredTwice
<1>4. disk' \in [Msgs -> SUBSET (Status \cup {"deleted"})]
  BY <1>3 DEF Write
<1>5. \A m \in here \ Doomed(ans) : disk'[m] = Stored(bits[m])
  BY <1>1 DEF Write
<1>6. \A m \in here \ Doomed(ans) : Stored(disk'[m]) = Stored(bits[m])
  BY <1>5, StoredTwice
<1>7. FolderTypes'
  BY <1>1, <1>2, <1>4 DEF FolderTypes, Write, Inv, TypeOK
<1> QED BY <1>6, <1>7 DEF Write

(* mx_update_tables() counts finitely many messages. *)
LEMMA RecountType ==
  ASSUME NEW S \in SUBSET Msgs, NEW b
  PROVE  Recount(S, b) \in [Counters \cup {"changed"} -> Int]
<1>1. IsFiniteSet(Msgs)
  BY ContextAssumption, FS_Interval DEF Msgs
<1>2. ASSUME NEW k PROVE Cardinality({m \in S : Counts(k, b[m])}) \in Int
  <2>1. IsFiniteSet({m \in S : Counts(k, b[m])})
    BY <1>1, FS_Subset
  <2>2. Cardinality({m \in S : Counts(k, b[m])}) \in Nat
    BY <2>1, FS_CardinalityType
  <2> QED BY <2>2
<1> QED BY <1>2 DEF Recount

(* A sync that succeeds clears the marks, and rightly so. *)
LEMMA SyncStep ==
  ASSUME Inv, NEW ans \in {"yes", "no"}, SyncMailbox(ans)
  PROVE  Inv'
<1> DEFINE kept == here \ Doomed(ans)
           b == [m \in Msgs |-> IF m \in kept THEN BitsAfter(ans)[m] \ {"changed"} ELSE {}]
<1>1. /\ doing = "idle" /\ before = {} /\ Write(ans)
      /\ here' = kept /\ visible' = visible \cap kept /\ bits' = b
      /\ ctx' = Recount(kept, b)
      /\ UNCHANGED <<pattern, mode, doing, todo, before, purge, idhash>>
  BY DEF SyncMailbox, CanSync, Idle, Inv, Numbered
<1>2. kept \subseteq Msgs /\ kept \subseteq here
  BY DEF Inv, TypeOK
<1>3. /\ FolderTypes' /\ stored' = kept /\ arrived' = arrived
      /\ \A m \in kept : Stored(disk'[m]) = Stored(bits[m])
  BY <1>1, WriteStep
<1>4. /\ BitsAfter(ans) \in [Msgs -> SUBSET Bits]
      /\ \A m \in here : Stored(BitsAfter(ans)[m]) = Stored(bits[m])
  BY <1>1, AnswerStep
<1>5. /\ b \in [Msgs -> SUBSET Bits]
      /\ \A m \in kept : b[m] = BitsAfter(ans)[m] \ {"changed"}
  BY <1>2, <1>4
<1>6. \A m \in kept : "changed" \notin b[m] /\ Stored(b[m]) = Stored(bits[m])
  BY <1>2, <1>4, <1>5, StoredTwice
<1> HIDE DEF b, kept
<1>7. ctx' \in [Counters \cup {"changed"} -> Int]
  BY <1>1, <1>2, RecountType
<1>8. TypeOK'
  BY <1>1, <1>2, <1>3, <1>5, <1>7 DEF Inv, TypeOK, FolderTypes
<1>9. Numbered'
  BY <1>1, <1>2, <1>3 DEF Inv, Numbered
<1>10. Changes'
  BY <1>1, <1>3, <1>6 DEF Changes, Known, Faithful
<1> QED BY <1>8, <1>9, <1>10 DEF Inv

(* A closed mailbox has no headers. *)
LEMMA FastcloseStep ==
  ASSUME Fastclose, FolderTypes', (stored \subseteq 1..arrived)'
  PROVE  Inv'
<1>1. TypeOK'
  BY DEF Fastclose, TypeOK, FolderTypes, Zero
<1>2. Numbered' /\ Changes'
  BY DEF Fastclose, Numbered, Changes, Known
<1> QED BY <1>1, <1>2 DEF Inv

(* All ways to close a mailbox. *)
LEMMA CloseStep ==
  ASSUME Inv,
         (\E ans \in {"yes", "no"} : SyncEmpties(ans)) \/ CloseUnsaved \/ CloseFinish
  PROVE  Inv'
<1>1. Fastclose /\ doing # "parse"
  BY DEF SyncEmpties, CanSync, Idle, CloseUnsaved, CloseFinish
<1>2. CASE UNCHANGED folderVars
  <2>1. FolderTypes' /\ (stored \subseteq 1..arrived)'
    BY <1>2 DEF Inv, TypeOK, FolderTypes, Numbered, folderVars
  <2> QED BY <1>1, <2>1, FastcloseStep
<1>3. ASSUME NEW ans, Write(ans) PROVE Inv'
  <2>1. FolderTypes' /\ stored' \subseteq here /\ arrived' = arrived
    BY <1>1, <1>3, WriteStep
  <2>2. (stored \subseteq 1..arrived)'
    BY <2>1 DEF Inv, Numbered
  <2> QED BY <1>1, <2>1, <2>2, FastcloseStep
<1> QED BY <1>2, <1>3 DEF SyncEmpties, CloseUnsaved, CloseFinish

(* Inv is inductive. *)
LEMMA InitInv == ASSUME Init PROVE Inv
<1>1. TypeOK
  BY ContextAssumption DEF Init, TypeOK, Zero
<1>2. Numbered /\ Changes
  BY DEF Init, Numbered, Changes, Known
<1> QED BY <1>1, <1>2 DEF Inv

(* Every step preserves it. *)
LEMMA NextInv == ASSUME Inv, [Next]_vars PROVE Inv'
<1>1. CASE UNCHANGED vars
  <2> USE <1>1 DEF vars, hdrVars, folderVars
  <2>1. TypeOK'
    BY DEF Inv, TypeOK
  <2>2. Numbered' /\ Changes'
    BY DEF Inv, Numbered, Changes, Known, Faithful
  <2> QED BY <2>1, <2>2 DEF Inv
<1>2. ASSUME NEW ans \in {"yes", "no"}, SyncError(ans) PROVE Inv'
  BY <1>2, TrashFailsStep, SyncFailsStep DEF SyncError, CanSync, Idle
<1>3. CASE CloseError
  BY <1>3, TrashFailsStep, SyncFailsStep DEF CloseError
<1>4. CASE \E cmd \in Commands, m \in visible : Command(cmd, m)
  BY <1>4, CommandStep
<1>5. CASE \E m \in todo : LoopCommand(m) \/ MarkOld(m) \/ MoveMessage(m)
  BY <1>5, LoopCommandStep, MarkOldStep, MoveStep
<1>6. CASE \E m \in todo, s \in Scores : RescoreMessage(m, s)
  BY <1>6, RescoreStep
<1>7. CASE \/ \E m \in todo, s \in Scores : ParseMessage(m, s)
           \/ \E m \in todo, n \in here \cup todo, s, t \in Scores :
                ParseSuperseding(m, n, s, t)
  BY <1>7, ParseStep
<1>8. CASE \E ans \in {"yes", "no"} : SyncMailbox(ans)
  BY <1>8, SyncStep
<1> QED
  BY <1>1, <1>2, <1>3, <1>4, <1>5, <1>6, <1>7, <1>8,
     DeliverStep, OpenStep, QuietStep, CloseStep DEF Next, NextFor

(* No command, arrival, sync or close takes the context, the headers or the  *)
(* folder out of their types, for any number of messages.                    *)
THEOREM ContextTyping == Spec => []TypeOK
<1>1. Init => Inv
  BY InitInv
<1>2. Inv /\ [Next]_vars => Inv'
  BY NextInv
<1>3. Inv => TypeOK
  BY DEF Inv
<1> QED BY <1>1, <1>2, <1>3, PTL DEF Spec

(* Whatever users, score rules and arriving mail do, and however syncs fail: *)
(* a header that is not marked as changed says what the folder says, and the *)
(* context knows of every one that is marked, so that mx_sync_mailbox() and  *)
(* mx_close_mailbox() never skip a mailbox that has something to save.       *)
THEOREM ChangesAreNoticed == Spec => []ChangesNoticed
<1>1. Init => Inv
  BY InitInv
<1>2. Inv /\ [Next]_vars => Inv'
  BY NextInv
<1>3. Inv => ChangesNoticed
  BY DEF Inv, Changes, Known, Faithful, ChangesNoticed
<1> QED BY <1>1, <1>2, <1>3, PTL DEF Spec

(* The steps that close a writable mailbox. *)
LEMMA ClosingSteps ==
  ASSUME Inv, [Next]_vars, mode = "rw", mode' = "closed"
  PROVE  (\E ans \in {"yes", "no"} : SyncEmpties(ans)) \/ CloseFinish
<1>1. CASE UNCHANGED vars
  BY <1>1 DEF vars, hdrVars
<1>2. ASSUME NEW m, NEW b, NEW c, NEW s, Arrive(m, b, c, s) PROVE mode' = mode
  BY <1>2 DEF Arrive
<1>3. ASSUME NEW m, Rest(m) PROVE mode' = mode
  BY <1>3 DEF Rest
<1>4. ASSUME NEW what, NEW S, Loop(what, S) PROVE mode' = mode
  BY <1>4 DEF Loop
<1>5. ASSUME NEW ans, TrashFails(ans) \/ SyncFails(ans) \/ SyncMailbox(ans)
      PROVE  mode' = mode
  BY <1>5 DEF TrashFails, SyncFails, SyncMailbox
<1>6. ASSUME NEW cmd, NEW m, Command(cmd, m) PROVE mode' = mode
  BY <1>6 DEF Command
<1>7. ASSUME NEW a, Deliver(a) PROVE mode' = mode
  BY <1>7 DEF Deliver, hdrVars
<1>8. ~(\E md \in {"rw", "ro"} : Open(md)) /\ ~CloseUnsaved /\ ~ToggleWrite
  BY DEF Open, CloseUnsaved, ToggleWrite
<1>9. ASSUME CheckMailbox \/ UpdateIndex \/ MarkedOld \/ MoveFails PROVE mode' = mode
  BY <1>9 DEF CheckMailbox, UpdateIndex, MarkedOld, MoveFails
<1>10. ASSUME NEW pat, Limit(pat) PROVE mode' = mode
  BY <1>10 DEF Limit
<1>11. ASSUME NEW ans, NEW move, CloseStart(ans, move) PROVE mode' = mode
  BY <1>11 DEF CloseStart
<1> QED
  BY <1>1, <1>2, <1>3, <1>4, <1>5, <1>6, <1>7, <1>8, <1>9, <1>10, <1>11
  DEF Next, NextFor, ParseMessage, ParseSuperseding, LoopCommand, RescoreMessage,
      MarkOld, MoveMessage, TagCommand, PatternFunc, Rescore, SyncError, CloseError

(* A writable mailbox is closed with every status on the screen in the       *)
(* folder: mx_close_mailbox() writes nothing only if the folder has it all   *)
(* already, and a folder it writes says what the headers said.               *)
THEOREM CloseKeeps == Spec => CloseKeepsStatus
<1> DEFINE Kept == mode = "rw" /\ mode' = "closed" =>
                     \A m \in here \cap stored' : Stored(disk'[m]) = Stored(bits[m])
<1>1. Init => Inv
  BY InitInv
<1>2. Inv /\ [Next]_vars => Inv'
  BY NextInv
<1>3. Inv /\ [Next]_vars => [Kept]_vars
  <2> SUFFICES ASSUME Inv, [Next]_vars, mode = "rw", mode' = "closed",
                      NEW m \in here \cap stored'
               PROVE  Stored(disk'[m]) = Stored(bits[m])
    OBVIOUS
  <2>1. ASSUME NEW ans, Write(ans), doing # "parse"
        PROVE  Stored(disk'[m]) = Stored(bits[m])
    BY <2>1, WriteStep
  <2>2. CASE \E ans \in {"yes", "no"} : SyncEmpties(ans)
    BY <2>1, <2>2 DEF SyncEmpties, CanSync, Idle
  <2>3. CASE CloseFinish
    <3>1. doing = "finish" /\ Faithful(bits, ctx, disk, m)
      BY <2>3 DEF CloseFinish, Inv, Changes, Known
    <3>2. CASE ctx["changed"] = 0 /\ UNCHANGED folderVars
      BY <3>1, <3>2 DEF Faithful, folderVars
    <3>3. CASE Write(purge)
      BY <2>1, <3>1, <3>3
    <3> QED BY <2>3, <3>2, <3>3 DEF CloseFinish
  <2> QED BY <2>2, <2>3, ClosingSteps
<1>4. CloseKeepsStatus <=> [][Kept]_vars
  BY DEF CloseKeepsStatus
<1> QED BY <1>1, <1>2, <1>3, <1>4, PTL DEF Spec

-----------------------------------------------------------------------------
(* The counters *)

(* 1 if a header with flags h counts for counter k, else 0. *)
One(k, h) == IF Counts(k, h) THEN 1 ELSE 0

(* From x to y the counters change by what the header counts more or less. *)
Balanced(x, y) == \A k \in Counters : y.c[k] = x.c[k] + One(k, y.h) - One(k, x.h)

(* What a counter is after another one, or two, have been counted. *)
LEMMA CountValue ==
  ASSUME NEW c \in [Keys -> Int], NEW k \in Counters, NEW d \in Int
  PROVE  /\ Count(c, k, d) \in [Keys -> Int]
         /\ \A j \in Counters : Count(c, k, d)[j] = IF j = k THEN c[j] + d ELSE c[j]
BY CountType DEF Count, Keys

LEMMA CountTwice ==
  ASSUME NEW c \in [Keys -> Int], NEW k \in Counters, NEW l \in Counters, k # l,
         NEW d \in Int, NEW e \in Int
  PROVE  \A j \in Counters : Count(Count(c, k, d), l, e)[j] =
                               IF j = k THEN c[j] + d ELSE IF j = l THEN c[j] + e ELSE c[j]
<1> DEFINE b == Count(c, k, d)
<1>1. b \in [Keys -> Int] /\ \A j \in Counters : b[j] = IF j = k THEN c[j] + d ELSE c[j]
  BY CountValue
<1> HIDE DEF b
<1>2. \A j \in Counters : Count(b, l, e)[j] = IF j = l THEN b[j] + e ELSE b[j]
  BY <1>1, CountValue
<1> QED BY <1>1, <1>2 DEF b

(* The five counters of one header. *)
LEMMA OneOf ==
  ASSUME NEW h
  PROVE  /\ One("deleted", h) = IF "deleted" \in h THEN 1 ELSE 0
         /\ One("tagged", h) = IF "tagged" \in h THEN 1 ELSE 0
         /\ One("flagged", h) = IF "flagged" \in h THEN 1 ELSE 0
         /\ One("unread", h) = IF "read" \in h THEN 0 ELSE 1
         /\ One("new", h) = IF "read" \in h \/ "old" \in h THEN 0 ELSE 1
BY DEF One, Counts

(* A header and a context are balanced if all five counters are. *)
LEMMA BalancedBy ==
  ASSUME NEW x, NEW y,
         \A k \in {"deleted", "tagged", "flagged"} :
           y.c[k] = x.c[k] + (IF k \in y.h THEN 1 ELSE 0) - (IF k \in x.h THEN 1 ELSE 0),
         y.c["unread"] = x.c["unread"] + (IF "read" \in y.h THEN 0 ELSE 1)
                           - (IF "read" \in x.h THEN 0 ELSE 1),
         y.c["new"] = x.c["new"] + (IF "read" \in y.h \/ "old" \in y.h THEN 0 ELSE 1)
                        - (IF "read" \in x.h \/ "old" \in x.h THEN 0 ELSE 1)
  PROVE  Balanced(x, y)
BY OneOf DEF Balanced, Counters

LEMMA SameBalanced == ASSUME NEW x \in Pair PROVE Balanced(x, x)
BY DEF Balanced, Pair, Keys, One

LEMMA BalancedTrans ==
  ASSUME NEW x \in Pair, NEW y \in Pair, NEW z, Balanced(x, y), Balanced(y, z)
  PROVE  Balanced(x, z)
<1>1. \A k \in Counters : x.c[k] \in Int /\ y.c[k] \in Int BY DEF Pair, Keys
<1>2. \A k \in Counters : One(k, x.h) \in Int /\ One(k, y.h) \in Int /\ One(k, z.h) \in Int
  BY DEF One
<1> QED BY <1>1, <1>2 DEF Balanced

(* Marking a header as changed counts nothing. *)
LEMMA TouchBalanced ==
  ASSUME NEW x \in Pair, NEW y \in Pair, Balanced(x, y) PROVE Balanced(x, Touch(y))
<1>1. Touch(y).h = y.h \cup {"changed"} /\ Touch(y).c = [y.c EXCEPT !["changed"] = 1]
  BY DEF Touch
<1>2. \A k \in Counters : Touch(y).c[k] = y.c[k] BY <1>1 DEF Pair, Keys, Counters
<1>3. \A k \in Counters : One(k, Touch(y).h) = One(k, y.h) BY <1>1 DEF One, Counts, Counters
<1> QED BY <1>2, <1>3 DEF Balanced

(* One counter goes with one flag: deleted, tagged and flagged. *)
LEMMA FlagBalanced ==
  ASSUME NEW x \in Pair, NEW k \in {"deleted", "tagged", "flagged"},
         NEW h \in SUBSET Bits, NEW d \in Int,
         \A b \in {"deleted", "tagged", "flagged", "read", "old"} \ {k} : b \in h <=> b \in x.h,
         d = (IF k \in h THEN 1 ELSE 0) - (IF k \in x.h THEN 1 ELSE 0)
  PROVE  LET y == [h |-> h, c |-> Count(x.c, k, d)] IN y \in Pair /\ Balanced(x, y)
<1> DEFINE y == [h |-> h, c |-> Count(x.c, k, d)]
<1>1. x.c \in [Keys -> Int] /\ k \in Counters BY DEF Pair, Counters
<1>2. y.h = h /\ y.c \in [Keys -> Int]
      /\ \A j \in Counters : y.c[j] = IF j = k THEN x.c[j] + d ELSE x.c[j]
  BY <1>1, CountValue
<1>3. \A j \in Counters : x.c[j] \in Int BY <1>1 DEF Keys
<1>4. y \in Pair BY <1>2 DEF Pair
<1> HIDE DEF y
<1>5. \A j \in {"deleted", "tagged", "flagged"} :
        y.c[j] = x.c[j] + (IF j \in y.h THEN 1 ELSE 0) - (IF j \in x.h THEN 1 ELSE 0)
  BY <1>2, <1>3 DEF Counters
<1>6. y.c["unread"] = x.c["unread"] /\ y.c["new"] = x.c["new"] BY <1>2 DEF Counters
<1>7. Balanced(x, y) BY <1>2, <1>3, <1>5, <1>6, BalancedBy DEF Counters
<1> QED BY <1>4, <1>7 DEF y

(* Two counters go with read and old: unread and new. *)
LEMMA ReadBalanced ==
  ASSUME NEW x \in Pair, NEW h \in SUBSET Bits, NEW c \in [Keys -> Int],
         \A b \in {"deleted", "tagged", "flagged"} : b \in h <=> b \in x.h,
         \A k \in {"deleted", "tagged", "flagged"} : c[k] = x.c[k],
         c["unread"] = x.c["unread"] + (IF "read" \in h THEN 0 ELSE 1)
                         - (IF "read" \in x.h THEN 0 ELSE 1),
         c["new"] = x.c["new"] + (IF "read" \in h \/ "old" \in h THEN 0 ELSE 1)
                      - (IF "read" \in x.h \/ "old" \in x.h THEN 0 ELSE 1)
  PROVE  [h |-> h, c |-> c] \in Pair /\ Balanced(x, [h |-> h, c |-> c])
<1>1. \A j \in Counters : x.c[j] \in Int BY DEF Pair, Keys
<1> DEFINE y == [h |-> h, c |-> c]
<1>2. y.h = h /\ y.c = c /\ y \in Pair BY DEF Pair
<1> HIDE DEF y
<1>3. Balanced(x, y) BY <1>1, <1>2, BalancedBy DEF Counters
<1> QED BY <1>2, <1>3 DEF y

(* Flags that nothing counts. *)
LEMMA UncountedBalanced ==
  ASSUME NEW x \in Pair, NEW h \in SUBSET Bits,
         \A b \in {"deleted", "tagged", "flagged", "read", "old"} : b \in h <=> b \in x.h
  PROVE  [x EXCEPT !.h = h] \in Pair /\ Balanced(x, [x EXCEPT !.h = h])
<1> DEFINE y == [x EXCEPT !.h = h]
<1>1. y \in Pair /\ y.h = h /\ y.c = x.c BY DEF Pair
<1>2. \A j \in Counters : x.c[j] \in Int BY DEF Pair, Keys
<1> HIDE DEF y
<1>3. /\ \A k \in {"deleted", "tagged", "flagged"} :
           y.c[k] = x.c[k] + (IF k \in y.h THEN 1 ELSE 0) - (IF k \in x.h THEN 1 ELSE 0)
      /\ y.c["unread"] = x.c["unread"] + (IF "read" \in y.h THEN 0 ELSE 1)
                           - (IF "read" \in x.h THEN 0 ELSE 1)
      /\ y.c["new"] = x.c["new"] + (IF "read" \in y.h \/ "old" \in y.h THEN 0 ELSE 1)
                        - (IF "read" \in x.h \/ "old" \in x.h THEN 0 ELSE 1)
  BY <1>1, <1>2 DEF Counters
<1>4. Balanced(x, y) BY <1>3, BalancedBy
<1> QED BY <1>1, <1>4 DEF y

(* The cases of _mutt_set_flag(), one after the other. *)
LEMMA DeleteBalanced ==
  ASSUME NEW x \in Pair PROVE Balanced(x, SetDelete(x)) /\ Balanced(x, ClearDelete(x))
<1>1. x.h \in SUBSET Bits /\ x.h \cup {"deleted"} \in SUBSET Bits
      /\ x.h \ {"deleted", "appended"} \in SUBSET Bits
  BY DEF Pair, Bits
<1>2. CASE "deleted" \in x.h
  <2>1. SetDelete(x) = x
        /\ ClearDelete(x) = [h |-> x.h \ {"deleted", "appended"}, c |-> Count(x.c, "deleted", -1)]
    BY <1>2 DEF SetDelete, ClearDelete
  <2> QED BY <1>1, <1>2, <2>1, SameBalanced, FlagBalanced
<1>3. CASE "deleted" \notin x.h
  <2>1. ClearDelete(x) = x
        /\ SetDelete(x) = [h |-> x.h \cup {"deleted"}, c |-> Count(x.c, "deleted", 1)]
    BY <1>3 DEF SetDelete, ClearDelete
  <2> QED BY <1>1, <1>3, <2>1, SameBalanced, FlagBalanced
<1> QED BY <1>2, <1>3

LEMMA TagBalanced ==
  ASSUME NEW x \in Pair PROVE Balanced(x, SetTag(x)) /\ Balanced(x, ClearTag(x))
<1>1. x.h \in SUBSET Bits /\ x.h \cup {"tagged"} \in SUBSET Bits /\ x.h \ {"tagged"} \in SUBSET Bits
  BY DEF Pair, Bits
<1>2. CASE "tagged" \in x.h
  <2>1. SetTag(x) = x
        /\ ClearTag(x) = [h |-> x.h \ {"tagged"}, c |-> Count(x.c, "tagged", -1)]
    BY <1>2 DEF SetTag, ClearTag
  <2> QED BY <1>1, <1>2, <2>1, SameBalanced, FlagBalanced
<1>3. CASE "tagged" \notin x.h
  <2>1. ClearTag(x) = x
        /\ SetTag(x) = [h |-> x.h \cup {"tagged"}, c |-> Count(x.c, "tagged", 1)]
    BY <1>3 DEF SetTag, ClearTag
  <2> QED BY <1>1, <1>3, <2>1, SameBalanced, FlagBalanced
<1> QED BY <1>2, <1>3

LEMMA FlaggedBalanced ==
  ASSUME NEW x \in Pair PROVE Balanced(x, SetFlagged(x)) /\ Balanced(x, ClearFlagged(x))
<1>1. x.h \in SUBSET Bits /\ x.h \cup {"flagged"} \in SUBSET Bits /\ x.h \ {"flagged"} \in SUBSET Bits
  BY DEF Pair, Bits, Status
<1>2. CASE "flagged" \in x.h
  <2> DEFINE y == [h |-> x.h \ {"flagged"}, c |-> Count(x.c, "flagged", -1)]
  <2>1. SetFlagged(x) = x /\ ClearFlagged(x) = Touch(y) BY <1>2 DEF SetFlagged, ClearFlagged
  <2>2. y \in Pair /\ Balanced(x, y) BY <1>1, <1>2, FlagBalanced
  <2> QED BY <2>1, <2>2, SameBalanced, TouchBalanced
<1>3. CASE "flagged" \notin x.h
  <2> DEFINE y == [h |-> x.h \cup {"flagged"}, c |-> Count(x.c, "flagged", 1)]
  <2>1. ClearFlagged(x) = x /\ SetFlagged(x) = Touch(y) BY <1>3 DEF SetFlagged, ClearFlagged
  <2>2. y \in Pair /\ Balanced(x, y) BY <1>1, <1>3, FlagBalanced
  <2> QED BY <2>1, <2>2, SameBalanced, TouchBalanced
<1> QED BY <1>2, <1>3

LEMMA MarkReadBalanced ==
  ASSUME NEW x \in Pair, "read" \notin x.h
  PROVE  MarkRead(x) \in Pair /\ Balanced(x, MarkRead(x))
<1> DEFINE e == IF "old" \in x.h THEN 0 ELSE -1
           c == Count(Count(x.c, "unread", -1), "new", e)
<1>1. x.c \in [Keys -> Int] /\ x.h \cup {"read"} \in SUBSET Bits /\ e \in Int
      /\ "unread" \in Counters /\ "new" \in Counters
  BY DEF Pair, Bits, Status, Counters
<1>2. MarkRead(x) = [h |-> x.h \cup {"read"}, c |-> c] BY DEF MarkRead
<1> HIDE DEF e
<1>3. \A j \in Counters : c[j] = IF j = "unread" THEN x.c[j] + (-1)
                                 ELSE IF j = "new" THEN x.c[j] + e ELSE x.c[j]
  BY <1>1, CountTwice
<1>4. c \in [Keys -> Int] BY <1>1, CountTwiceType
<1>5. \A j \in Counters : x.c[j] \in Int BY <1>1 DEF Keys
<1> HIDE DEF c
<1>6. /\ \A k \in {"deleted", "tagged", "flagged"} : c[k] = x.c[k]
      /\ c["unread"] = x.c["unread"] - 1 /\ c["new"] = x.c["new"] + e
  BY <1>3, <1>5 DEF Counters
<1> QED BY <1>1, <1>2, <1>4, <1>5, <1>6, ReadBalanced DEF e, Counters

LEMMA SetReadBalanced ==
  ASSUME NEW x \in Pair PROVE Balanced(x, SetRead(x)) /\ Balanced(x, ClearNew(x))
BY SameBalanced, MarkReadBalanced, TouchBalanced DEF SetRead, ClearNew

LEMMA ClearReadBalanced == ASSUME NEW x \in Pair PROVE Balanced(x, ClearRead(x))
<1>1. CASE "read" \notin x.h BY <1>1, SameBalanced DEF ClearRead
<1>2. CASE "read" \in x.h
  <2> DEFINE e == IF "old" \in x.h THEN 0 ELSE 1
             c == Count(Count(x.c, "unread", 1), "new", e)
             y == [h |-> x.h \ {"read"}, c |-> c]
  <2>1. x.c \in [Keys -> Int] /\ x.h \ {"read"} \in SUBSET Bits /\ e \in Int
        /\ "unread" \in Counters /\ "new" \in Counters
    BY DEF Pair, Bits, Status, Counters
  <2>2. ClearRead(x) = Touch(y) BY <1>2 DEF ClearRead
  <2> HIDE DEF e
  <2>3. \A j \in Counters : c[j] = IF j = "unread" THEN x.c[j] + 1
                                   ELSE IF j = "new" THEN x.c[j] + e ELSE x.c[j]
    BY <2>1, CountTwice
  <2>4. c \in [Keys -> Int] BY <2>1, CountTwiceType
  <2>5. \A j \in Counters : x.c[j] \in Int BY <2>1 DEF Keys
  <2> HIDE DEF c
  <2>6. /\ \A k \in {"deleted", "tagged", "flagged"} : c[k] = x.c[k]
        /\ c["unread"] = x.c["unread"] + 1 /\ c["new"] = x.c["new"] + e
    BY <2>3, <2>5 DEF Counters
  <2>7. y \in Pair /\ Balanced(x, y)
    BY <1>2, <2>1, <2>4, <2>5, <2>6, ReadBalanced DEF e, Counters
  <2> QED BY <2>2, <2>7, TouchBalanced
<1> QED BY <1>1, <1>2

LEMMA SetNewBalanced == ASSUME NEW x \in Pair PROVE Balanced(x, SetNew(x))
<1>1. CASE x.h \cap {"read", "old"} = {} BY <1>1, SameBalanced DEF SetNew
<1>2. CASE x.h \cap {"read", "old"} # {}
  <2> DEFINE e == IF "read" \in x.h THEN 1 ELSE 0
             c == Count(Count(x.c, "new", 1), "unread", e)
             y == [h |-> x.h \ {"read", "old"}, c |-> c]
  <2>1. x.c \in [Keys -> Int] /\ x.h \ {"read", "old"} \in SUBSET Bits /\ e \in Int
        /\ "unread" \in Counters /\ "new" \in Counters
    BY DEF Pair, Bits, Status, Counters
  <2>2. SetNew(x) = Touch(y) BY <1>2 DEF SetNew
  <2> HIDE DEF e
  <2>3. \A j \in Counters : c[j] = IF j = "new" THEN x.c[j] + 1
                                   ELSE IF j = "unread" THEN x.c[j] + e ELSE x.c[j]
    BY <2>1, CountTwice
  <2>4. c \in [Keys -> Int] BY <2>1, CountTwiceType
  <2>5. \A j \in Counters : x.c[j] \in Int BY <2>1 DEF Keys
  <2> HIDE DEF c
  <2>6. /\ \A k \in {"deleted", "tagged", "flagged"} : c[k] = x.c[k]
        /\ c["unread"] = x.c["unread"] + e /\ c["new"] = x.c["new"] + 1
    BY <2>3, <2>5 DEF Counters
  <2>7. y \in Pair /\ Balanced(x, y)
    BY <1>2, <2>1, <2>4, <2>5, <2>6, ReadBalanced DEF e, Counters
  <2> QED BY <2>2, <2>7, TouchBalanced
<1> QED BY <1>1, <1>2

(* Whether a message is old counts for new only. *)
LEMMA NewBalanced ==
  ASSUME NEW x \in Pair, NEW h \in SUBSET Bits, NEW e \in Int,
         \A b \in {"deleted", "tagged", "flagged", "read"} : b \in h <=> b \in x.h,
         e = (IF "read" \in h \/ "old" \in h THEN 0 ELSE 1)
               - (IF "read" \in x.h \/ "old" \in x.h THEN 0 ELSE 1)
  PROVE  Balanced(x, Touch([h |-> h, c |-> Count(x.c, "new", e)]))
<1> DEFINE c == Count(x.c, "new", e)
<1>1. x.c \in [Keys -> Int] /\ "new" \in Counters BY DEF Pair, Counters
<1>2. c \in [Keys -> Int] /\ \A j \in Counters : c[j] = IF j = "new" THEN x.c[j] + e ELSE x.c[j]
  BY <1>1, CountValue
<1>3. \A j \in Counters : x.c[j] \in Int BY <1>1 DEF Keys
<1> HIDE DEF c
<1>4. /\ \A k \in {"deleted", "tagged", "flagged"} : c[k] = x.c[k]
      /\ c["unread"] = x.c["unread"] /\ c["new"] = x.c["new"] + e
  BY <1>2, <1>3 DEF Counters
<1>5. [h |-> h, c |-> c] \in Pair /\ Balanced(x, [h |-> h, c |-> c])
  BY <1>2, <1>3, <1>4, ReadBalanced DEF Counters
<1> QED BY <1>5, TouchBalanced DEF c

LEMMA OldBalanced ==
  ASSUME NEW x \in Pair PROVE Balanced(x, SetOld(x)) /\ Balanced(x, ClearOld(x))
<1>1. x.h \cup {"old"} \in SUBSET Bits /\ x.h \ {"old"} \in SUBSET Bits
  BY DEF Pair, Bits, Status
<1>2. CASE "old" \in x.h
  <2> DEFINE e == IF "read" \in x.h THEN 0 ELSE 1
             g == x.h \ {"old"}
  <2>1. SetOld(x) = x /\ ClearOld(x) = Touch([h |-> g, c |-> Count(x.c, "new", e)])
    BY <1>2 DEF SetOld, ClearOld
  <2>2. /\ e \in Int /\ g \in SUBSET Bits
        /\ \A b \in {"deleted", "tagged", "flagged", "read"} : b \in g <=> b \in x.h
        /\ e = (IF "read" \in g \/ "old" \in g THEN 0 ELSE 1)
                 - (IF "read" \in x.h \/ "old" \in x.h THEN 0 ELSE 1)
    BY <1>1, <1>2
  <2> HIDE DEF e, g
  <2> QED BY <2>1, <2>2, SameBalanced, NewBalanced
<1>3. CASE "old" \notin x.h
  <2> DEFINE e == IF "read" \in x.h THEN 0 ELSE -1
             g == x.h \cup {"old"}
  <2>1. ClearOld(x) = x /\ SetOld(x) = Touch([h |-> g, c |-> Count(x.c, "new", e)])
    BY <1>3 DEF SetOld, ClearOld
  <2>2. /\ e \in Int /\ g \in SUBSET Bits
        /\ \A b \in {"deleted", "tagged", "flagged", "read"} : b \in g <=> b \in x.h
        /\ e = (IF "read" \in g \/ "old" \in g THEN 0 ELSE 1)
                 - (IF "read" \in x.h \/ "old" \in x.h THEN 0 ELSE 1)
    BY <1>1, <1>3
  <2> HIDE DEF e, g
  <2> QED BY <2>1, <2>2, SameBalanced, NewBalanced
<1> QED BY <1>2, <1>3

LEMMA RepliedBalanced ==
  ASSUME NEW x \in Pair PROVE Balanced(x, SetReplied(x)) /\ Balanced(x, ClearReplied(x))
<1>1. ASSUME NEW y \in Pair
      PROVE  /\ [y EXCEPT !.h = @ \cup {"replied"}] \in Pair
             /\ Balanced(y, [y EXCEPT !.h = @ \cup {"replied"}])
             /\ [y EXCEPT !.h = @ \ {"replied"}] \in Pair
             /\ Balanced(y, [y EXCEPT !.h = @ \ {"replied"}])
  <2>1. y.h \cup {"replied"} \in SUBSET Bits /\ y.h \ {"replied"} \in SUBSET Bits
    BY DEF Pair, Bits, Status
  <2> QED BY <2>1, UncountedBalanced
<1> DEFINE y == IF "read" \in x.h THEN x ELSE MarkRead(x)
<1>2. y \in Pair /\ Balanced(x, y) BY SameBalanced, MarkReadBalanced
<1>3. SetReplied(x) = IF "replied" \in x.h THEN x
                      ELSE Touch([y EXCEPT !.h = @ \cup {"replied"}])
  BY DEF SetReplied
<1> HIDE DEF y
<1> DEFINE z == [y EXCEPT !.h = @ \cup {"replied"}]
           w == [x EXCEPT !.h = @ \ {"replied"}]
<1>4. z \in Pair /\ Balanced(y, z) /\ w \in Pair /\ Balanced(x, w) BY <1>1, <1>2
<1>5. ClearReplied(x) = IF "replied" \notin x.h THEN x ELSE Touch(w) BY DEF ClearReplied
<1>6. SetReplied(x) = IF "replied" \in x.h THEN x ELSE Touch(z) BY <1>3
<1> HIDE DEF z, w
<1>7. Balanced(x, z) BY <1>2, <1>4, BalancedTrans
<1> QED BY <1>4, <1>5, <1>6, <1>7, TouchBalanced, SameBalanced

LEMMA HeaderOnlyBalanced ==
  ASSUME NEW x \in Pair
  PROVE  Balanced(x, SetAppended(x)) /\ Balanced(x, SetPurged(x)) /\ Balanced(x, ClearPurged(x))
<1>1. x.h \cup {"appended"} \in SUBSET Bits /\ x.h \cup {"purged"} \in SUBSET Bits
      /\ x.h \ {"purged"} \in SUBSET Bits
  BY DEF Pair, Bits
<1> QED BY <1>1, UncountedBalanced DEF SetAppended, SetPurged, ClearPurged

(* _mutt_set_flag() with any flag and value. *)
LEMMA SetFlagBalanced == ASSUME NEW x \in Pair, NEW call PROVE Balanced(x, SetFlag(x, call))
<1>1. CASE mode = "ro" /\ call[1] # "TAG" BY <1>1, SameBalanced DEF SetFlag
<1>2. CASE ~(mode = "ro" /\ call[1] # "TAG")
  BY <1>2, SMTT(60), SameBalanced, DeleteBalanced, HeaderOnlyBalanced, SetNewBalanced,
     SetReadBalanced, ClearReadBalanced, OldBalanced, RepliedBalanced, FlaggedBalanced,
     TagBalanced DEF SetFlag
<1> QED BY <1>1, <1>2

(* A command, which makes up to three calls. *)
LEMMA ApplyBalanced == ASSUME NEW x \in Pair, NEW calls PROVE Balanced(x, Apply(x, calls))
<1> DEFINE y == SetFlag(x, calls[1])
           z == SetFlag(y, calls[2])
<1>1. y \in Pair /\ Balanced(x, y) BY SetFlagNoticed, SetFlagBalanced DEF Noticed
<1> HIDE DEF y
<1>2. z \in Pair /\ Balanced(y, z) BY <1>1, SetFlagNoticed, SetFlagBalanced DEF Noticed
<1> HIDE DEF z
<1>3. Balanced(z, SetFlag(z, calls[3])) BY <1>2, SetFlagBalanced
<1>4. Apply(x, calls) = SetFlag(z, calls[3]) BY DEF Apply, y, z
<1> QED BY <1>1, <1>2, <1>3, <1>4, BalancedTrans

(* Scoring does not touch tags. *)
LEMMA ScoreTags ==
  ASSUME NEW x \in Pair, NEW s
  PROVE  "tagged" \in Apply(x, ScoreCalls(s)).h <=> "tagged" \in x.h
<1>1. ASSUME NEW y \in Pair, NEW call \in {Set("DELETE"), Set("READ"), Set("FLAG"), Skip}
      PROVE  SetFlag(y, call) \in Pair /\ ("tagged" \in SetFlag(y, call).h <=> "tagged" \in y.h)
  <2>1. SetFlag(y, call) \in Pair BY SetFlagNoticed DEF Noticed
  <2>2. /\ "tagged" \in SetDelete(y).h <=> "tagged" \in y.h
        /\ "tagged" \in SetRead(y).h <=> "tagged" \in y.h
        /\ "tagged" \in SetFlagged(y).h <=> "tagged" \in y.h
    BY DEF SetDelete, SetRead, SetFlagged, Touch, MarkRead
  <2>3. SetFlag(y, call) \in {y, SetDelete(y), SetRead(y), SetFlagged(y)}
    <3>1. CASE call = Set("DELETE") BY <3>1 DEF SetFlag, Set, Clear
    <3>2. CASE call = Set("READ") BY <3>2 DEF SetFlag, Set, Clear
    <3>3. CASE call = Set("FLAG") BY <3>3 DEF SetFlag, Set, Clear
    <3>4. CASE call = Skip BY <3>4 DEF SetFlag, Set, Clear, Skip
    <3> QED BY <3>1, <3>2, <3>3, <3>4
  <2> QED BY <2>1, <2>2, <2>3
<1> DEFINE calls == ScoreCalls(s)
           y == SetFlag(x, calls[1])
           z == SetFlag(y, calls[2])
<1>2. \A i \in 1..3 : calls[i] \in {Set("DELETE"), Set("READ"), Set("FLAG"), Skip}
  BY DEF ScoreCalls
<1> HIDE DEF calls
<1>3. y \in Pair /\ ("tagged" \in y.h <=> "tagged" \in x.h) BY <1>1, <1>2
<1> HIDE DEF y
<1>4. z \in Pair /\ ("tagged" \in z.h <=> "tagged" \in y.h) BY <1>1, <1>2, <1>3
<1> HIDE DEF z
<1>5. "tagged" \in SetFlag(z, calls[3]).h <=> "tagged" \in z.h BY <1>1, <1>2, <1>4
<1>6. Apply(x, calls) = SetFlag(z, calls[3]) BY DEF Apply, y, z
<1> QED BY <1>3, <1>4, <1>5, <1>6 DEF calls

(* How many of the messages in S, with flags b, count for counter k. *)
Number(S, k, b) == Cardinality({m \in S : Counts(k, b[m])})

(* The counters c say what the messages in S are. *)
Counted(S, b, c) == \A k \in Counters : c[k] = Number(S, k, b)

(* It does not matter what flags other messages have. *)
LEMMA SameNumber ==
  ASSUME NEW S, NEW k, NEW b, NEW d, \A m \in S : Counts(k, b[m]) <=> Counts(k, d[m])
  PROVE  Number(S, k, b) = Number(S, k, d)
<1>1. {m \in S : Counts(k, b[m])} = {m \in S : Counts(k, d[m])} OBVIOUS
<1> QED BY <1>1 DEF Number

(* One message's share in a counter. *)
LEMMA Shares ==
  ASSUME NEW S \in SUBSET Msgs, NEW m \in S, NEW b, NEW k
  PROVE  /\ Number(S \ {m}, k, b) \in Nat
         /\ Number(S, k, b) = Number(S \ {m}, k, b) + One(k, b[m])
<1> DEFINE rest == {n \in S \ {m} : Counts(k, b[n])}
<1>1. IsFiniteSet(Msgs) BY ContextAssumption, FS_Interval DEF Msgs
<1>2. IsFiniteSet(rest) /\ m \notin rest BY <1>1, FS_Subset
<1>3. Cardinality(rest) \in Nat BY <1>2, FS_CardinalityType
<1>4. {n \in S : Counts(k, b[n])} = IF Counts(k, b[m]) THEN rest \cup {m} ELSE rest
  OBVIOUS
<1>5. Cardinality(rest \cup {m}) = Cardinality(rest) + 1 BY <1>2, FS_AddElement
<1>6. Number(S \ {m}, k, b) = Cardinality(rest) BY DEF Number
<1> HIDE DEF rest
<1>7. Number(S, k, b) = Cardinality(rest) + One(k, b[m]) BY <1>3, <1>4, <1>5 DEF One, Number
<1> QED BY <1>3, <1>6, <1>7

(* One of the messages gets other flags. *)
LEMMA CountedChange ==
  ASSUME NEW S \in SUBSET Msgs, NEW m \in S, NEW b \in [Msgs -> SUBSET Bits], NEW c,
         [h |-> b[m], c |-> c] \in Pair, NEW y \in Pair, Balanced([h |-> b[m], c |-> c], y),
         Counted(S, b, c)
  PROVE  Counted(S, [b EXCEPT ![m] = y.h], y.c)
<1> DEFINE d == [b EXCEPT ![m] = y.h]
<1>1. m \in Msgs /\ d[m] = y.h /\ \A n \in S \ {m} : d[n] = b[n] OBVIOUS
<1> HIDE DEF d
<1>2. ASSUME NEW k \in Counters PROVE y.c[k] = Number(S, k, d)
  <2>1. Number(S \ {m}, k, d) = Number(S \ {m}, k, b) BY <1>1, SameNumber
  <2>2. /\ Number(S \ {m}, k, b) \in Nat
        /\ Number(S, k, b) = Number(S \ {m}, k, b) + One(k, b[m])
        /\ Number(S, k, d) = Number(S \ {m}, k, d) + One(k, d[m])
    BY Shares
  <2>3. y.c[k] = c[k] + One(k, y.h) - One(k, b[m]) BY <1>2 DEF Balanced
  <2>4. c[k] = Number(S, k, b) BY <1>2 DEF Counted
  <2>5. One(k, b[m]) \in Int /\ One(k, y.h) \in Int BY DEF One
  <2> QED BY <1>1, <2>1, <2>2, <2>3, <2>4, <2>5
<1> QED BY <1>2 DEF Counted, d

(* A message is added, which mx_update_context() counts. *)
LEMMA CountedNew ==
  ASSUME NEW S \in SUBSET Msgs, NEW m \in Msgs \ S, NEW b \in [Msgs -> SUBSET Bits],
         NEW c \in [Keys -> Int], NEW h \in SUBSET Bits, "tagged" \notin h, Counted(S, b, c)
  PROVE  Counted(S \cup {m}, [b EXCEPT ![m] = h], CountNew(c, h))
<1> DEFINE d == [b EXCEPT ![m] = h]
           T == S \cup {m}
<1>1. d[m] = h /\ (\A n \in S : d[n] = b[n]) /\ T \in SUBSET Msgs /\ m \in T /\ T \ {m} = S
  OBVIOUS
<1> HIDE DEF d, T
<1>2. ASSUME NEW k \in Counters PROVE CountNew(c, h)[k] = Number(T, k, d)
  <2>1. Number(S, k, d) = Number(S, k, b) BY <1>1, SameNumber
  <2>2. Number(S, k, d) \in Nat /\ Number(T, k, d) = Number(S, k, d) + One(k, h)
    BY <1>1, Shares
  <2>3. c[k] = Number(S, k, b) BY <1>2 DEF Counted
  <2>4. CountNew(c, h)[k] = IF k # "tagged" /\ Counts(k, h) THEN c[k] + 1 ELSE c[k]
    BY <1>2 DEF CountNew, Counters
  <2>5. k = "tagged" => ~Counts(k, h) BY DEF Counts
  <2> QED BY <2>1, <2>2, <2>3, <2>4, <2>5 DEF One
<1> QED BY <1>2 DEF Counted, d, T

(* Where the messages of a loop are: those that are being read are no        *)
(* headers yet, and not tagged, those of all other loops are headers.        *)
Places ==
  /\ doing = "parse" => \A m \in todo : m \notin here /\ "tagged" \notin bits[m]
  /\ doing # "parse" => todo \subseteq here
  /\ doing \in {"idle", "index", "finish"} => todo = {}

(* No message supersedes itself or one that comes after it in the folder. *)
Orderly == \A m, n \in Msgs : <<m, n>> \in Supersedes => n < m

CountInv == Inv /\ Places /\ CountersMatch

(* A flag of a message that has been counted is set, and counted. *)
LEMMA CountedFlag ==
  ASSUME CountInv, NEW m \in here, NEW x \in Pair, Balanced(Header(m), x), Update(m, x),
         here' = here, doing # "parse", doing' # "parse", todo' \subseteq todo,
         doing' \in {"idle", "index", "finish"} => todo' = {}
  PROVE  Places' /\ CountersMatch'
<1>1. here \in SUBSET Msgs /\ bits \in [Msgs -> SUBSET Bits] BY DEF CountInv, Inv, TypeOK
<1>2. Header(m) = [h |-> bits[m], c |-> ctx] /\ Header(m) \in Pair
  BY <1>1, HeaderPair DEF Header, CountInv, Inv
<1>3. Counted(here, bits, ctx) BY DEF CountInv, CountersMatch, Counted, Number
<1>4. Counted(here, [bits EXCEPT ![m] = x.h], x.c) BY <1>1, <1>2, <1>3, CountedChange
<1>5. CountersMatch' BY <1>4 DEF Counted, Number, CountersMatch, Update
<1>6. Places' BY DEF CountInv, Places
<1> QED BY <1>5, <1>6

(* The headers, their flags and the counters stay. *)
LEMMA CountedStay ==
  ASSUME CountInv, UNCHANGED <<here, bits, ctx>>, doing' # "parse", todo' \subseteq here,
         doing' \in {"idle", "index", "finish"} => todo' = {}
  PROVE  Places' /\ CountersMatch'
<1>1. Places' BY DEF Places
<1>2. CountersMatch' BY DEF CountInv, CountersMatch
<1> QED BY <1>1, <1>2

(* The folder is read with flags b for the headers that are there. *)
LEMMA CountedParse ==
  ASSUME CountInv, NEW b \in [Msgs -> SUBSET Bits], StartParse(b), here' = here,
         Counted(here, b, ctx')
  PROVE  Places' /\ CountersMatch'
<1>1. here \subseteq Msgs /\ stored \subseteq Msgs /\ \A m \in Msgs : "tagged" \notin disk[m]
  BY DEF CountInv, Inv, TypeOK, Status
<1>2. /\ \A m \in here : bits'[m] = b[m]
      /\ \A m \in stored \ here : bits'[m] = disk[m]
      /\ doing' = "parse" /\ todo' = stored \ here
  BY <1>1 DEF StartParse
<1>3. \A k : {m \in here' : Counts(k, bits'[m])} = {m \in here : Counts(k, b[m])} BY <1>2
<1>4. CountersMatch' BY <1>3 DEF Counted, Number, CountersMatch
<1>5. Places' BY <1>1, <1>2 DEF Places
<1> QED BY <1>4, <1>5

(* A new message is counted; b and c are the headers and counters just before. *)
LEMMA CountedArrival ==
  ASSUME CountInv, NEW m, NEW b \in [Msgs -> SUBSET Bits], NEW c \in [Keys -> Int], NEW s,
         Arrive(m, b, c, s), Counted(here, b, c), \A n \in todo : b[n] = bits[n]
  PROVE  Places' /\ CountersMatch'
<1> DEFINE x == [h |-> b[m], c |-> c]
           h == Apply(x, ScoreCalls(s)).h
<1>1. /\ doing = "parse" /\ m \in todo /\ m \in Msgs \ here /\ here \in SUBSET Msgs
      /\ "tagged" \notin b[m]
  BY DEF Arrive, CountInv, Inv, TypeOK, Places
<1>2. x \in Pair /\ x.h = b[m] BY <1>1 DEF Pair
<1>3. h \in SUBSET Bits /\ "tagged" \notin h
  BY <1>1, <1>2, ApplyNoticed, ScoreTags DEF Noticed, Pair
<1>4. /\ here' = here \cup {m} /\ bits' = [b EXCEPT ![m] = h] /\ ctx' = CountNew(c, h)
      /\ todo' = todo \ {m} /\ doing' = IF todo = {m} THEN "index" ELSE "parse"
  BY DEF Arrive
<1> HIDE DEF h
<1>5. Counted(here', bits', ctx') BY <1>1, <1>3, <1>4, CountedNew
<1>6. CountersMatch' BY <1>5 DEF Counted, Number, CountersMatch
<1>7. Places' BY <1>1, <1>3, <1>4 DEF CountInv, Places, Inv, TypeOK
<1> QED BY <1>6, <1>7

LEMMA CountedReading ==
  ASSUME Orderly, CountInv, NEW m \in todo, NEW s \in Scores,
         \/ ParseMessage(m, s)
         \/ \E n \in here \cup todo, t \in Scores : ParseSuperseding(m, n, s, t)
  PROVE  Places' /\ CountersMatch'
<1>1. /\ bits \in [Msgs -> SUBSET Bits] /\ ctx \in [Keys -> Int] /\ here \in SUBSET Msgs
      /\ Counted(here, bits, ctx) /\ m \in Msgs /\ doing = "parse"
      /\ \A k \in todo : k \in Msgs /\ k \notin here
  BY DEF CountInv, Inv, TypeOK, Keys, CountersMatch, Counted, Number, Places,
         ParseMessage, ParseSuperseding, Arrive
<1>2. CASE ParseMessage(m, s)
  <2>1. Arrive(m, bits, ctx, s) BY <1>2 DEF ParseMessage
  <2> QED BY <1>1, <2>1, CountedArrival
<1>3. ASSUME NEW n \in here \cup todo, NEW t \in Scores, ParseSuperseding(m, n, s, t)
      PROVE  Places' /\ CountersMatch'
  <2> DEFINE x == IF n \in here \/ idhash = "no"
                  THEN Apply(Header(n), ScoreCalls(t)) ELSE Header(n)
             b == [bits EXCEPT ![n] = x.h]
  <2>1. n \in here
    <3>1. <<m, n>> \in Supersedes /\ \A k \in todo : m <= k
      BY <1>3 DEF ParseSuperseding, Arrive
    <3>2. n \in Msgs BY <1>1
    <3>3. n < m BY <1>1, <3>1, <3>2 DEF Orderly
    <3>4. m \in Int /\ n \in Int BY <1>1, <3>2 DEF Msgs
    <3> QED BY <3>1, <3>3, <3>4
  <2>2. Header(n) \in Pair /\ n \in Msgs /\ Header(n) = [h |-> bits[n], c |-> ctx]
    BY <1>1, <2>1, HeaderPair DEF CountInv, Inv, Header
  <2>3. x \in Pair /\ Balanced(Header(n), x)
    BY <2>1, <2>2, ApplyNoticed, ApplyBalanced DEF Noticed
  <2>4. Arrive(m, b, x.c, s) BY <1>3 DEF ParseSuperseding
  <2>5. x.h \in SUBSET Bits /\ x.c \in [Keys -> Int] BY <2>3 DEF Pair
  <2> HIDE DEF x
  <2>6. Counted(here, b, x.c) BY <1>1, <2>1, <2>2, <2>3, CountedChange
  <2>7. b \in [Msgs -> SUBSET Bits] /\ \A k \in todo : b[k] = bits[k]
    BY <1>1, <2>1, <2>2, <2>5
  <2> HIDE DEF b
  <2> QED BY <2>4, <2>5, <2>6, <2>7, CountedArrival
<1> QED BY <1>2, <1>3

(* The answer no to purging leaves no message deleted. *)
LEMMA CountedAnswer ==
  ASSUME CountInv, NEW ans \in {"yes", "no"}
  PROVE  Counted(here, BitsAfter(ans), CtxAfter(ans))
<1>1. /\ here \subseteq Msgs /\ bits \in [Msgs -> SUBSET Bits]
      /\ ctx \in [Counters \cup {"changed"} -> Int]
      /\ Counted(here, bits, ctx)
  BY DEF CountInv, Inv, TypeOK, CountersMatch, Counted, Number
<1> DEFINE b == BitsAfter(ans)
<1>2. \A m \in here : b[m] = IF ans = "no" THEN bits[m] \ {"deleted"} ELSE bits[m]
  BY <1>1 DEF BitsAfter
<1> HIDE DEF b
<1>3. CASE ans = "yes"
  <2>1. \A k \in Counters : Number(here, k, bits) = Number(here, k, b) BY <1>2, <1>3, SameNumber
  <2>2. CtxAfter(ans) = ctx BY <1>3 DEF CtxAfter
  <2> QED BY <1>1, <2>1, <2>2 DEF Counted, b
<1>4. CASE ans = "no"
  <2>1. CtxAfter(ans) = [ctx EXCEPT !["deleted"] = 0] BY <1>4 DEF CtxAfter
  <2>2. ASSUME NEW k \in Counters \ {"deleted"} PROVE CtxAfter(ans)[k] = Number(here, k, b)
    <3>1. \A m \in here : Counts(k, bits[m]) <=> Counts(k, b[m])
      BY <1>2, <1>4 DEF Counts, Counters
    <3>2. Number(here, k, bits) = Number(here, k, b) BY <3>1, SameNumber
    <3> QED BY <1>1, <2>1, <3>2 DEF Counted
  <2>3. CtxAfter(ans)["deleted"] = Number(here, "deleted", b)
    <3>1. {m \in here : Counts("deleted", b[m])} = {} BY <1>2, <1>4 DEF Counts
    <3>2. Number(here, "deleted", b) = 0 BY <3>1, FS_EmptySet DEF Number
    <3> QED BY <1>1, <2>1, <3>2 DEF Counters
  <2> QED BY <2>2, <2>3 DEF Counted, b
<1> QED BY <1>3, <1>4

(* A failed sync or close has done no more than that. *)
LEMMA CountedFailure ==
  ASSUME CountInv, NEW ans \in {"yes", "no"}, doing \in {"idle", "finish"},
         TrashFails(ans) \/ SyncFails(ans)
  PROVE  Places' /\ CountersMatch'
<1>1. todo = {} BY DEF CountInv, Places
<1>2. CASE TrashFails(ans) BY <1>1, <1>2, CountedStay DEF TrashFails
<1>3. CASE SyncFails(ans)
  <2>1. /\ here' = here /\ ctx' = CtxAfter(ans) /\ BitsAfter(ans) \in [Msgs -> SUBSET Bits]
        /\ Counted(here, BitsAfter(ans), ctx')
    BY <1>3, AnswerStep, CountedAnswer DEF SyncFails, CountInv
  <2>2. CASE StartParse(BitsAfter(ans)) BY <2>1, <2>2, CountedParse
  <2>3. CASE bits' = BitsAfter(ans) /\ doing' = "idle" /\ UNCHANGED <<todo, before>>
    <3>1. CountersMatch' BY <2>1, <2>3 DEF CountersMatch, Counted, Number
    <3>2. Places' BY <1>1, <2>3 DEF Places
    <3> QED BY <3>1, <3>2
  <2> QED BY <1>3, <2>2, <2>3 DEF SyncFails
<1> QED BY <1>2, <1>3

(* mx_update_tables() counts from nothing. *)
LEMMA CountedSync ==
  ASSUME CountInv, NEW ans \in {"yes", "no"}, SyncMailbox(ans)
  PROVE  Places' /\ CountersMatch'
<1>1. todo' = {} BY DEF SyncMailbox, CanSync, Idle, CountInv, Places
<1>2. ctx' = Recount(here', bits') BY DEF SyncMailbox
<1>3. CountersMatch'
  <2>1. ASSUME NEW k \in Counters PROVE ctx'[k] = Cardinality({m \in here' : Counts(k, bits'[m])})
    BY <1>2 DEF Recount, Counters
  <2> QED BY <2>1 DEF CountersMatch
<1> QED BY <1>1, <1>3 DEF Places

LEMMA CountedClosing ==
  ASSUME Fastclose PROVE Places' /\ CountersMatch'
<1>1. Places' BY DEF Fastclose, Places
<1>2. ASSUME NEW k PROVE Cardinality({m \in here' : Counts(k, bits'[m])}) = 0
  <2>1. {m \in here' : Counts(k, bits'[m])} = {} BY DEF Fastclose
  <2> QED BY <2>1, FS_EmptySet
<1>3. \A k \in Counters : ctx'[k] = 0 BY DEF Fastclose, Zero
<1> QED BY <1>1, <1>2, <1>3 DEF CountersMatch

(* Every step of a command, a loop or a close that sets the flags of one     *)
(* message.                                                                  *)
LEMMA CountedCommand ==
  ASSUME CountInv,
         \/ \E cmd \in Commands, m \in visible : Command(cmd, m)
         \/ \E m \in todo : LoopCommand(m) \/ MarkOld(m) \/ MoveMessage(m)
         \/ \E m \in todo, s \in Scores : RescoreMessage(m, s)
  PROVE  Places' /\ CountersMatch'
<1>1. visible \subseteq here /\ here \subseteq Msgs /\ (doing # "parse" => todo \subseteq here)
      /\ (doing \in {"idle", "index", "finish"} => todo = {})
  BY DEF CountInv, Inv, TypeOK, Places
<1>2. ASSUME NEW m \in here, NEW calls
      PROVE  /\ Apply(Header(m), calls) \in Pair /\ Balanced(Header(m), Apply(Header(m), calls))
             /\ SetFlag(Header(m), calls) \in Pair
             /\ Balanced(Header(m), SetFlag(Header(m), calls))
  <2>1. Header(m) \in Pair BY <1>1, HeaderPair DEF CountInv, Inv
  <2> QED BY <2>1, ApplyNoticed, ApplyBalanced, SetFlagNoticed, SetFlagBalanced DEF Noticed
<1>3. ASSUME NEW cmd \in Commands, NEW m \in visible, Command(cmd, m)
      PROVE  Places' /\ CountersMatch'
  <2>1. /\ doing = "idle" /\ UNCHANGED <<here, doing, todo>> /\ m \in here
        /\ Update(m, Apply(Header(m), CallsOf(cmd, bits[m])))
    BY <1>1, <1>3 DEF Command, Idle
  <2> QED BY <1>1, <1>2, <2>1, CountedFlag
<1>4. ASSUME NEW m \in todo, LoopCommand(m) PROVE Places' /\ CountersMatch'
  <2>1. /\ doing \notin {"parse", "idle", "index", "finish"} /\ m \in here /\ here' = here
        /\ todo' = todo \ {m} /\ doing' = (IF todo = {m} THEN "idle" ELSE doing)
        /\ Update(m, Apply(Header(m), CallsOf(doing, bits[m])))
    BY <1>1, <1>4 DEF LoopCommand, Rest, AllCommands
  <2> QED BY <1>2, <2>1, CountedFlag
<1>5. ASSUME NEW m \in todo, MarkOld(m) PROVE Places' /\ CountersMatch'
  <2>1. /\ doing \notin {"parse", "idle", "index", "finish"} /\ m \in here /\ here' = here
        /\ todo' = todo \ {m} /\ doing' = doing
        /\ Update(m, SetFlag(Header(m), Set("OLD")))
    BY <1>1, <1>5 DEF MarkOld, Rest
  <2> QED BY <1>2, <2>1, CountedFlag
<1>6. ASSUME NEW m \in todo, MoveMessage(m) PROVE Places' /\ CountersMatch'
  <2>1. /\ doing = "move" /\ m \in here /\ here' = here
        /\ todo' = todo \ {m} /\ doing' = (IF todo = {m} THEN "finish" ELSE doing)
        /\ Update(m, Apply(Header(m), <<Set("DELETE"), Set("APPENDED"), Skip>>))
    BY <1>1, <1>6 DEF MoveMessage, Rest
  <2> QED BY <1>2, <2>1, CountedFlag
<1>7. ASSUME NEW m \in todo, NEW s \in Scores, RescoreMessage(m, s)
      PROVE  Places' /\ CountersMatch'
  <2>1. /\ doing = "score" /\ m \in here /\ here' = here
        /\ todo' = todo \ {m} /\ doing' = (IF todo = {m} THEN "idle" ELSE doing)
        /\ Update(m, Apply(Header(m), ScoreCalls(s)))
    BY <1>1, <1>7 DEF RescoreMessage, Rest
  <2> QED BY <1>2, <2>1, CountedFlag
<1> QED BY <1>3, <1>4, <1>5, <1>6, <1>7

(* The steps that leave headers and counters alone. *)
LEMMA CountedQuiet ==
  ASSUME CountInv,
         \/ UpdateIndex
         \/ \E cmd \in Commands : TagCommand(cmd)
         \/ \E cmd \in Commands, pat \in Patterns : PatternFunc(cmd, pat)
         \/ Rescore
         \/ \E pat \in Patterns \cup {"all"} : Limit(pat)
         \/ ToggleWrite
         \/ \E ans \in {"yes", "no"}, move \in BOOLEAN : CloseStart(ans, move)
         \/ MarkedOld
         \/ MoveFails
  PROVE  Places' /\ CountersMatch'
<1>1. visible \subseteq here /\ (doing # "parse" => todo \subseteq here)
      /\ (doing \in {"idle", "index", "finish"} => todo = {})
  BY DEF CountInv, Inv, TypeOK, Places
<1>2. ASSUME NEW what \in AllCommands \cup {"score"}, NEW S \in SUBSET here, Loop(what, S)
      PROVE  Places' /\ CountersMatch'
  BY <1>2, CountedStay DEF Loop, AllCommands
<1>3. CASE UpdateIndex BY <1>1, <1>3, CountedStay DEF UpdateIndex
<1>4. CASE \E cmd \in Commands : TagCommand(cmd)
  BY <1>1, <1>2, <1>4, ContextAssumption DEF TagCommand
<1>5. CASE \E cmd \in Commands, pat \in Patterns : PatternFunc(cmd, pat)
  BY <1>1, <1>2, <1>5, ContextAssumption DEF PatternFunc
<1>6. CASE Rescore BY <1>2, <1>6 DEF Rescore
<1>7. CASE \E pat \in Patterns \cup {"all"} : Limit(pat)
  BY <1>1, <1>7, CountedStay DEF Limit, Idle
<1>8. CASE ToggleWrite BY <1>1, <1>8, CountedStay DEF ToggleWrite, Idle
<1>9. ASSUME NEW ans \in {"yes", "no"}, NEW move \in BOOLEAN, CloseStart(ans, move)
      PROVE  Places' /\ CountersMatch'
  BY <1>9, CountedStay DEF CloseStart
<1>10. CASE MarkedOld BY <1>1, <1>10, CountedStay DEF MarkedOld
<1>11. CASE MoveFails BY <1>11, CountedStay DEF MoveFails
<1> QED BY <1>3, <1>4, <1>5, <1>6, <1>7, <1>8, <1>9, <1>10, <1>11

LEMMA CountNext == ASSUME Orderly, CountInv, [Next]_vars PROVE CountInv'
<1>1. Inv' BY NextInv DEF CountInv
<1>2. CASE UNCHANGED vars
  BY <1>1, <1>2 DEF CountInv, Places, CountersMatch, vars, hdrVars, folderVars
<1> SUFFICES ASSUME Next PROVE Places' /\ CountersMatch' BY <1>1, <1>2 DEF CountInv
<1>3. ASSUME NEW a \in Arrivals, Deliver(a) PROVE Places' /\ CountersMatch'
  <2>1. UNCHANGED <<here, bits, ctx, todo, doing>> /\ doing # "parse" BY <1>3 DEF Deliver, hdrVars
  <2> QED BY <2>1, CountedStay DEF CountInv, Places
<1>4. CASE (\E md \in {"rw", "ro"} : Open(md)) \/ CheckMailbox
  <2>1. StartParse(bits) /\ here' = here /\ ctx' = ctx BY <1>4 DEF Open, CheckMailbox
  <2>2. bits \in [Msgs -> SUBSET Bits] /\ Counted(here, bits, ctx)
    BY DEF CountInv, Inv, TypeOK, CountersMatch, Counted, Number
  <2>3. Counted(here, bits, ctx') BY <2>1, <2>2
  <2> QED BY <2>1, <2>2, <2>3, CountedParse
<1>5. ASSUME NEW ans \in {"yes", "no"}, SyncError(ans) PROVE Places' /\ CountersMatch'
  BY <1>5, CountedFailure DEF SyncError, CanSync, Idle
<1>6. CASE CloseError
  <2>1. purge \in {"yes", "no"} BY DEF CountInv, Inv, TypeOK
  <2>2. doing = "finish" /\ (TrashFails(purge) \/ SyncFails(purge)) BY <1>6 DEF CloseError
  <2> QED BY <2>1, <2>2, CountedFailure
<1>7. CASE (\E ans \in {"yes", "no"} : SyncEmpties(ans)) \/ CloseUnsaved \/ CloseFinish
  <2>1. Fastclose BY <1>7 DEF SyncEmpties, CloseUnsaved, CloseFinish
  <2> QED BY <2>1, CountedClosing
<1>8. CASE \/ \E m \in todo, s \in Scores : ParseMessage(m, s)
           \/ \E m \in todo, n \in here \cup todo, s, t \in Scores :
                ParseSuperseding(m, n, s, t)
  BY <1>8, CountedReading
<1>9. CASE \E ans \in {"yes", "no"} : SyncMailbox(ans) BY <1>9, CountedSync
<1> QED BY <1>3, <1>4, <1>5, <1>6, <1>7, <1>8, <1>9, CountedCommand, CountedQuiet
        DEF Next, NextFor

(* If messages supersede earlier ones only, then the counters of the context *)
(* are right in every state, whatever users, scores, arriving mail, failing  *)
(* syncs and answers do, for any number of messages.                         *)
THEOREM CountersAlwaysMatch == ASSUME Orderly PROVE Spec => []CountersMatch
<1>1. Init => CountInv
  <2> SUFFICES ASSUME Init PROVE CountInv OBVIOUS
  <2>1. Inv BY InitInv
  <2>2. Places BY DEF Init, Places
  <2>3. ASSUME NEW k PROVE Cardinality({m \in here : Counts(k, bits[m])}) = 0
    <3>1. {m \in here : Counts(k, bits[m])} = {} BY DEF Init
    <3> QED BY <3>1, FS_EmptySet
  <2>4. \A k \in Counters : ctx[k] = 0 BY DEF Init, Zero
  <2> QED BY <2>1, <2>2, <2>3, <2>4 DEF CountInv, CountersMatch
<1>2. CountInv /\ [Next]_vars => CountInv' BY CountNext
<1>3. CountInv => CountersMatch BY DEF CountInv
<1> QED BY <1>1, <1>2, <1>3, PTL DEF Spec

-----------------------------------------------------------------------------
(* What leaves the folder *)

(* Where users purge, nothing deletes a message without taking the mark of a *)
(* purge from it that the answer no has left there: "delete-pattern" and     *)
(* scores would.                                                             *)
PurgeForgotten ==
  "purge" \in Commands =>
    "delete-pattern" \notin Commands /\ \A s \in Scores : "DELETE" \notin s

(* Flags h may be kept for message m, with copies of sv and purges bp: what  *)
(* is not to go to the trash folder has a copy or was purged.                *)
Excused(h, m, sv, bp) ==
  /\ "appended" \in h => m \in sv
  /\ "deleted" \in h /\ "purged" \in h => m \in sv \cup bp
  /\ "purged" \in h => "purge" \in Commands

AllExcused == \A m \in Msgs : Excused(bits[m], m, saved, bypass)

(* The loops are those of commands the users have. *)
Given == doing \in AllCommands => doing \in Commands

LossInv == Inv /\ Given /\ AllExcused

(* A call sets no flag but its own, and none of these in a read-only mailbox. *)
LEMMA LossCall ==
  ASSUME NEW x \in Pair, NEW call
  PROVE  /\ SetFlag(x, call) \in Pair
         /\ "appended" \in SetFlag(x, call).h =>
              "appended" \in x.h \/ call = Set("APPENDED")
         /\ "deleted" \in SetFlag(x, call).h =>
              "deleted" \in x.h \/ (call = Set("DELETE") /\ mode # "ro")
         /\ "purged" \in SetFlag(x, call).h =>
              "purged" \in x.h \/ (call = Set("PURGED") /\ mode # "ro")
         /\ call = Clear("PURGED") /\ mode # "ro" => "purged" \notin SetFlag(x, call).h
<1>1. SetFlag(x, call) \in Pair BY SetFlagNoticed DEF Noticed
<1>2. CASE mode = "ro" /\ call[1] # "TAG" BY <1>1, <1>2 DEF SetFlag
<1>3. CASE ~(mode = "ro" /\ call[1] # "TAG")
  <2> DEFINE D == {"appended", "deleted", "purged"}
  <2>1. ASSUME NEW y, y \in {SetNew(x), SetRead(x), ClearRead(x), SetOld(x), ClearOld(x),
                             SetReplied(x), ClearReplied(x), SetFlagged(x), ClearFlagged(x),
                             SetTag(x), ClearTag(x), x}
        PROVE  y.h \cap D = x.h \cap D
    <3>1. CASE y \in {SetNew(x), SetRead(x), ClearRead(x), SetOld(x)}
      BY <3>1 DEF SetNew, SetRead, MarkRead, ClearRead, SetOld, Touch, Pair
    <3>2. CASE y \in {ClearOld(x), SetFlagged(x), ClearFlagged(x), SetTag(x), ClearTag(x), x}
      BY <3>2 DEF ClearOld, SetFlagged, ClearFlagged, SetTag, ClearTag, Touch, Pair
    <3>3. CASE y \in {SetReplied(x), ClearReplied(x)}
      <4>1. MarkRead(x) \in Pair /\ MarkRead(x).h = x.h \cup {"read"}
        BY MarkReadType DEF MarkRead
      <4> QED BY <3>3, <4>1 DEF SetReplied, ClearReplied, Touch, Pair
    <3> QED BY <2>1, <3>1, <3>2, <3>3
  <2>2. \/ SetFlag(x, call).h \cap D = x.h \cap D /\ call # Clear("PURGED")
        \/ call = Set("DELETE") /\ SetFlag(x, call) = SetDelete(x)
        \/ call = Clear("DELETE") /\ SetFlag(x, call) = ClearDelete(x)
        \/ call = Set("APPENDED") /\ SetFlag(x, call) = SetAppended(x)
        \/ call = Set("PURGED") /\ SetFlag(x, call) = SetPurged(x)
        \/ call = Clear("PURGED") /\ SetFlag(x, call) = ClearPurged(x)
    <3>3. CASE call = Clear("PURGED") BY <1>3, <3>3 DEF SetFlag, Set, Clear
    <3>4. CASE call = Set("PURGED") BY <1>3, <3>4 DEF SetFlag, Set, Clear
    <3>5. CASE call = Set("APPENDED") BY <1>3, <3>5 DEF SetFlag, Set, Clear
    <3>6. CASE call = Set("DELETE") BY <1>3, <3>6 DEF SetFlag, Set, Clear
    <3>7. CASE call = Clear("DELETE") BY <1>3, <3>7 DEF SetFlag, Set, Clear
    <3>8. CASE call \notin {Clear("PURGED"), Set("PURGED"), Set("APPENDED"), Set("DELETE"),
                            Clear("DELETE")}
      <4>1. SetFlag(x, call) \in {SetNew(x), SetRead(x), ClearRead(x), SetOld(x), ClearOld(x),
                                  SetReplied(x), ClearReplied(x), SetFlagged(x), ClearFlagged(x),
                                  SetTag(x), ClearTag(x), x}
        <5> HIDE DEF D
        <5> QED BY <1>3, <3>8 DEF SetFlag, ClearNew
      <4> QED BY <2>1, <3>8, <4>1
    <3> QED BY <3>3, <3>4, <3>5, <3>6, <3>7, <3>8
  <2>3. CASE SetFlag(x, call).h \cap D = x.h \cap D /\ call # Clear("PURGED")
    BY <1>1, <2>3
  <2>4. CASE call = Set("DELETE") /\ SetFlag(x, call) = SetDelete(x)
    BY <1>1, <1>3, <2>4 DEF SetDelete, Pair, Set, Clear
  <2>5. CASE call = Clear("DELETE") /\ SetFlag(x, call) = ClearDelete(x)
    BY <1>1, <2>5 DEF ClearDelete, Pair, Set, Clear
  <2>6. CASE call = Set("APPENDED") /\ SetFlag(x, call) = SetAppended(x)
    BY <1>1, <2>6 DEF SetAppended, Pair, Set, Clear
  <2>7. CASE call = Set("PURGED") /\ SetFlag(x, call) = SetPurged(x)
    BY <1>1, <1>3, <2>7 DEF SetPurged, Pair, Set, Clear
  <2>8. CASE call = Clear("PURGED") /\ SetFlag(x, call) = ClearPurged(x)
    BY <1>1, <2>8 DEF ClearPurged, Pair, Set, Clear
  <2> QED BY <2>2, <2>3, <2>4, <2>5, <2>6, <2>7, <2>8
<1> QED BY <1>2, <1>3

(* The same of three calls. *)
LEMMA LossCalls ==
  ASSUME NEW x \in Pair, NEW calls
  PROVE  LET h == Apply(x, calls).h IN
         /\ "appended" \in h => "appended" \in x.h \/ \E i \in 1..3 : calls[i] = Set("APPENDED")
         /\ "deleted" \in h =>
              "deleted" \in x.h \/ (mode # "ro" /\ \E i \in 1..3 : calls[i] = Set("DELETE"))
         /\ "purged" \in h =>
              "purged" \in x.h \/ (mode # "ro" /\ \E i \in 1..3 : calls[i] = Set("PURGED"))
         /\ calls[2] = Clear("PURGED") /\ calls[3] # Set("PURGED") /\ mode # "ro" =>
              "purged" \notin h
<1> DEFINE y == SetFlag(x, calls[1])
           z == SetFlag(y, calls[2])
           w == SetFlag(z, calls[3])
<1>0. Apply(x, calls) = w BY DEF Apply
<1>1. y \in Pair BY LossCall
<1>2. z \in Pair
  <2> HIDE DEF y
  <2> QED BY <1>1, LossCall
<1> DEFINE Does(u, v, c) ==
      /\ "appended" \in v.h => "appended" \in u.h \/ c = Set("APPENDED")
      /\ "deleted" \in v.h => "deleted" \in u.h \/ (c = Set("DELETE") /\ mode # "ro")
      /\ "purged" \in v.h => "purged" \in u.h \/ (c = Set("PURGED") /\ mode # "ro")
      /\ c = Clear("PURGED") /\ mode # "ro" => "purged" \notin v.h
<1>3. ASSUME NEW u \in Pair, NEW c PROVE Does(u, SetFlag(u, c), c) BY LossCall
<1> HIDE DEF Does
<1>4. Does(x, y, calls[1]) BY <1>3
<1>5. Does(y, z, calls[2])
  <2> HIDE DEF y
  <2> QED BY <1>1, <1>3
<1>6. Does(z, w, calls[3])
  <2> HIDE DEF z
  <2> QED BY <1>2, <1>3
<1> HIDE DEF y, z, w
<1> QED BY <1>0, <1>4, <1>5, <1>6 DEF Does

(* The calls that matter differ from all others. *)
Losing == {Set("APPENDED"), Set("PURGED"), Set("DELETE")}

LEMMA LosingCalls ==
  /\ Set("APPENDED") # Set("PURGED") /\ Set("APPENDED") # Set("DELETE")
  /\ Set("PURGED") # Set("DELETE") /\ Skip \notin Losing
  /\ \A f : Clear(f) \notin Losing
  /\ \A f \in {"READ", "OLD", "NEW", "REPLIED", "FLAG", "TAG"} : \A b : <<f, b>> \notin Losing
BY DEF Losing, Set, Clear, Skip

LEMMA ThreeCalls ==
  ASSUME NEW x, NEW y, NEW z
  PROVE  /\ \A i \in 1..3 : <<x, y, z>>[i] \in {x, y, z}
         /\ <<x, y, z>>[2] = y
OBVIOUS

(* What the calls of a command may set. *)
LEMMA LossCommand ==
  ASSUME NEW cmd \in AllCommands, NEW h
  PROVE  LET calls == CallsOf(cmd, h) IN
         /\ \A i \in 1..3 : calls[i] = Set("APPENDED") => cmd = "save"
         /\ \A i \in 1..3 : calls[i] = Set("PURGED") => cmd = "purge"
         /\ \A i \in 1..3 : calls[i] = Set("DELETE") =>
              cmd \in {"delete", "purge", "save", "delete-pattern"}
         /\ cmd = "delete" => calls[2] = Clear("PURGED")
<1> SUFFICES ASSUME NEW calls, calls = CallsOf(cmd, h)
             PROVE  /\ \A i \in 1..3 : calls[i] = Set("APPENDED") => cmd = "save"
                    /\ \A i \in 1..3 : calls[i] = Set("PURGED") => cmd = "purge"
                    /\ \A i \in 1..3 : calls[i] = Set("DELETE") =>
                         cmd \in {"delete", "purge", "save", "delete-pattern"}
                    /\ cmd = "delete" => calls[2] = Clear("PURGED")
  OBVIOUS
<1> DEFINE Untag == IF DeleteUntag THEN Clear("TAG") ELSE Skip
           Plain(t) == \A i \in 1..3 : t[i] \notin Losing
<1>1. /\ Untag \notin Losing
      /\ \A f \in {"READ", "OLD", "NEW", "REPLIED", "FLAG", "TAG"} :
           Set(f) \notin Losing /\ \A b : <<f, b>> \notin Losing
  BY LosingCalls DEF Set
<1>2. CASE cmd \in {"delete", "purge", "save", "delete-pattern"}
  <2>1. /\ cmd = "delete" => calls = <<Set("DELETE"), Clear("PURGED"), Untag>>
        /\ cmd = "purge" => calls = <<Set("DELETE"), Set("PURGED"), Untag>>
        /\ cmd = "save" => calls = <<Set("DELETE"), Untag, Set("APPENDED")>>
        /\ cmd = "delete-pattern" => calls = <<Set("DELETE"), Skip, Skip>>
    BY DEF CallsOf
  <2> HIDE DEF Untag
  <2>2. Skip \notin Losing /\ Clear("PURGED") \notin Losing BY LosingCalls
  <2>3. CASE cmd = "delete"
    <3>1. \A i \in 1..3 : calls[i] \in {Set("DELETE"), Clear("PURGED"), Untag}
      BY <2>1, <2>3, ThreeCalls
    <3>2. calls[2] = Clear("PURGED") BY <2>1, <2>3, ThreeCalls
    <3> QED BY <1>1, <2>2, <2>3, <3>1, <3>2, LosingCalls DEF Losing
  <2>4. CASE cmd = "purge"
    <3>1. \A i \in 1..3 : calls[i] \in {Set("DELETE"), Set("PURGED"), Untag}
      BY <2>1, <2>4, ThreeCalls
    <3> QED BY <1>1, <2>4, <3>1, LosingCalls DEF Losing
  <2>5. CASE cmd = "save"
    <3>1. \A i \in 1..3 : calls[i] \in {Set("DELETE"), Untag, Set("APPENDED")}
      BY <2>1, <2>5, ThreeCalls
    <3> QED BY <1>1, <2>5, <3>1, LosingCalls DEF Losing
  <2>6. CASE cmd = "delete-pattern"
    <3>1. \A i \in 1..3 : calls[i] \in {Set("DELETE"), Skip}
      BY <2>1, <2>6, ThreeCalls
    <3> QED BY <2>2, <2>6, <3>1, LosingCalls DEF Losing
  <2> QED BY <1>2, <2>3, <2>4, <2>5, <2>6
<1>3. CASE cmd \notin {"delete", "purge", "save", "delete-pattern"}
  <2>1. \E x, y, z : calls = <<x, y, z>> /\ {x, y, z} \cap Losing = {}
    <3>1. \A f : Clear(f) \notin Losing BY LosingCalls
    <3>2. Skip \notin Losing BY LosingCalls
    <3>3. CASE cmd = "undelete"
      <4>1. calls = <<Clear("DELETE"), Clear("PURGED"), Skip>> BY <3>3 DEF CallsOf
      <4> QED BY <3>1, <3>2, <4>1
    <3>4. CASE cmd \in {"reply", "display", "set-new", "tag-pattern"}
      <4>1. \E f \in {"REPLIED", "READ", "NEW", "TAG"} : calls = <<Set(f), Skip, Skip>>
        BY <3>4 DEF CallsOf
      <4> QED BY <1>1, <3>2, <4>1
    <3>5. CASE cmd = "toggle-tag"
      <4>1. calls = <<<<"TAG", "tagged" \notin h>>, Skip, Skip>> BY <3>5 DEF CallsOf
      <4> QED BY <1>1, <3>2, <4>1
    <3>6. CASE cmd = "toggle-flag"
      <4>1. calls = <<<<"FLAG", "flagged" \notin h>>, Skip, Skip>> BY <3>6 DEF CallsOf
      <4> QED BY <1>1, <3>2, <4>1
    <3>7. CASE cmd = "toggle-new"
      <4>1. \E f \in {"READ", "NEW"} : calls = <<Set(f), Skip, Skip>> BY <3>7 DEF CallsOf
      <4> QED BY <1>1, <3>2, <4>1
    <3>8. CASE cmd = "set-old"
      <4>1. calls = <<Clear("READ"), Set("OLD"), Skip>> BY <3>8 DEF CallsOf
      <4> QED BY <1>1, <3>1, <3>2, <4>1
    <3>9. CASE cmd = "clear-old"
      <4>1. calls = <<Set("READ"), Clear("OLD"), Skip>> BY <3>9 DEF CallsOf
      <4> QED BY <1>1, <3>1, <3>2, <4>1
    <3>10. CASE cmd \in {"clear-replied", "untag"}
      <4>1. \E f : calls = <<Clear(f), Skip, Skip>> BY <3>10 DEF CallsOf
      <4> QED BY <3>1, <3>2, <4>1
    <3> QED BY <1>3, <3>3, <3>4, <3>5, <3>6, <3>7, <3>8, <3>9, <3>10 DEF AllCommands
  <2>2. Plain(calls) BY <2>1, ThreeCalls
  <2>3. Set("APPENDED") \in Losing /\ Set("PURGED") \in Losing /\ Set("DELETE") \in Losing
    BY DEF Losing
  <2> QED BY <1>3, <2>2, <2>3
<1> QED BY <1>2, <1>3

(* The calls scoring makes. *)
LEMMA LossScore ==
  ASSUME NEW s
  PROVE  LET calls == ScoreCalls(s) IN
         /\ \A i \in 1..3 : calls[i] # Set("APPENDED") /\ calls[i] # Set("PURGED")
         /\ \A i \in 1..3 : calls[i] = Set("DELETE") => "DELETE" \in s
<1> DEFINE F(f) == IF f \in s THEN Set(f) ELSE Skip
<1>1. ScoreCalls(s) = <<F("DELETE"), F("READ"), F("FLAG")>> BY DEF ScoreCalls
<1>2. /\ F("DELETE") \notin {Set("APPENDED"), Set("PURGED")}
      /\ F("READ") \notin {Set("APPENDED"), Set("PURGED"), Set("DELETE")}
      /\ F("FLAG") \notin {Set("APPENDED"), Set("PURGED"), Set("DELETE")}
      /\ F("DELETE") = Set("DELETE") => "DELETE" \in s
  BY DEF Set, Skip
<1>3. Set("APPENDED") # Set("DELETE") /\ Set("PURGED") # Set("DELETE")
  BY LosingCalls
<1> HIDE DEF F
<1>4. \A i \in 1..3 : ScoreCalls(s)[i] \in {F("DELETE"), F("READ"), F("FLAG")}
  BY <1>1, ThreeCalls
<1>5. F("DELETE") \in {Set("DELETE"), Skip} BY DEF F
<1> QED BY <1>2, <1>4, <1>5

(* Scoring finds no message to delete that was purged. *)
LEMMA LossScored ==
  ASSUME PurgeForgotten, NEW x \in Pair, NEW m, NEW sv, NEW bp, Excused(x.h, m, sv, bp),
         NEW s \in Scores
  PROVE  /\ Excused(Apply(x, ScoreCalls(s)).h, m, sv, bp)
         /\ Apply(x, ScoreCalls(s)) \in Pair
<1> DEFINE calls == ScoreCalls(s)
           y == Apply(x, calls)
<1>1. /\ "appended" \in y.h => "appended" \in x.h
      /\ "purged" \in y.h => "purged" \in x.h
      /\ "deleted" \in y.h => "deleted" \in x.h \/ "DELETE" \in s
  BY LossCalls, LossScore
<1>2. y \in Pair BY ApplyNoticed DEF Noticed
<1> HIDE DEF y
<1> QED BY <1>1, <1>2 DEF Excused, PurgeForgotten, y

(* One header changes, and with it what is known of its message. *)
LEMMA LossUpdate ==
  ASSUME LossInv, NEW m \in Msgs, NEW h, bits' = [bits EXCEPT ![m] = h],
         Excused(h, m, saved', bypass'), saved \subseteq saved', bypass \ {m} \subseteq bypass'
  PROVE  AllExcused'
<1> SUFFICES ASSUME NEW k \in Msgs PROVE Excused(bits'[k], k, saved', bypass')
  BY DEF AllExcused
<1>1. Excused(bits[k], k, saved, bypass) BY DEF LossInv, AllExcused
<1>2. CASE k = m BY <1>2 DEF LossInv, Inv, TypeOK
<1>3. CASE k # m BY <1>1, <1>3 DEF Excused, LossInv, Inv, TypeOK
<1> QED BY <1>2, <1>3

(* What a command does to a header and to copies and purges fit together. *)
LEMMA LossCommandStep ==
  ASSUME PurgeForgotten, LossInv, NEW m \in Msgs, NEW cmd \in Commands, Effects(cmd, m),
         Update(m, Apply(Header(m), CallsOf(cmd, bits[m])))
  PROVE  AllExcused'
<1> DEFINE calls == CallsOf(cmd, bits[m])
           h == Apply(Header(m), calls).h
<1>1. Header(m) \in Pair /\ Header(m).h = bits[m]
  BY HeaderPair DEF LossInv, Inv, Header
<1>2. cmd \in AllCommands BY ContextAssumption
<1>3. /\ "appended" \in h => "appended" \in bits[m] \/ cmd = "save"
      /\ "deleted" \in h => \/ "deleted" \in bits[m]
                            \/ /\ mode # "ro"
                               /\ cmd \in {"delete", "purge", "save", "delete-pattern"}
      /\ "purged" \in h => "purged" \in bits[m] \/ (mode # "ro" /\ cmd = "purge")
      /\ cmd = "delete" /\ mode # "ro" => "purged" \notin h
  <2>1. cmd = "delete" => calls[2] = Clear("PURGED") /\ calls[3] # Set("PURGED")
    BY <1>2, LossCommand
  <2>2. \A i \in 1..3 : calls[i] = Set("APPENDED") => cmd = "save"
    BY <1>2, LossCommand
  <2>3. \A i \in 1..3 : calls[i] = Set("PURGED") => cmd = "purge"
    BY <1>2, LossCommand
  <2>4. \A i \in 1..3 : calls[i] = Set("DELETE") =>
          cmd \in {"delete", "purge", "save", "delete-pattern"}
    BY <1>2, LossCommand
  <2> HIDE DEF calls
  <2> QED BY <1>1, <2>1, <2>2, <2>3, <2>4, LossCalls
<1>4. bits' = [bits EXCEPT ![m] = h] BY DEF Update
<1>5. Excused(bits[m], m, saved, bypass) BY DEF LossInv, AllExcused
<1> HIDE DEF h
<1>6. /\ saved' = (IF cmd = "save" THEN saved \cup {m} ELSE saved)
      /\ mode = "ro" => bypass' = bypass
      /\ mode # "ro" /\ cmd = "purge" => bypass' = bypass \cup {m}
      /\ cmd \notin {"delete", "delete-pattern", "save", "purge"} => bypass' = bypass
      /\ "deleted" \in bits[m] => bypass \subseteq bypass'
      /\ bypass \ {m} \subseteq bypass'
  BY DEF Effects
<1>7. Excused(h, m, saved', bypass')
  <2>1. "appended" \in h => m \in saved' BY <1>3, <1>5, <1>6 DEF Excused
  <2>2. "purged" \in h => "purge" \in Commands BY <1>3, <1>5 DEF Excused
  <2>3. ASSUME "deleted" \in h, "purged" \in h PROVE m \in saved' \cup bypass'
    <3>1. cmd # "delete-pattern" BY <2>2, <2>3 DEF PurgeForgotten
    <3>2. CASE cmd = "save" BY <1>6, <3>2
    <3>3. CASE cmd = "purge" /\ mode # "ro" BY <1>6, <3>3
    <3>4. CASE cmd # "save" /\ ~(cmd = "purge" /\ mode # "ro")
      <4>1. "deleted" \in bits[m] /\ "purged" \in bits[m]
        BY <1>3, <2>3, <3>1, <3>4
      <4> QED BY <1>5, <1>6, <4>1 DEF Excused
    <3> QED BY <3>2, <3>3, <3>4
  <2> QED BY <2>1, <2>2, <2>3 DEF Excused
<1>8. saved \subseteq saved' BY <1>6
<1> QED BY <1>4, <1>6, <1>7, <1>8, LossUpdate

(* A command, for one message or in a loop. *)
LEMMA LossCommands ==
  ASSUME PurgeForgotten, LossInv,
         \/ \E cmd \in Commands, m \in visible : Command(cmd, m)
         \/ \E m \in todo : LoopCommand(m)
  PROVE  AllExcused' /\ Given'
<1>1. visible \subseteq Msgs /\ todo \subseteq Msgs BY DEF LossInv, Inv, TypeOK
<1>2. ASSUME NEW cmd \in Commands, NEW m \in visible, Command(cmd, m) PROVE AllExcused' /\ Given'
  <2>1. AllExcused' BY <1>1, <1>2, LossCommandStep DEF Command
  <2> QED BY <1>2, <2>1 DEF Command, LossInv, Given
<1>3. ASSUME NEW m \in todo, LoopCommand(m) PROVE AllExcused' /\ Given'
  <2>1. doing \in Commands BY <1>3 DEF LoopCommand, LossInv, Given
  <2>2. AllExcused' BY <1>1, <1>3, <2>1, LossCommandStep DEF LoopCommand
  <2>3. doing' \in {"idle", doing} BY <1>3 DEF LoopCommand
  <2> QED BY <2>1, <2>2, <2>3 DEF Given, AllCommands
<1> QED BY <1>2, <1>3

(* Scoring again. *)
LEMMA LossRescore ==
  ASSUME PurgeForgotten, LossInv, NEW m \in todo, NEW s \in Scores, RescoreMessage(m, s)
  PROVE  AllExcused' /\ Given'
<1> DEFINE h == Apply(Header(m), ScoreCalls(s)).h
<1>1. m \in Msgs BY DEF LossInv, Inv, TypeOK
<1>2. Header(m) \in Pair /\ Header(m).h = bits[m]
  BY <1>1, HeaderPair DEF LossInv, Inv, Header
<1>3. Excused(bits[m], m, saved, bypass) BY <1>1 DEF LossInv, AllExcused
<1>4. Excused(h, m, saved, bypass) BY <1>2, <1>3, LossScored
<1>5. bits' = [bits EXCEPT ![m] = h] BY DEF RescoreMessage, Update
<1> HIDE DEF h
<1>6. /\ saved' = saved /\ bypass \ {m} \subseteq bypass'
      /\ "DELETE" \notin s => bypass' = bypass
  BY DEF RescoreMessage, Effects
<1>7. Excused(h, m, saved', bypass')
  <2>1. CASE "DELETE" \in s
    <3>1. "purged" \notin h BY <1>4, <2>1 DEF Excused, PurgeForgotten
    <3> QED BY <1>4, <1>6, <3>1 DEF Excused
  <2>2. CASE "DELETE" \notin s BY <1>4, <1>6, <2>2
  <2> QED BY <2>1, <2>2
<1>8. AllExcused' BY <1>1, <1>5, <1>6, <1>7, LossUpdate
<1>9. doing' \in {"idle", doing} BY DEF RescoreMessage
<1> QED BY <1>8, <1>9 DEF LossInv, Given, AllCommands

(* Closing: mark_old and moving read messages. *)
LEMMA LossMove ==
  ASSUME LossInv, NEW m \in todo, MarkOld(m) \/ MoveMessage(m)
  PROVE  AllExcused' /\ Given'
<1>1. m \in Msgs BY DEF LossInv, Inv, TypeOK
<1>2. Header(m) \in Pair /\ Header(m).h = bits[m]
  BY <1>1, HeaderPair DEF LossInv, Inv, Header
<1>3. Excused(bits[m], m, saved, bypass) BY <1>1 DEF LossInv, AllExcused
<1>4. CASE MarkOld(m)
  <2> DEFINE h == SetFlag(Header(m), Set("OLD")).h
  <2>1. bits' = [bits EXCEPT ![m] = h] /\ saved' = saved /\ bypass' = bypass /\ doing' = doing
    BY <1>4 DEF MarkOld, Update, folderVars
  <2>2. /\ "appended" \in h => "appended" \in bits[m]
        /\ "deleted" \in h => "deleted" \in bits[m]
        /\ "purged" \in h => "purged" \in bits[m]
    BY <1>2, LossCall DEF Set
  <2> HIDE DEF h
  <2>3. Excused(h, m, saved', bypass') BY <1>3, <2>1, <2>2 DEF Excused
  <2>4. AllExcused' BY <1>1, <2>1, <2>3, LossUpdate
  <2> QED BY <2>1, <2>4 DEF LossInv, Given
<1>5. CASE MoveMessage(m)
  <2> DEFINE calls == <<Set("DELETE"), Set("APPENDED"), Skip>>
             h == Apply(Header(m), calls).h
  <2>1. /\ bits' = [bits EXCEPT ![m] = h] /\ saved' = saved \cup {m}
        /\ bypass \ {m} \subseteq bypass' /\ doing' \in {"move", "finish"}
    BY <1>5 DEF MoveMessage, Update, Effects
  <2>2. \A i \in 1..3 : calls[i] # Set("PURGED")
    <3>1. Skip # Set("PURGED") BY LosingCalls DEF Losing
    <3> QED BY <3>1, LosingCalls, ThreeCalls
  <2>3. "purged" \in h => "purged" \in bits[m] BY <1>2, <2>2, LossCalls
  <2> HIDE DEF h
  <2>4. Excused(h, m, saved', bypass') BY <1>3, <2>1, <2>3 DEF Excused
  <2>5. AllExcused' BY <1>1, <2>1, <2>4, LossUpdate
  <2> QED BY <2>1, <2>5 DEF Given, AllCommands
<1> QED BY <1>4, <1>5

(* Reading new mail: no message arrives with a copy or a purge. *)
LEMMA LossParse ==
  ASSUME LossInv, NEW b, StartParse(b), saved' = saved,
         \A k \in Msgs : Excused(b[k], k, saved, bypass')
  PROVE  AllExcused' /\ Given'
<1>1. ASSUME NEW k \in Msgs PROVE Excused(bits'[k], k, saved', bypass')
  <2>1. CASE k \in stored \ here
    <3>1. bits'[k] = disk[k] /\ disk[k] \subseteq Status \cup {"deleted"}
      BY <2>1 DEF StartParse, LossInv, Inv, TypeOK
    <3> QED BY <3>1 DEF Excused, Status
  <2>2. CASE k \notin stored \ here
    <3>1. bits'[k] = b[k] BY <2>2 DEF StartParse
    <3> QED BY <3>1
  <2> QED BY <2>1, <2>2
<1> QED BY <1>1 DEF AllExcused, StartParse, Given, AllCommands

(* A message has been read, and is scored. *)
LEMMA LossArrive ==
  ASSUME PurgeForgotten, LossInv, NEW m \in Msgs, NEW s \in Scores,
         NEW b \in [Msgs -> SUBSET Bits], NEW c \in [Keys -> Int],
         Arrive(m, b, c, s), \A k \in Msgs : Excused(b[k], k, saved, bypass)
  PROVE  AllExcused' /\ Given'
<1> DEFINE x == [h |-> b[m], c |-> c]
           h == Apply(x, ScoreCalls(s)).h
<1>1. x \in Pair /\ x.h = b[m] BY DEF Pair
<1>2. bits' = [b EXCEPT ![m] = h] BY DEF Arrive
<1>3. saved' = saved /\ bypass' = bypass BY DEF Arrive, folderVars
<1>4. Excused(h, m, saved, bypass) BY <1>1, LossScored
<1> HIDE DEF h
<1>5. \A k \in Msgs : Excused(bits'[k], k, saved', bypass') BY <1>2, <1>3, <1>4
<1>6. doing' \in {"index", "parse"} BY DEF Arrive
<1> QED BY <1>5, <1>6 DEF AllExcused, Given, AllCommands

LEMMA LossReading ==
  ASSUME PurgeForgotten, LossInv,
         \/ \E m \in todo, s \in Scores : ParseMessage(m, s)
         \/ \E m \in todo, n \in here \cup todo, s, t \in Scores : ParseSuperseding(m, n, s, t)
  PROVE  AllExcused' /\ Given'
<1>1. /\ todo \subseteq Msgs /\ here \subseteq Msgs /\ bits \in [Msgs -> SUBSET Bits]
      /\ ctx \in [Keys -> Int]
  BY DEF LossInv, Inv, TypeOK, Keys
<1>2. \A k \in Msgs : Excused(bits[k], k, saved, bypass) BY DEF LossInv, AllExcused
<1>3. ASSUME NEW m \in todo, NEW s \in Scores, ParseMessage(m, s) PROVE AllExcused' /\ Given'
  BY <1>1, <1>2, <1>3, LossArrive DEF ParseMessage
<1>4. ASSUME NEW m \in todo, NEW n \in here \cup todo, NEW s \in Scores, NEW t \in Scores,
             ParseSuperseding(m, n, s, t)
      PROVE  AllExcused' /\ Given'
  <2> DEFINE found == n \in here \/ idhash = "no"
             x == IF found THEN Apply(Header(n), ScoreCalls(t)) ELSE Header(n)
  <2>1. Arrive(m, [bits EXCEPT ![n] = x.h], x.c, s) BY <1>4 DEF ParseSuperseding
  <2>2. n \in Msgs /\ m \in Msgs BY <1>1
  <2>3. Header(n) \in Pair /\ Header(n).h = bits[n]
    BY <2>2, HeaderPair DEF LossInv, Inv, Header
  <2>4. x \in Pair /\ Excused(x.h, n, saved, bypass) BY <1>2, <2>2, <2>3, LossScored
  <2> HIDE DEF x
  <2>5. x.h \in SUBSET Bits /\ x.c \in [Keys -> Int] BY <2>4 DEF Pair
  <2>6. [bits EXCEPT ![n] = x.h] \in [Msgs -> SUBSET Bits] BY <1>1, <2>5
  <2>7. \A k \in Msgs : Excused([bits EXCEPT ![n] = x.h][k], k, saved, bypass)
    BY <1>1, <1>2, <2>4
  <2> QED BY <2>1, <2>2, <2>5, <2>6, <2>7, LossArrive
<1> QED BY <1>3, <1>4

(* What the answer no undeletes need not be excused. *)
LEMMA LossAnswer ==
  ASSUME LossInv, NEW ans, NEW k \in Msgs
  PROVE  Excused(BitsAfter(ans)[k], k, saved, BypassAfter(ans))
<1>1. Excused(bits[k], k, saved, bypass) BY DEF LossInv, AllExcused
<1>2. BitsAfter(ans)[k] = (IF ans = "no" /\ k \in here THEN bits[k] \ {"deleted"} ELSE bits[k])
  BY DEF BitsAfter
<1> QED BY <1>1, <1>2 DEF Excused, BypassAfter

(* A sync that fails. *)
LEMMA LossFailure ==
  ASSUME LossInv, NEW ans, TrashFails(ans) \/ SyncFails(ans)
  PROVE  AllExcused' /\ Given'
<1>1. CASE TrashFails(ans)
  BY <1>1 DEF TrashFails, folderVars, LossInv, AllExcused, Given, AllCommands
<1>2. CASE SyncFails(ans)
  <2>1. bypass' = BypassAfter(ans) /\ saved' = saved BY <1>2 DEF SyncFails
  <2>2. \A k \in Msgs : Excused(BitsAfter(ans)[k], k, saved, bypass') BY <2>1, LossAnswer
  <2>3. CASE StartParse(BitsAfter(ans)) BY <2>1, <2>2, <2>3, LossParse
  <2>4. CASE bits' = BitsAfter(ans) /\ doing' = "idle"
    BY <2>1, <2>2, <2>4 DEF AllExcused, Given, AllCommands
  <2> QED BY <1>2, <2>3, <2>4 DEF SyncFails
<1> QED BY <1>1, <1>2

(* One that succeeds. *)
LEMMA LossSync ==
  ASSUME LossInv, NEW ans, SyncMailbox(ans)
  PROVE  AllExcused' /\ Given'
<1>1. doing' = doing BY DEF SyncMailbox
<1> SUFFICES ASSUME NEW k \in Msgs PROVE Excused(bits'[k], k, saved', bypass')
  BY <1>1 DEF AllExcused, LossInv, Given
<1>2. /\ saved' = saved \ Doomed(ans) /\ bypass' = BypassAfter(ans) \ Doomed(ans)
  BY DEF SyncMailbox, Write
<1>3. bits'[k] = (IF k \in here \ Doomed(ans) THEN BitsAfter(ans)[k] \ {"changed"} ELSE {})
  BY DEF SyncMailbox
<1>4. Excused(BitsAfter(ans)[k], k, saved, BypassAfter(ans)) BY LossAnswer
<1>5. CASE k \in here \ Doomed(ans) BY <1>2, <1>3, <1>4, <1>5 DEF Excused
<1>6. CASE k \notin here \ Doomed(ans) BY <1>3, <1>6 DEF Excused
<1> QED BY <1>5, <1>6

(* Closing forgets all headers. *)
LEMMA LossClosing == ASSUME Fastclose PROVE AllExcused' /\ Given'
BY DEF Fastclose, AllExcused, Excused, Given, AllCommands

(* The steps that leave headers, copies and purges alone. *)
LEMMA LossQuiet ==
  ASSUME LossInv,
         \/ UpdateIndex
         \/ \E cmd \in Commands : TagCommand(cmd)
         \/ \E cmd \in Commands, pat \in Patterns : PatternFunc(cmd, pat)
         \/ Rescore
         \/ \E pat \in Patterns \cup {"all"} : Limit(pat)
         \/ ToggleWrite
         \/ \E ans \in {"yes", "no"}, move \in BOOLEAN : CloseStart(ans, move)
         \/ MarkedOld
         \/ MoveFails
         \/ \E a \in Arrivals : Deliver(a)
  PROVE  AllExcused' /\ Given'
<1> SUFFICES bits' = bits /\ saved' = saved /\ bypass' = bypass /\ Given'
  BY DEF LossInv, AllExcused
<1>0. Given BY DEF LossInv
<1> USE DEF folderVars, hdrVars
<1>1. ASSUME NEW what \in Commands \cup {"score"}, NEW S, Loop(what, S)
      PROVE  bits' = bits /\ saved' = saved /\ bypass' = bypass /\ Given'
  BY <1>1 DEF Loop, Given, AllCommands
<1>2. CASE UpdateIndex BY <1>2 DEF UpdateIndex, Given, AllCommands
<1>3. CASE \E cmd \in Commands : TagCommand(cmd) BY <1>1, <1>3 DEF TagCommand
<1>4. CASE \E cmd \in Commands, pat \in Patterns : PatternFunc(cmd, pat)
  BY <1>1, <1>4 DEF PatternFunc
<1>5. CASE Rescore BY <1>1, <1>5 DEF Rescore
<1>6. CASE \E pat \in Patterns \cup {"all"} : Limit(pat) BY <1>0, <1>6 DEF Limit, Given
<1>7. CASE ToggleWrite BY <1>0, <1>7 DEF ToggleWrite, Given
<1>8. ASSUME NEW ans, NEW move, CloseStart(ans, move)
      PROVE  bits' = bits /\ saved' = saved /\ bypass' = bypass /\ Given'
  BY <1>8 DEF CloseStart, Given, AllCommands
<1>9. CASE MarkedOld BY <1>9 DEF MarkedOld, Given, AllCommands
<1>10. CASE MoveFails BY <1>10 DEF MoveFails, Given, AllCommands
<1>11. CASE \E a \in Arrivals : Deliver(a) BY <1>0, <1>11 DEF Deliver, Given
<1> QED BY <1>2, <1>3, <1>4, <1>5, <1>6, <1>7, <1>8, <1>9, <1>10, <1>11

(* Every step preserves it. *)
LEMMA LossNext == ASSUME PurgeForgotten, LossInv, [Next]_vars PROVE LossInv'
<1>1. Inv' BY NextInv DEF LossInv
<1>2. CASE UNCHANGED vars
  BY <1>1, <1>2 DEF LossInv, Given, AllExcused, vars, hdrVars, folderVars
<1> SUFFICES ASSUME Next PROVE AllExcused' /\ Given' BY <1>1, <1>2 DEF LossInv
<1>3. CASE (\E md \in {"rw", "ro"} : Open(md)) \/ CheckMailbox
  <2>1. StartParse(bits) /\ saved' = saved /\ bypass' = bypass
    BY <1>3 DEF Open, CheckMailbox, folderVars
  <2>2. \A k \in Msgs : Excused(bits[k], k, saved, bypass') BY <2>1 DEF LossInv, AllExcused
  <2> QED BY <2>1, <2>2, LossParse
<1>4. ASSUME NEW ans \in {"yes", "no"}, SyncError(ans) PROVE AllExcused' /\ Given'
  BY <1>4, LossFailure DEF SyncError
<1>5. CASE CloseError BY <1>5, LossFailure DEF CloseError
<1>6. CASE (\E ans \in {"yes", "no"} : SyncEmpties(ans)) \/ CloseUnsaved \/ CloseFinish
  <2>1. Fastclose BY <1>6 DEF SyncEmpties, CloseUnsaved, CloseFinish
  <2> QED BY <2>1, LossClosing
<1>7. ASSUME NEW ans \in {"yes", "no"}, SyncMailbox(ans) PROVE AllExcused' /\ Given'
  BY <1>7, LossSync
<1>8. CASE (\E cmd \in Commands, m \in visible : Command(cmd, m)) \/ \E m \in todo : LoopCommand(m)
  BY <1>8, LossCommands
<1>9. CASE \E m \in todo, s \in Scores : RescoreMessage(m, s) BY <1>9, LossRescore
<1>10. CASE \E m \in todo : MarkOld(m) \/ MoveMessage(m) BY <1>10, LossMove
<1>11. CASE \/ \E m \in todo, s \in Scores : ParseMessage(m, s)
            \/ \E m \in todo, n \in here \cup todo, s, t \in Scores :
                 ParseSuperseding(m, n, s, t)
  BY <1>11, LossReading
<1> QED BY <1>3, <1>4, <1>5, <1>6, <1>7, <1>8, <1>9, <1>10, <1>11, LossQuiet DEF Next, NextFor

(* What writing the folder drops has a copy or was purged. *)
LEMMA LossWrite ==
  ASSUME LossInv, NEW ans, Write(ans), NEW m \in stored \ stored'
  PROVE  m \in trash' \cup saved \cup bypass
<1>1. m \in Doomed(ans) /\ m \in Msgs BY DEF Write, LossInv, Inv, TypeOK
<1>2. "deleted" \in bits[m] BY <1>1 DEF Doomed, BitsAfter
<1>3. CASE bits[m] \cap {"appended", "purged"} = {} BY <1>1, <1>3 DEF Write, ForTrash
<1>4. CASE bits[m] \cap {"appended", "purged"} # {}
  BY <1>1, <1>2, <1>4 DEF LossInv, AllExcused, Excused
<1> QED BY <1>3, <1>4

(* All that writes the folder. *)
LEMMA LossStep ==
  ASSUME LossInv, [Next]_vars
  PROVE  stored \subseteq stored' \/ \E ans : Write(ans)
<1>1. CASE UNCHANGED vars BY <1>1 DEF vars, folderVars
<1> USE DEF folderVars
<1>2. ASSUME NEW m, NEW b, NEW c, NEW s, Arrive(m, b, c, s) PROVE stored' = stored
  BY <1>2 DEF Arrive
<1>3. ASSUME NEW what, NEW S, Loop(what, S) PROVE stored' = stored BY <1>3 DEF Loop
<1>4. ASSUME NEW cmd, NEW m, Effects(cmd, m) PROVE stored' = stored BY <1>4 DEF Effects
<1>5. ASSUME NEW ans, TrashFails(ans) \/ SyncFails(ans) PROVE stored' = stored
  BY <1>5 DEF TrashFails, SyncFails
<1>6. ASSUME NEW a, Deliver(a) PROVE stored \subseteq stored' BY <1>6 DEF Deliver
<1>7. ASSUME NEW md, Open(md) PROVE stored' = stored BY <1>7 DEF Open
<1>8. ASSUME NEW pat, Limit(pat) PROVE stored' = stored BY <1>8 DEF Limit
<1>9. ASSUME NEW ans, NEW move, CloseStart(ans, move) PROVE stored' = stored
  BY <1>9 DEF CloseStart
<1>10. ASSUME NEW m, MarkOld(m) PROVE stored' = stored BY <1>10 DEF MarkOld
<1>11. ASSUME CheckMailbox \/ UpdateIndex \/ ToggleWrite \/ CloseUnsaved \/ MarkedOld \/ MoveFails
       PROVE  stored' = stored
  BY <1>11 DEF CheckMailbox, UpdateIndex, ToggleWrite, CloseUnsaved, MarkedOld, MoveFails
<1>12. CASE CloseFinish BY <1>12 DEF CloseFinish
<1>13. ASSUME NEW ans, SyncMailbox(ans) \/ SyncEmpties(ans) PROVE Write(ans)
  BY <1>13 DEF SyncMailbox, SyncEmpties
<1> QED
  BY <1>1, <1>2, <1>3, <1>4, <1>5, <1>6, <1>7, <1>8, <1>9, <1>10, <1>11, <1>12, <1>13
  DEF Next, NextFor, ParseMessage, ParseSuperseding, Command, LoopCommand, RescoreMessage,
      MoveMessage, TagCommand, PatternFunc, Rescore, SyncError, CloseError

(* A message leaves the folder only with a copy in the trash folder or in    *)
(* another one, or purged, for any number of messages and all commands and   *)
(* scores, but for those by which a purge that was answered with no returns. *)
THEOREM NothingLost == ASSUME PurgeForgotten PROVE Spec => DeletedGoesToTrash
<1> DEFINE Kept == \A m \in stored \ stored' : m \in trash' \cup saved \cup bypass
<1>1. Init => LossInv
  <2> SUFFICES ASSUME Init PROVE LossInv OBVIOUS
  <2>1. Inv BY InitInv
  <2> QED BY <2>1 DEF Init, LossInv, Given, AllExcused, Excused, AllCommands
<1>2. LossInv /\ [Next]_vars => LossInv' BY LossNext
<1>3. LossInv /\ [Next]_vars => [Kept]_vars BY LossStep, LossWrite
<1> QED BY <1>1, <1>2, <1>3, PTL DEF Spec, DeletedGoesToTrash

-----------------------------------------------------------------------------
(* Cached searches *)

SearchInv == Inv /\ SearchTypeOK /\ SearchCacheFresh

(* Each step of searching is one of the mailbox, or a search. *)
LEMMA SearchSteps == ASSUME [SearchNext]_<<vars, cacheVars>> PROVE [Next]_vars
<1>1. CASE FlagStep(Commands) BY <1>1 DEF FlagStep, Next, NextFor
<1>2. CASE InvalidatingStep BY <1>2 DEF InvalidatingStep, Next, NextFor
<1>3. CASE ClosingStep BY <1>3 DEF ClosingStep, Next, NextFor
<1>4. CASE OtherStep(Commands) BY <1>4 DEF OtherStep, Next, NextFor
<1>5. CASE FailedSyncStep BY <1>5 DEF FailedSyncStep, Next, NextFor
<1>6. ASSUME NEW pat, NEW V, SearchCommand(pat, V) PROVE UNCHANGED vars
  BY <1>6 DEF SearchCommand
<1> QED BY <1>1, <1>2, <1>3, <1>4, <1>5, <1>6 DEF SearchNext, SearchNextFor

(* The results that are kept are right if the pattern says the same of the   *)
(* messages as before, but for those that are overlooked.                    *)
LEMMA CacheKept ==
  ASSUME SearchTypeOK, SearchCacheFresh, TypeOK', searchpat' = searchpat,
         invalid' = invalid, NEW S, Forget(S), searched \ S \subseteq here',
         overlooked \cap searched' \subseteq overlooked', overlooked' \subseteq searched',
         \A m \in (searched \ S) \ overlooked' :
           Match(searchpat, bits[m]) <=> Match(searchpat, bits'[m])
  PROVE  SearchTypeOK' /\ SearchCacheFresh'
<1>1. searched' = searched \ S /\ matched' = matched \ S BY DEF Forget
<1>2. SearchTypeOK' BY <1>1 DEF SearchTypeOK
<1>3. ASSUME invalid' = "no", NEW m \in searched' \ overlooked'
      PROVE  m \in matched' <=> Match(searchpat', bits'[m])
  <2>1. m \in (searched \ S) \ overlooked' /\ m \in searched \ overlooked BY <1>1, <1>3
  <2>2. m \in matched <=> Match(searchpat, bits[m]) BY <1>3, <2>1 DEF SearchCacheFresh
  <2>3. Match(searchpat, bits[m]) <=> Match(searchpat, bits'[m]) BY <2>1
  <2>4. m \in matched' <=> m \in matched BY <1>1, <2>1
  <2>5. Match(searchpat', bits'[m]) <=> Match(searchpat, bits'[m]) OBVIOUS
  <2> QED BY <2>2, <2>3, <2>4, <2>5
<1>4. SearchCacheFresh' BY <1>3 DEF SearchCacheFresh
<1> QED BY <1>2, <1>4

(* What setting flags leaves alone. *)
LEMMA FlagStepKeeps ==
  ASSUME FlagStep(Commands) PROVE here \subseteq here' /\ disk' = disk
<1>1. ASSUME NEW m, NEW b, NEW c, NEW s, Arrive(m, b, c, s)
      PROVE  here \subseteq here' /\ disk' = disk
  BY <1>1 DEF Arrive, folderVars
<1>2. ASSUME NEW m, Rest(m) PROVE here' = here BY <1>2 DEF Rest
<1>3. ASSUME NEW cmd, NEW m, Effects(cmd, m) PROVE disk' = disk BY <1>3 DEF Effects
<1>4. ASSUME NEW cmd, NEW m, Command(cmd, m) PROVE here' = here /\ disk' = disk
  BY <1>3, <1>4 DEF Command
<1>5. ASSUME NEW m, LoopCommand(m) PROVE here' = here /\ disk' = disk
  BY <1>2, <1>3, <1>5 DEF LoopCommand
<1>6. ASSUME NEW m, MarkOld(m) PROVE here' = here /\ disk' = disk
  BY <1>2, <1>6 DEF MarkOld, folderVars
<1>7. ASSUME NEW m, MoveMessage(m) PROVE here' = here /\ disk' = disk
  BY <1>2, <1>3, <1>7 DEF MoveMessage
<1>8. ASSUME NEW m, NEW s, RescoreMessage(m, s) PROVE here' = here /\ disk' = disk
  BY <1>2, <1>3, <1>8 DEF RescoreMessage
<1>9. ASSUME NEW m, NEW s, ParseMessage(m, s) PROVE here \subseteq here' /\ disk' = disk
  BY <1>1, <1>9 DEF ParseMessage
<1>10. ASSUME NEW m, NEW n, NEW s, NEW t, ParseSuperseding(m, n, s, t)
       PROVE  here \subseteq here' /\ disk' = disk
  BY <1>1, <1>10 DEF ParseSuperseding
<1> QED BY <1>4, <1>5, <1>6, <1>7, <1>8, <1>9, <1>10 DEF FlagStep

(* A flag is set.  If read or old change and the change cannot be seen, the  *)
(* header is not marked as changed before nor after, so that both times it   *)
(* says what the folder says; or it is marked both times, and overlooked.    *)
LEMMA CacheFlags ==
  ASSUME SearchInv, Inv', FlagStep(Commands)
  PROVE  SearchTypeOK' /\ SearchCacheFresh'
<1> DEFINE S == {m \in here : ~Unnoticed(m)}
           Over == {m \in searched : searchpat = "~N" /\ ChangedAgain(m)}
<1>1. /\ Forget(S) /\ UNCHANGED <<searchpat, invalid>>
      /\ overlooked' = searched' \cap (overlooked \cup Over)
  BY DEF FlagStep
<1>2. searched \subseteq here /\ searchpat \in SearchPatterns \cup {"none"}
  BY DEF SearchInv, SearchTypeOK
<1>3. here \subseteq here' /\ disk' = disk BY FlagStepKeeps
<1>4. searched' = searched \ S BY <1>1 DEF Forget
<1>5. ASSUME NEW m \in (searched \ S) \ overlooked'
      PROVE  Match(searchpat, bits[m]) <=> Match(searchpat, bits'[m])
  <2>1. m \in here /\ m \in here' /\ Unnoticed(m) BY <1>2, <1>3, <1>5
  <2>2. m \in searched' /\ m \notin Over BY <1>1, <1>4, <1>5
  <2>3. \A f \in {"deleted", "flagged", "tagged"} : f \in bits[m] <=> f \in bits'[m]
    BY <2>1 DEF Unnoticed
  <2>4. ASSUME searchpat = "~N"
        PROVE  bits[m] \cap {"read", "old"} = {} <=> bits'[m] \cap {"read", "old"} = {}
    <3>1. CASE "changed" \in bits[m]
      <4>1. bits[m] \cap {"read", "old"} = bits'[m] \cap {"read", "old"}
        BY <1>5, <2>2, <2>4, <3>1 DEF ChangedAgain
      <4> QED BY <4>1
    <3>2. CASE "changed" \notin bits[m]
      <4>1. "changed" \notin bits'[m] BY <2>1, <3>2 DEF Unnoticed
      <4>2. Stored(disk[m]) = Stored(bits[m])
        BY <2>1, <3>2 DEF SearchInv, Inv, Changes, Known, Faithful
      <4>3. Stored(disk[m]) = Stored(bits'[m])
        <5>1. Stored(disk'[m]) = Stored(bits'[m]) BY <2>1, <4>1 DEF Inv, Changes, Known, Faithful
        <5> QED BY <1>3, <5>1
      <4>4. Stored(bits[m]) = Stored(bits'[m]) BY <4>2, <4>3
      <4>5. \A h : h \cap {"read", "old"} = {} <=> "old" \notin Stored(h) BY DEF Stored
      <4> QED BY <4>4, <4>5
    <3> QED BY <3>1, <3>2
  <2>5. CASE searchpat = "~N" BY <2>4, <2>5 DEF Match
  <2>6. CASE searchpat # "~N" BY <2>3, <2>6 DEF Match
  <2> QED BY <2>5, <2>6
<1>6. searched \ S \subseteq here' BY <1>2, <1>3
<1>7. overlooked \cap searched' \subseteq overlooked' /\ overlooked' \subseteq searched'
  BY <1>1
<1>8. TypeOK' BY DEF Inv
<1> HIDE DEF S, Over
<1> QED BY <1>1, <1>5, <1>6, <1>7, <1>8, CacheKept DEF SearchInv

(* A sync fails: messages may no longer be deleted, other flags stay. *)
LEMMA CacheFailedSync ==
  ASSUME SearchInv, TypeOK', FailedSyncStep
  PROVE  SearchTypeOK' /\ SearchCacheFresh'
<1> DEFINE Over == {m \in searched : searchpat = "~D" /\ "deleted" \in bits[m] \ bits'[m]}
<1>1. /\ UNCHANGED <<searchpat, searched, matched, invalid>>
      /\ overlooked' = overlooked \cup Over
  BY DEF FailedSyncStep
<1>2. /\ searched \subseteq here /\ here \subseteq Msgs /\ overlooked \subseteq searched
      /\ bits \in [Msgs -> SUBSET Bits]
  BY DEF SearchInv, SearchTypeOK, Inv, TypeOK
<1>3. PICK ans \in {"yes", "no"} : TrashFails(ans) \/ SyncFails(ans)
  BY DEF FailedSyncStep, SyncError
<1>4. here' = here /\ \A m \in here : bits'[m] = bits[m] \/ bits'[m] = bits[m] \ {"deleted"}
  <2>1. CASE TrashFails(ans) BY <2>1 DEF TrashFails
  <2>2. CASE SyncFails(ans)
    <3>1. here' = here /\ (StartParse(BitsAfter(ans)) \/ bits' = BitsAfter(ans))
      BY <2>2 DEF SyncFails
    <3>2. \A m \in here : bits'[m] = BitsAfter(ans)[m] BY <1>2, <3>1 DEF StartParse
    <3> QED BY <1>2, <3>1, <3>2 DEF BitsAfter
  <2> QED BY <1>3, <2>1, <2>2
<1>5. ASSUME NEW m \in (searched \ {}) \ overlooked'
      PROVE  Match(searchpat, bits[m]) <=> Match(searchpat, bits'[m])
  <2>1. m \in here /\ m \notin Over BY <1>1, <1>2, <1>5
  <2>2. CASE bits'[m] = bits[m] BY <2>2
  <2>3. CASE bits'[m] = bits[m] \ {"deleted"}
    <3>1. searchpat = "~D" => bits'[m] = bits[m] BY <1>5, <2>1, <2>3
    <3> QED BY <2>3, <3>1 DEF Match
  <2> QED BY <1>4, <2>1, <2>2, <2>3
<1>6. Forget({}) BY <1>1 DEF Forget
<1>7. searched \ {} \subseteq here' BY <1>2, <1>4
<1>8. overlooked \cap searched' \subseteq overlooked' /\ overlooked' \subseteq searched'
  BY <1>1, <1>2
<1> HIDE DEF Over
<1> QED BY <1>1, <1>5, <1>6, <1>7, <1>8, CacheKept DEF SearchInv

(* Steps that do not look at the cache leave the flags alone. *)
LEMMA CacheOthers ==
  ASSUME SearchInv, TypeOK', OtherStep(Commands)
  PROVE  SearchTypeOK' /\ SearchCacheFresh'
<1>1. /\ searched \subseteq here /\ here \subseteq Msgs /\ UNCHANGED cacheVars
      /\ bits \in [Msgs -> SUBSET Bits] /\ overlooked \subseteq searched
  BY DEF SearchInv, SearchTypeOK, Inv, TypeOK, OtherStep
<1> DEFINE Same == here' = here /\ \A m \in here : bits'[m] = bits[m]
<1>2. ASSUME here' = here, StartParse(bits) PROVE Same BY <1>1, <1>2 DEF StartParse
<1>3. ASSUME NEW what, NEW T, Loop(what, T) PROVE Same BY <1>3 DEF Loop
<1>4. Same
  <2>1. ASSUME UNCHANGED <<here, bits>> PROVE Same BY <2>1
  <2>2. CASE \E a \in Arrivals : Deliver(a) BY <2>1, <2>2 DEF Deliver, hdrVars
  <2>3. CASE (\E md \in {"rw", "ro"} : Open(md)) \/ CheckMailbox
    BY <1>2, <2>3 DEF Open, CheckMailbox
  <2>4. CASE \/ \E cmd \in Commands : TagCommand(cmd)
             \/ \E cmd \in Commands, pat \in Patterns : PatternFunc(cmd, pat)
             \/ Rescore
    BY <1>3, <2>4 DEF TagCommand, PatternFunc, Rescore
  <2>5. CASE (\E pat \in Patterns \cup {"all"} : Limit(pat)) \/ ToggleWrite \/ MarkedOld
    BY <2>1, <2>5 DEF Limit, ToggleWrite, MarkedOld
  <2>6. CASE \E ans \in {"yes", "no"}, move \in BOOLEAN : CloseStart(ans, move)
    BY <2>1, <2>6 DEF CloseStart
  <2> QED BY <2>2, <2>3, <2>4, <2>5, <2>6 DEF OtherStep
<1>5. Forget({}) BY <1>1 DEF Forget, cacheVars
<1>6. UNCHANGED <<searchpat, invalid, searched, overlooked>> BY <1>1 DEF cacheVars
<1>7. searched \ {} \subseteq here' BY <1>1, <1>4
<1>8. \A m \in (searched \ {}) \ overlooked' :
        Match(searchpat, bits[m]) <=> Match(searchpat, bits'[m])
  BY <1>1, <1>4
<1>9. overlooked \cap searched' \subseteq overlooked' /\ overlooked' \subseteq searched'
  BY <1>1, <1>6
<1> QED BY <1>5, <1>6, <1>7, <1>8, <1>9, CacheKept DEF SearchInv

(* mutt_search_command() uses and stores results of its own pattern only. *)
LEMMA CacheSearch ==
  ASSUME SearchInv, TypeOK', NEW pat \in SearchPatterns, NEW V \in SUBSET visible,
         SearchCommand(pat, V)
  PROVE  SearchTypeOK' /\ SearchCacheFresh'
<1> DEFINE known == IF invalid = "yes" \/ pat # searchpat THEN {} ELSE searched
           Hit(m) == IF m \in known THEN m \in matched ELSE Match(pat, bits[m])
<1>1. /\ searchpat' = pat /\ searched' = known \cup V /\ invalid' = "no"
      /\ matched' = (known \cap matched) \cup {m \in V : Hit(m)} /\ UNCHANGED vars
      /\ overlooked' = overlooked \cap known
  BY DEF SearchCommand
<1>2. /\ visible \subseteq here /\ searched \subseteq here /\ invalid \in {"yes", "no"}
      /\ matched \subseteq searched
  BY DEF SearchInv, SearchTypeOK, TypeOK
<1>3. \A m \in known \ overlooked : m \in matched <=> Match(pat, bits[m])
  BY <1>2 DEF SearchInv, SearchCacheFresh
<1>4. known \subseteq here BY <1>2
<1> HIDE DEF known
<1>5. here' = here /\ bits' = bits BY <1>1 DEF vars, hdrVars
<1>6. SearchTypeOK' BY <1>1, <1>2, <1>4, <1>5 DEF SearchTypeOK
<1>7. \A m \in searched' \ overlooked' : m \in matched' <=> Match(pat, bits[m])
  BY <1>1, <1>3
<1>8. SearchCacheFresh' BY <1>1, <1>5, <1>7 DEF SearchCacheFresh
<1> QED BY <1>6, <1>8

LEMMA SearchNextInv ==
  ASSUME SearchInv, [SearchNext]_<<vars, cacheVars>> PROVE SearchInv'
<1>1. Inv' BY SearchSteps, NextInv DEF SearchInv
<1>2. TypeOK' BY <1>1 DEF Inv
<1> SUFFICES SearchTypeOK' /\ SearchCacheFresh' BY <1>1 DEF SearchInv
<1>3. CASE UNCHANGED <<vars, cacheVars>>
  BY <1>2, <1>3 DEF SearchInv, SearchTypeOK, SearchCacheFresh, vars, hdrVars, cacheVars
<1>4. CASE InvalidatingStep
  <2>1. /\ invalid' = "yes" /\ searchpat' = searchpat /\ Forget(searched \ here')
        /\ overlooked' = overlooked \cap searched'
    BY <1>4 DEF InvalidatingStep
  <2> QED BY <1>2, <2>1 DEF Forget, SearchInv, SearchTypeOK, SearchCacheFresh
<1>5. CASE ClosingStep
  <2>1. UNCHANGED <<searchpat, invalid>> /\ Forget(searched) /\ overlooked' = {}
    BY <1>5 DEF ClosingStep
  <2> QED BY <1>2, <2>1 DEF Forget, SearchInv, SearchTypeOK, SearchCacheFresh
<1> QED BY <1>1, <1>2, <1>3, <1>4, <1>5, CacheFlags, CacheFailedSync, CacheOthers, CacheSearch
        DEF SearchNext, SearchNextFor

(* A search that uses a cached result gets what the pattern says of the      *)
(* message now, for all patterns, any commands, and however often the        *)
(* mailbox was synced, closed or read since, but for the two kinds of        *)
(* changes that are overlooked.                                              *)
THEOREM SearchAlwaysFresh == SearchSpec => []SearchCacheFresh
<1>1. SearchInit => SearchInv
  <2> SUFFICES ASSUME SearchInit PROVE SearchInv OBVIOUS
  <2>1. Inv BY InitInv DEF SearchInit
  <2>2. SearchTypeOK /\ SearchCacheFresh
    BY <2>1 DEF SearchInit, Inv, SearchTypeOK, SearchCacheFresh
  <2> QED BY <2>1, <2>2 DEF SearchInv
<1>2. SearchInv /\ [SearchNext]_<<vars, cacheVars>> => SearchInv' BY SearchNextInv
<1>3. SearchInv => SearchCacheFresh BY DEF SearchInv
<1> QED BY <1>1, <1>2, <1>3, PTL DEF SearchSpec
=============================================================================
