----------------------------- MODULE SendProofs -----------------------------
(***************************************************************************)
(* Proofs about composing, postponing and sending, for any number of       *)
(* messages, errors and attempts: the compose menu shows the text as       *)
(* written whatever failed before, there is one of each message, and the   *)
(* originals of replies are marked when, and only when, the replies are    *)
(* sent.                                                                   *)
(***************************************************************************)
EXTENDS Send, TLAPS, FiniteSetTheorems, SequenceTheorems, FunctionTheorems

Inline == Seq({"clearsigned"})
Body == {s \in Seq(Layer) : s \in Inline \/ (s # <<>> /\ Head(s) = "mixed" /\ Tail(s) \in Inline)}

(* A body that is put around a message is its outermost one. *)
LEMMA PutAround ==
  ASSUME NEW l \in Layer, NEW s \in Seq(Layer)
  PROVE  /\ <<l>> \o s \in Seq(Layer)
         /\ <<l>> \o s # <<>>
         /\ Head(<<l>> \o s) = l
         /\ Tail(<<l>> \o s) = s
  OBVIOUS

(* A text with inline signatures alone is a body the menu may send. *)
LEMMA InlineIsBody == Inline \subseteq Body
  BY SeqMonotonic DEF Inline, Body, Layer

(* Neither mutt_make_multipart() nor mutt_remove_multipart() takes an        *)
(* inline signature for a multipart.                                         *)
LEMMA InlineHead == ASSUME NEW s \in Inline PROVE "mixed" \notin Range(s) /\ (s # <<>> => ~Multipart(Head(s)))
  BY DEF Inline, Range, Multipart

(* mutt_remove_multipart() takes the wrapping away and nothing else. *)
LEMMA UnwrapBody ==
  ASSUME NEW m \in Msg, m.layers \in Body
  PROVE  /\ Unwrapped(m) \in Msg
         /\ Unwrapped(m).layers \in Inline
         /\ Unwrapped(m) = [m EXCEPT !.layers = Unwrapped(m).layers]
<1>1. CASE m.layers \in Inline
  BY <1>1, InlineHead DEF Unwrapped, Msg
<1>2. CASE m.layers \notin Inline
  <2>1. m.layers # <<>> /\ Multipart(Head(m.layers)) /\ Tail(m.layers) \in Inline
    BY <1>2 DEF Body, Multipart
  <2>2. Unwrapped(m) = [m EXCEPT !.layers = Tail(m.layers)]
    BY <2>1 DEF Unwrapped
  <2>3. Tail(m.layers) \in Seq(Layer)
    BY <2>1, InlineIsBody DEF Body
  <2>. QED BY <2>1, <2>2, <2>3 DEF Msg
<1>. QED BY <1>1, <1>2

(* mutt_make_multipart() wraps a text once and changes nothing else. *)
LEMMA WrapInline ==
  ASSUME NEW m \in Msg, m.layers \in Inline
  PROVE  /\ Wrapped(m) \in Msg
         /\ Wrapped(m).layers \in Body
         /\ Wrapped(m) = [m EXCEPT !.layers = Wrapped(m).layers]
<1>1. m.layers \in Body /\ m.layers \in Seq(Layer) BY InlineIsBody DEF Msg
<1>2. "mixed" \notin Range(m.layers) BY InlineHead
<1>3. CASE m.attached
  <2>1. Wrapped(m) = [m EXCEPT !.layers = <<"mixed">> \o m.layers]
    BY <1>2, <1>3 DEF Wrapped
  <2>2. <<"mixed">> \o m.layers \in Body
    BY <1>1, PutAround DEF Body, Layer
  <2>. QED BY <2>1, <2>2 DEF Msg, Body
<1>4. CASE ~m.attached
  BY <1>1, <1>4 DEF Wrapped, Msg
<1>. QED BY <1>3, <1>4

(* What mutt_protect() has put around the clear content. *)
IsProtected(m) ==
  m.clear \in Body /\ m.layers = Around([m EXCEPT !.layers = m.clear]) \o m.clear

(* What mutt_protect() puts around a message, by what the user has chosen *)
LEMMA AroundCases ==
  ASSUME NEW m \in Msg
  PROVE  /\ m.security = "none" => Around(m) = <<>>
         /\ m.security = "sign" => Around(m) = <<"signed">>
         /\ m.security = "encrypt" => Around(m) = <<"encrypted">>
         /\ m.security = "smime encrypt" => Around(m) = <<"application">>
         /\ m.security \in {"inline sign", "inline encrypt"} =>
              IF m.layers # <<>> /\ Multipart(Head(m.layers))
              THEN Around(m) = IF m.security = "inline sign" THEN <<"signed">> ELSE <<"encrypted">>
              ELSE Around(m) = IF m.security = "inline sign" THEN <<"clearsigned">>
                                                            ELSE <<"armored">>
<1>1. CASE m.security = "none" BY <1>1 DEF Around, Signs
<1>2. CASE m.security = "sign" BY <1>2 DEF Around, Signs
<1>3. CASE m.security = "encrypt" BY <1>3 DEF Around, Signs
<1>4. CASE m.security = "smime encrypt" BY <1>4 DEF Around, Signs
<1>5. CASE m.security = "inline sign"
  <2>1. CASE m.layers # <<>> /\ Multipart(Head(m.layers)) BY <1>5, <2>1 DEF Around, Signs
  <2>2. CASE ~(m.layers # <<>> /\ Multipart(Head(m.layers))) BY <1>5, <2>2 DEF Around, Signs
  <2>. QED BY <1>5, <2>1, <2>2
<1>6. CASE m.security = "inline encrypt"
  <2>1. CASE m.layers # <<>> /\ Multipart(Head(m.layers)) BY <1>6, <2>1 DEF Around, Signs
  <2>2. CASE ~(m.layers # <<>> /\ Multipart(Head(m.layers))) BY <1>6, <2>2 DEF Around, Signs
  <2>. QED BY <1>6, <2>1, <2>2
<1>. QED BY <1>1, <1>2, <1>3, <1>4, <1>5, <1>6 DEF Msg, Crypto

(* What is done after a failure takes away all that mutt_protect() has       *)
(* put around the message, but for an inline signature.                      *)
LEMMA RestoreProtected ==
  ASSUME NEW m \in Msg, IsProtected(m)
  PROVE  /\ Restored(m) \in Msg
         /\ Restored(m).layers \in Body
         /\ Restored(m) = [m EXCEPT !.layers = Restored(m).layers]
<1> DEFINE c == [m EXCEPT !.layers = m.clear]
<1>1. c \in Msg /\ c.security = m.security /\ c.layers = m.clear /\ m.clear \in Body
      /\ m.clear \in Seq(Layer) /\ m.layers = Around(c) \o m.clear
  BY DEF Msg, IsProtected, Body
<1>2. m = [m EXCEPT !.layers = m.layers]
  BY DEF Msg
<1> HIDE DEF c
<1>3. CASE Encrypts(m)
  BY <1>1, <1>3 DEF Restored, Msg
<1>4. CASE m.security = "none"
  <2>1. m.layers = m.clear
    <3>1. Around(c) = <<>> BY <1>1, <1>4, AroundCases
    <3>. QED BY <1>1, <3>1
  <2>. QED BY <1>1, <1>2, <1>4, <2>1 DEF Restored, Signs, Encrypts
<1>5. CASE Signs(m)
  <2>1. ~Encrypts(m)
    BY <1>5 DEF Signs, Encrypts
  <2>2. CASE Around(c) = <<"signed">>
    <3>1. m.layers # <<>> /\ Head(m.layers) = "signed" /\ Tail(m.layers) = m.clear
      BY <1>1, <2>2, PutAround DEF Layer
    <3>2. Restored(m) = Unwrapped(m)
      BY <1>5, <2>1, <3>1 DEF Restored, Multipart
    <3>3. Unwrapped(m) = [m EXCEPT !.layers = m.clear]
      BY <3>1 DEF Unwrapped, Multipart
    <3>. QED BY <1>1, <3>2, <3>3 DEF Msg
  <2>3. CASE Around(c) = <<"clearsigned">>
    <3>0. m.security = "inline sign" /\ ~(c.layers # <<>> /\ Multipart(Head(c.layers)))
      <4>1. <<"signed">> # <<"clearsigned">> OBVIOUS
      <4>2. m.security # "sign" BY <1>1, <2>3, <4>1, AroundCases
      <4>3. m.security = "inline sign" BY <1>5, <4>2 DEF Signs
      <4>. QED BY <1>1, <2>3, <4>1, <4>3, AroundCases
    <3>1. m.layers # <<>> /\ Head(m.layers) = "clearsigned"
      BY <1>1, <2>3, PutAround DEF Layer
    <3>2. Restored(m) = m
      BY <1>5, <2>1, <3>1 DEF Restored, Multipart
    <3>3. m.clear \in Inline
      BY <1>1, <3>0 DEF Body, Multipart
    <3>4. m.layers \in Inline
      BY <1>1, <2>3, <3>3 DEF Inline
    <3>. QED BY <1>2, <3>2, <3>4, InlineIsBody
  <2>. QED BY <1>1, <1>5, <2>2, <2>3, AroundCases DEF Signs
<1>. QED BY <1>3, <1>4, <1>5 DEF Msg, Crypto, Encrypts, Signs

-----------------------------------------------------------------------------
(* Drafts *)
(* Where the drafts of message i are in the postponed folder *)
Places(s, i) == {k \in DOMAIN s : s[k].id = i}

(* The places of a message are finitely many. *)
LEMMA PlacesFinite ==
  ASSUME NEW s \in Seq(Draft), NEW i
  PROVE  IsFiniteSet(Places(s, i)) /\ Cardinality(Places(s, i)) \in Nat
<1>1. DOMAIN s = 1..Len(s) /\ IsFiniteSet(1..Len(s))
  BY FS_Interval
<1>. QED BY <1>1, FS_Subset, FS_CardinalityType DEF Places

(* A draft that is appended has one more place. *)
LEMMA PlacesAppend ==
  ASSUME NEW s \in Seq(Draft), NEW d \in Draft, NEW i
  PROVE  Cardinality(Places(Append(s, d), i))
           = Cardinality(Places(s, i)) + IF d.id = i THEN 1 ELSE 0
<1>1. /\ Append(s, d) \in Seq(Draft) /\ DOMAIN Append(s, d) = DOMAIN s \cup {Len(s) + 1}
      /\ Len(s) + 1 \notin DOMAIN s
      /\ Append(s, d)[Len(s) + 1] = d
      /\ \A k \in DOMAIN s : Append(s, d)[k] = s[k]
  OBVIOUS
<1>2. CASE d.id = i
  <2>1. Places(Append(s, d), i) = Places(s, i) \cup {Len(s) + 1} /\ Len(s) + 1 \notin Places(s, i)
    BY <1>1, <1>2 DEF Places
  <2>. QED BY <1>2, <2>1, PlacesFinite, FS_AddElement
<1>3. CASE d.id # i
  <2>1. Places(Append(s, d), i) = Places(s, i)
    BY <1>1, <1>3 DEF Places
  <2>. QED BY <1>3, <2>1, PlacesFinite
<1>. QED BY <1>2, <1>3

(* What RemoveAt() leaves, place by place. *)
LEMMA RemovedAt ==
  ASSUME NEW s \in Seq(Draft), NEW k \in DOMAIN s
  PROVE  /\ RemoveAt(s, k) \in Seq(Draft)
         /\ Len(RemoveAt(s, k)) = Len(s) - 1
         /\ \A j \in 1..(Len(s) - 1) : RemoveAt(s, k)[j] = IF j < k THEN s[j] ELSE s[j + 1]
<1> DEFINE a == SubSeq(s, 1, k - 1)
           b == SubSeq(s, k + 1, Len(s))
<1>0. Len(s) \in Nat /\ k \in 1..Len(s) /\ k \in Int
  OBVIOUS
<1>1. a \in Seq(Draft) /\ Len(a) = k - 1 /\ \A j \in 1..(k - 1) : a[j] = s[j]
  BY <1>0
<1>2. b \in Seq(Draft) /\ Len(b) = Len(s) - k /\ \A j \in 1..(Len(s) - k) : b[j] = s[k + j]
  BY <1>0
<1>3. RemoveAt(s, k) = a \o b
  BY DEF RemoveAt
<1> HIDE DEF a, b
<1>4. a \o b \in Seq(Draft) /\ Len(a \o b) = Len(s) - 1
  BY <1>0, <1>1, <1>2
<1>5. ASSUME NEW j \in 1..(Len(s) - 1)
      PROVE  (a \o b)[j] = IF j < k THEN s[j] ELSE s[j + 1]
  <2>1. CASE j < k
    BY <1>0, <1>1, <1>2, <2>1
  <2>2. CASE ~(j < k)
    <3>1. (a \o b)[j] = b[j - (k - 1)] BY <1>0, <1>1, <1>2, <2>2
    <3>2. j - (k - 1) \in 1..(Len(s) - k) /\ k + (j - (k - 1)) = j + 1 BY <1>0, <2>2
    <3>. QED BY <1>2, <2>2, <3>1, <3>2
  <2>. QED BY <2>1, <2>2
<1>. QED BY <1>3, <1>4, <1>5

(* A draft that is taken out has one place less, and the others as many      *)
(* as before.                                                                *)
LEMMA PlacesRemove ==
  ASSUME NEW s \in Seq(Draft), NEW k \in DOMAIN s, NEW i
  PROVE  Cardinality(Places(RemoveAt(s, k), i))
           = Cardinality(Places(s, i)) - IF s[k].id = i THEN 1 ELSE 0
<1> DEFINE r == RemoveAt(s, k)
           f == [j \in Places(r, i) |-> IF j < k THEN j ELSE j + 1]
<1>1. /\ r \in Seq(Draft) /\ Len(r) = Len(s) - 1
      /\ DOMAIN r = 1..(Len(s) - 1) /\ DOMAIN s = 1..Len(s) /\ Len(s) \in Nat
      /\ \A j \in DOMAIN r : r[j] = IF j < k THEN s[j] ELSE s[j + 1]
  <2>1. Len(s) \in Nat /\ DOMAIN s = 1..Len(s) OBVIOUS
  <2>2. r \in Seq(Draft) /\ Len(r) = Len(s) - 1 BY RemovedAt
  <2>3. DOMAIN r = 1..(Len(s) - 1) BY <2>2
  <2>. QED BY <2>1, <2>2, <2>3, RemovedAt
<1> HIDE DEF r
<1>2. f \in Bijection(Places(r, i), Places(s, i) \ {k})
  <2>1. f \in [Places(r, i) -> Places(s, i) \ {k}]
    BY <1>1 DEF Places
  <2>2. \A a, b \in Places(r, i) : f[a] = f[b] => a = b
    BY <1>1 DEF Places
  <2>3. \A b \in Places(s, i) \ {k} : \E a \in Places(r, i) : f[a] = b
    <3> SUFFICES ASSUME NEW b \in Places(s, i) \ {k} PROVE \E a \in Places(r, i) : f[a] = b
      OBVIOUS
    <3>1. CASE b < k
      <4>1. b \in Places(r, i) BY <1>1, <3>1 DEF Places
      <4>. QED BY <3>1, <4>1
    <3>2. CASE b > k
      <4>1. b - 1 \in Places(r, i) /\ ~(b - 1 < k) BY <1>1, <3>2 DEF Places
      <4>2. f[b - 1] = b BY <1>1, <4>1 DEF Places
      <4>. QED BY <4>1, <4>2
    <3>3. b \in Int /\ k \in Int /\ b # k BY <1>1 DEF Places
    <3>. QED BY <3>1, <3>2, <3>3
  <2>. QED BY <2>1, <2>2, <2>3, Fun_IsBij
<1>3. IsFiniteSet(Places(r, i)) /\ IsFiniteSet(Places(s, i)) /\ IsFiniteSet(Places(s, i) \ {k})
  BY <1>1, PlacesFinite, FS_RemoveElement
<1>4. Cardinality(Places(r, i)) = Cardinality(Places(s, i) \ {k})
  BY <1>2, <1>3, FS_Bijection DEF ExistsBijection
<1>5. CASE s[k].id = i
  <2>1. k \in Places(s, i) BY <1>5 DEF Places
  <2>. QED BY <1>3, <1>4, <1>5, <2>1, FS_RemoveElement DEF r
<1>6. CASE s[k].id # i
  <2>1. Places(s, i) \ {k} = Places(s, i) BY <1>6 DEF Places
  <2>2. Cardinality(Places(s, i)) \in Nat BY PlacesFinite
  <2>3. Cardinality(Places(RemoveAt(s, k), i)) = Cardinality(Places(s, i)) BY <1>4, <2>1 DEF r
  <2>4. (IF s[k].id = i THEN 1 ELSE 0) = 0 BY <1>6
  <2>. QED BY <2>2, <2>3, <2>4
<1>. QED BY <1>5, <1>6

-----------------------------------------------------------------------------
(* The type of the variables, and the stages of ci_send_message() *)

Typing ==
  /\ postponed \in Seq(Draft)
  /\ pc \in {"index", "recalled", "edit", "menu", "send", "fcc", "mta"}
  /\ home \in BOOLEAN /\ begun \in 0..MaxMsg /\ faults \in 0..MaxFaults
  /\ delivered \in [Ids -> Nat] /\ doubled \in [Ids -> Nat]
  /\ copies \subseteq Ids /\ replied \subseteq Ids /\ answers \subseteq Ids
  /\ apart \subseteq Ids /\ gone \subseteq Ids
  /\ IF pc = "index" THEN msg = NoMsg ELSE msg \in Msg

AsWritten(m) == m.env \notin {"coded", "final"} /\ ~m.encoded /\ m.layers \in Inline

Stage ==
  /\ pc \in {"recalled", "edit", "menu"} => AsWritten(msg)
  /\ pc = "send" => msg.env \notin {"coded", "final"} /\ msg.layers \in Body
  /\ pc \in {"fcc", "mta"} => IsProtected(msg)

TInv == Typing /\ Stage

(* mutt_protect() looks at the security settings and the bodies alone. *)
LEMMA AroundSame ==
  ASSUME NEW m \in Msg, NEW n \in Msg, m.security = n.security, m.layers = n.layers
  PROVE  Around(m) = Around(n)
  BY DEF Around, Signs

(* A new text has nothing around it. *)
LEMMA InlineEmpty == <<>> \in Inline
  BY DEF Inline

(* The stages at the beginning. *)
LEMMA InitTInv == Init => TInv
<1> SUFFICES ASSUME Init PROVE TInv
  OBVIOUS
<1>1. Typing BY SendAssumption DEF Init, Typing, Ids
<1>2. Stage BY DEF Init, Stage
<1>. QED BY <1>1, <1>2 DEF TInv

(* A new message is in the editor, as written. *)
LEMMA NewTInv ==
  ASSUME TInv, NEW r \in BOOLEAN, NEW c \in BOOLEAN, NEW f \in BOOLEAN, New(r, c, f)
  PROVE  TInv'
<1>1. begun + 1 \in Ids /\ begun + 1 \in 0..MaxMsg
  BY SendAssumption DEF TInv, Typing, Ids, New
<1>2. msg' \in Msg
  BY <1>1 DEF New, Msg, Crypto, Layer, Envelope
<1>3. Typing'
  BY <1>1, <1>2 DEF TInv, Typing, New, folders
<1>4. Stage'
  BY InlineEmpty DEF New, Stage, AsWritten
<1>. QED BY <1>3, <1>4 DEF TInv

(* So is a message that is recalled. *)
LEMMA RecalledMsg ==
  ASSUME Typing, NEW d \in Draft
  PROVE  Recalled(d) \in Msg /\ AsWritten(Recalled(d))
<1>1. Recalled(d) \in Msg
  <2>1. (d.ref /\ home) \in BOOLEAN OBVIOUS
  <2>2. d.id \in Ids /\ d.fcc \in BOOLEAN /\ d.attached \in BOOLEAN BY DEF Draft
  <2>. QED BY <2>1, <2>2 DEF Recalled, Msg, Crypto, Layer, Envelope
<1>. QED BY <1>1, InlineEmpty DEF Recalled, AsWritten

(* The menu of postponed messages keeps types and stages. *)
LEMMA RecallTInv ==
  ASSUME TInv, NEW i \in 1..Len(postponed), Recall(i) \/ RecallKeeps(i) \/ DeleteDraft(i)
  PROVE  TInv'
<1>1. postponed \in Seq(Draft) /\ i \in DOMAIN postponed /\ postponed[i] \in Draft /\ Typing
  BY DEF TInv, Typing
<1>2. RemoveAt(postponed, i) \in Seq(Draft) /\ postponed[i].id \in Ids
  BY <1>1, RemovedAt DEF Draft
<1>3. CASE Recall(i)
  BY <1>1, <1>2, <1>3, RecalledMsg DEF TInv, Typing, Stage, Recall
<1>4. CASE RecallKeeps(i)
  <2>1. faults' \in 0..MaxFaults BY <1>1, <1>4, SendAssumption DEF RecallKeeps, Fault, Typing
  <2>2. doubled' \in [Ids -> Nat] BY <1>1, <1>2, <1>4 DEF RecallKeeps, Typing
  <2>. QED BY <1>1, <1>2, <1>4, <2>1, <2>2, RecalledMsg DEF TInv, Typing, Stage, RecallKeeps, folders
<1>5. CASE DeleteDraft(i)
  BY <1>1, <1>2, <1>5 DEF TInv, Typing, Stage, DeleteDraft
<1>. QED BY <1>3, <1>4, <1>5

(* An error counts once. *)
LEMMA FaultCount == ASSUME Typing, Fault PROVE faults' \in 0..MaxFaults
  BY SendAssumption DEF Fault, Typing

(* Steps that free the message, or only go on to the next stage *)
LEMMA PlainTInv ==
  ASSUME TInv,
         \/ ChangeFolder \/ OpenText \/ OpenTextFails \/ Edit \/ EditAborted \/ Discard
         \/ WriteFcc \/ SentNever \/ Crash
  PROVE  TInv'
<1>0. Typing /\ (pc # "index" => msg.id \in Ids)
  BY DEF TInv, Typing, Msg
<1>1. CASE ChangeFolder BY <1>1 DEF TInv, Typing, Stage, ChangeFolder, folders, history
<1>2. CASE OpenText BY <1>2 DEF TInv, Typing, Stage, OpenText, folders, history
<1>3. CASE OpenTextFails
  BY <1>0, <1>3, FaultCount DEF TInv, Typing, Stage, OpenTextFails, Cleanup, folders
<1>4. CASE Edit BY <1>4 DEF TInv, Typing, Stage, Edit, folders, history
<1>5. CASE EditAborted
  <2>1. faults' \in 0..MaxFaults BY <1>0, <1>5, FaultCount DEF EditAborted, Typing
  <2>. QED BY <1>0, <1>5, <2>1 DEF TInv, Typing, Stage, EditAborted, Cleanup, folders
<1>6. CASE Discard BY <1>0, <1>6 DEF TInv, Typing, Stage, Discard, Cleanup, folders
<1>7. CASE WriteFcc BY <1>0, <1>7 DEF TInv, Typing, Stage, WriteFcc, history
<1>8. CASE SentNever
  BY <1>0, <1>8, FaultCount DEF TInv, Typing, Stage, SentNever, Cleanup, MarkReplied
<1>9. CASE Crash
  BY <1>0, <1>9, FaultCount DEF TInv, Typing, Stage, Crash, Cleanup, folders
<1>. QED BY <1>1, <1>2, <1>3, <1>4, <1>5, <1>6, <1>7, <1>8, <1>9

(* What the compose menu does to a message keeps types and stages. *)
LEMMA MenuTInv ==
  ASSUME TInv, (\E s \in Methods : SetSecurity(s)) \/ Attach \/ SendMessage
  PROVE  TInv'
<1>0. Typing /\ Stage BY DEF TInv
<1>1. CASE \E s \in Methods : SetSecurity(s)
  <2>0. PICK s \in Methods : SetSecurity(s) BY <1>1
  <2>1. s \in Crypto /\ msg \in Msg BY <1>0, <2>0, SendAssumption DEF SetSecurity, Typing
  <2>2. msg' \in Msg BY <2>0, <2>1 DEF SetSecurity, Msg
  <2>3. Typing' BY <1>0, <2>0, <2>2 DEF SetSecurity, Typing, folders, history
  <2>4. AsWritten(msg') BY <1>0, <2>0, <2>1 DEF SetSecurity, Stage, AsWritten, Msg
  <2>. QED BY <2>0, <2>3, <2>4 DEF SetSecurity, Stage, TInv
<1>2. CASE Attach
  <2>1. msg \in Msg BY <1>0, <1>2 DEF Attach, Typing
  <2>2. msg' \in Msg BY <1>2, <2>1 DEF Attach, Msg
  <2>3. Typing' BY <1>0, <1>2, <2>2 DEF Attach, Typing, folders, history
  <2>4. AsWritten(msg') BY <1>0, <1>2, <2>1 DEF Attach, Stage, AsWritten, Msg
  <2>. QED BY <1>2, <2>3, <2>4 DEF Attach, Stage, TInv
<1>3. CASE SendMessage
  <2>1. msg \in Msg /\ msg.layers \in Inline /\ msg.env \notin {"coded", "final"}
    BY <1>0, <1>3 DEF SendMessage, Typing, Stage, AsWritten
  <2>2. Wrapped(msg) \in Msg /\ Wrapped(msg).layers \in Body /\ Wrapped(msg).env = msg.env
    BY <2>1, WrapInline DEF Msg
  <2>3. msg' \in Msg /\ msg'.layers \in Body /\ msg'.env \notin {"coded", "final"}
    BY <1>3, <2>1, <2>2 DEF SendMessage, Encoded, Msg
  <2>4. Typing' BY <1>0, <1>3, <2>3 DEF SendMessage, Typing, folders, history
  <2>. QED BY <1>3, <2>3, <2>4 DEF SendMessage, Stage, TInv
<1>. QED BY <1>1, <1>2, <1>3

(* After an attempt to postpone that has failed the message is as written. *)
LEMMA PostponedNotMsg ==
  ASSUME Typing, Stage, pc = "menu", PostponedNot
  PROVE  msg' \in Msg /\ AsWritten(msg') /\ msg'.id = msg.id
         /\ msg'.reply = msg.reply /\ msg'.cur = msg.cur /\ msg'.recalled = msg.recalled
<1> DEFINE w == Prepared(Encoded(Wrapped(msg), TRUE), FALSE)
           u == Unwrapped(w)
<1>1. msg \in Msg /\ msg.layers \in Inline
  BY DEF Typing, Stage, AsWritten
<1>2. /\ Wrapped(msg) \in Msg /\ Wrapped(msg).layers \in Body /\ Wrapped(msg).id = msg.id
      /\ Wrapped(msg).reply = msg.reply /\ Wrapped(msg).cur = msg.cur /\ Wrapped(msg).recalled = msg.recalled
  BY <1>1, WrapInline DEF Msg
<1>3. /\ w \in Msg /\ w.layers \in Body /\ w.id = msg.id
      /\ w.reply = msg.reply /\ w.cur = msg.cur /\ w.recalled = msg.recalled
  BY <1>2 DEF Prepared, Encoded, Msg, Envelope
<1>4. msg' = Unprepared(Encoded(u, FALSE))
  BY DEF PostponedNot
<1> HIDE DEF w
<1>5. /\ u \in Msg /\ u.layers \in Inline /\ u.id = msg.id
      /\ u.reply = msg.reply /\ u.cur = msg.cur /\ u.recalled = msg.recalled
  BY <1>3, UnwrapBody DEF Msg
<1> HIDE DEF u
<1>. QED BY <1>4, <1>5 DEF Unprepared, Encoded, AsWritten, Msg, Envelope

(* mutt_write_fcc() writes a draft of the message. *)
LEMMA AsDraftType == ASSUME msg \in Msg, NEW torn \in BOOLEAN
                     PROVE  AsDraft(torn) \in Draft /\ AsDraft(torn).id = msg.id
<1>1. (msg.cur /\ msg.reply) \in BOOLEAN OBVIOUS
<1>2. msg.id \in Ids /\ msg.fcc \in BOOLEAN /\ msg.attached \in BOOLEAN BY DEF Msg
<1>. QED BY <1>1, <1>2 DEF AsDraft, Draft

(* Postponing keeps types and stages, also when it fails. *)
LEMMA PostponeTInv ==
  ASSUME TInv, Postpone \/ \E b \in BOOLEAN : PostponeFails(b)
  PROVE  TInv'
<1>0. Typing /\ Stage BY DEF TInv
<1>1. CASE Postpone
  <2>1. msg \in Msg /\ msg.id \in Ids BY <1>0, <1>1 DEF Postpone, Typing, Msg
  <2> DEFINE d == AsDraft(FALSE)
  <2>4. d \in Draft BY <2>1, AsDraftType
  <2>5. postponed' = Append(postponed, d) BY <1>1 DEF Postpone
  <2> HIDE DEF d
  <2>2. postponed' \in Seq(Draft) BY <1>0, <2>4, <2>5 DEF Typing
  <2>3. apart' \subseteq Ids BY <1>0, <1>1, <2>1 DEF Postpone, Separated, Typing
  <2>. QED BY <1>0, <1>1, <2>2, <2>3 DEF Postpone, Cleanup, Typing, Stage, TInv
<1>2. CASE \E b \in BOOLEAN : PostponeFails(b)
  <2>0. PICK b \in BOOLEAN : PostponeFails(b) BY <1>2
  <2>1. msg \in Msg /\ msg.id \in Ids BY <1>0, <2>0 DEF PostponeFails, Typing, Msg
  <2> DEFINE d == AsDraft(TRUE)
  <2>8. d \in Draft BY <2>1, AsDraftType
  <2> HIDE DEF d
  <2>2. postponed' \in Seq(Draft)
    <3>1. postponed' = postponed \/ postponed' = Append(postponed, d) BY <2>0 DEF PostponeFails, d
    <3>. QED BY <1>0, <2>8, <3>1 DEF Typing
  <2>3. apart' \subseteq Ids BY <1>0, <2>0, <2>1 DEF PostponeFails, Separated, Typing
  <2>4. doubled' \in [Ids -> Nat]
    <3>1. doubled' = doubled \/ doubled' = [doubled EXCEPT ![msg.id] = @ + 1]
      BY <2>0 DEF PostponeFails
    <3>. QED BY <1>0, <2>1, <3>1 DEF Typing
  <2>5. msg' \in Msg /\ AsWritten(msg') /\ pc = "menu" /\ pc' = "menu"
    BY <1>0, <2>0, PostponedNotMsg DEF PostponeFails, PostponedNot
  <2>6. faults' \in 0..MaxFaults BY <1>0, <2>0, FaultCount DEF PostponeFails
  <2>7. Typing' BY <1>0, <2>0, <2>2, <2>3, <2>4, <2>5, <2>6 DEF PostponeFails, Typing
  <2>. QED BY <2>5, <2>7 DEF Stage, TInv
<1>. QED BY <1>1, <1>2

(* After an attempt to send that has failed the message is as written, but   *)
(* for inline signatures.                                                    *)
LEMMA NotSentMsg ==
  ASSUME Typing, Stage, pc \in {"fcc", "mta"}, NotSent
  PROVE  msg' \in Msg /\ AsWritten(msg') /\ msg'.id = msg.id
         /\ msg'.reply = msg.reply /\ msg'.cur = msg.cur /\ msg'.recalled = msg.recalled
<1> DEFINE r == Restored(msg)
           u == Unwrapped(r)
           p == Unprepared(Encoded(u, FALSE))
<1>1. msg \in Msg /\ IsProtected(msg)
  BY DEF Typing, Stage
<1>2. /\ r \in Msg /\ r.layers \in Body /\ r.id = msg.id
      /\ r.reply = msg.reply /\ r.cur = msg.cur /\ r.recalled = msg.recalled
  BY <1>1, RestoreProtected DEF Msg
<1>4. msg' = [p EXCEPT !.clear = <<>>]
  BY DEF NotSent
<1> HIDE DEF r
<1>5. /\ u \in Msg /\ u.layers \in Inline /\ u.id = msg.id
      /\ u.reply = msg.reply /\ u.cur = msg.cur /\ u.recalled = msg.recalled
  BY <1>2, UnwrapBody DEF Msg
<1> HIDE DEF u
<1>6. /\ p \in Msg /\ p.layers \in Inline /\ p.env \notin {"coded", "final"} /\ ~p.encoded /\ p.id = msg.id
      /\ p.reply = msg.reply /\ p.cur = msg.cur /\ p.recalled = msg.recalled
  BY <1>5 DEF Unprepared, Encoded, Msg, Envelope
<1> HIDE DEF p
<1>7. <<>> \in Seq(Layer) OBVIOUS
<1>. QED BY <1>4, <1>6, <1>7 DEF AsWritten, Msg

(* So does mutt_protect(). *)
LEMMA ProtectTInv ==
  ASSUME TInv, Protect \/ ProtectFails
  PROVE  TInv'
<1>0. Typing /\ Stage BY DEF TInv
<1>1. CASE Protect
  <2>1. msg \in Msg /\ msg.layers \in Body /\ msg.layers \in Seq(Layer)
    BY <1>0, <1>1 DEF Protect, Typing, Stage, Msg
  <2>2. Around(msg) \in Seq(Layer)
    <3>1. <<>> \in Seq(Layer) /\ \A l \in Layer : <<l>> \in Seq(Layer) OBVIOUS
    <3>2. Around(msg) \in {<<>>, <<"signed">>, <<"encrypted">>, <<"application">>,
                       <<"clearsigned">>, <<"armored">>}
      BY <2>1, AroundCases DEF Msg, Crypto
    <3>. QED BY <3>1, <3>2 DEF Layer
  <2> DEFINE around == Around(msg) \o msg.layers
  <2>3. around \in Seq(Layer) BY <2>1, <2>2
  <2>4. msg' = Prepared([msg EXCEPT !.clear = msg.layers, !.layers = around], TRUE)
    BY <1>1 DEF Protect
  <2>5. around = Around(msg) \o msg.layers OBVIOUS
  <2> HIDE DEF around
  <2>6. msg' \in Msg /\ msg'.clear = msg.layers /\ msg'.layers = around /\ msg'.security = msg.security
    BY <2>1, <2>3, <2>4 DEF Prepared, Msg, Envelope
  <2>7. IsProtected(msg')
    <3> DEFINE c == [msg' EXCEPT !.layers = msg'.clear]
    <3>1. c \in Msg /\ c.security = msg.security /\ c.layers = msg.layers BY <2>1, <2>6 DEF Msg
    <3> HIDE DEF c
    <3>2. Around(c) = Around(msg) BY <2>1, <3>1, AroundSame
    <3>. QED BY <2>1, <2>5, <2>6, <3>2 DEF IsProtected, c
  <2>8. Typing' BY <1>0, <1>1, <2>6 DEF Protect, Typing, folders, history
  <2>. QED BY <1>1, <2>7, <2>8 DEF Protect, Stage, TInv
<1>2. CASE ProtectFails
  <2>1. msg \in Msg /\ msg.layers \in Body /\ msg.env \notin {"coded", "final"}
    BY <1>0, <1>2 DEF ProtectFails, Typing, Stage
  <2> DEFINE u == Unwrapped(msg)
  <2>2. u \in Msg /\ u.layers \in Inline /\ u.env = msg.env
    BY <2>1, UnwrapBody DEF Msg
  <2>3. msg' = Encoded(u, FALSE) BY <1>2 DEF ProtectFails
  <2> HIDE DEF u
  <2>4. msg' \in Msg /\ AsWritten(msg') BY <2>1, <2>2, <2>3 DEF Encoded, AsWritten, Msg
  <2>5. faults' \in 0..MaxFaults BY <1>0, <1>2, FaultCount DEF ProtectFails
  <2>6. Typing' BY <1>0, <1>2, <2>4, <2>5 DEF ProtectFails, Typing, folders, history
  <2>. QED BY <1>2, <2>4, <2>6 DEF ProtectFails, Stage, TInv
<1>. QED BY <1>1, <1>2

(* So do the Fcc folder and the MTA. *)
LEMMA SendTInv ==
  ASSUME TInv, WriteFccFails \/ Sent \/ \E b \in BOOLEAN : SendFails(b)
  PROVE  TInv'
<1>0. Typing /\ Stage BY DEF TInv
<1>1. CASE WriteFccFails
  <2>1. msg' \in Msg /\ AsWritten(msg') BY <1>0, <1>1, NotSentMsg DEF WriteFccFails
  <2>2. faults' \in 0..MaxFaults BY <1>0, <1>1, FaultCount DEF WriteFccFails
  <2>3. pc' = "menu" BY <1>1 DEF WriteFccFails, NotSent
  <2>4. Typing' BY <1>0, <1>1, <2>1, <2>2, <2>3 DEF WriteFccFails, Typing, folders, history
  <2>. QED BY <2>1, <2>3, <2>4 DEF Stage, TInv
<1>2. CASE Sent
  <2>1. msg.id \in Ids BY <1>0, <1>2 DEF Sent, Typing, Msg
  <2>2. delivered' \in [Ids -> Nat] /\ replied' \subseteq Ids
    BY <1>0, <1>2, <2>1 DEF Sent, MarkReplied, Typing
  <2>. QED BY <1>0, <1>2, <2>2 DEF Sent, Cleanup, Typing, Stage, TInv, history
<1>3. CASE \E b \in BOOLEAN : SendFails(b)
  <2>0. PICK b \in BOOLEAN : SendFails(b) BY <1>3
  <2>1. msg' \in Msg /\ AsWritten(msg') BY <1>0, <2>0, NotSentMsg DEF SendFails
  <2>2. faults' \in 0..MaxFaults BY <1>0, <2>0, FaultCount DEF SendFails
  <2>3. pc' = "menu" BY <2>0 DEF SendFails, NotSent
  <2>4. msg.id \in Ids BY <1>0, <2>0 DEF SendFails, Typing, Msg
  <2>5. delivered' = delivered \/ delivered' = [delivered EXCEPT ![msg.id] = @ + 1]
    BY <2>0 DEF SendFails
  <2>6. doubled' = doubled \/ doubled' = [doubled EXCEPT ![msg.id] = @ + 1]
    BY <2>0 DEF SendFails
  <2>7. delivered' \in [Ids -> Nat] /\ doubled' \in [Ids -> Nat]
    <3>1. delivered' \in [Ids -> Nat] BY <1>0, <2>4, <2>5 DEF Typing
    <3>2. doubled' \in [Ids -> Nat] BY <1>0, <2>4, <2>6 DEF Typing
    <3>. QED BY <3>1, <3>2
  <2>8. Typing' BY <1>0, <2>0, <2>1, <2>2, <2>3, <2>7 DEF SendFails, Typing
  <2>. QED BY <2>1, <2>3, <2>8 DEF Stage, TInv
<1>. QED BY <1>1, <1>2, <1>3

(* Every step keeps types and stages. *)
LEMMA NextTInv == TInv /\ [Next]_vars => TInv'
<1> SUFFICES ASSUME TInv, [Next]_vars PROVE TInv'
  OBVIOUS
<1>1. CASE \E r, c, f \in BOOLEAN : New(r, c, f) BY <1>1, NewTInv
<1>2. CASE \E i \in 1..Len(postponed) : Recall(i) \/ RecallKeeps(i) \/ DeleteDraft(i)
  BY <1>2, RecallTInv
<1>3. CASE \/ ChangeFolder \/ OpenText \/ OpenTextFails \/ Edit \/ EditAborted \/ Discard
           \/ WriteFcc \/ SentNever \/ Crash
  BY <1>3, PlainTInv
<1>4. CASE (\E s \in Methods : SetSecurity(s)) \/ Attach \/ SendMessage BY <1>4, MenuTInv
<1>5. CASE Postpone \/ \E b \in BOOLEAN : PostponeFails(b) BY <1>5, PostponeTInv
<1>6. CASE Protect \/ ProtectFails BY <1>6, ProtectTInv
<1>7. CASE WriteFccFails \/ Sent \/ \E b \in BOOLEAN : SendFails(b) BY <1>7, SendTInv
<1>8. CASE UNCHANGED vars
  BY <1>8 DEF vars, TInv, Typing, Stage
<1>. QED BY <1>1, <1>2, <1>3, <1>4, <1>5, <1>6, <1>7, <1>8 DEF Next

(* The types and stages are an invariant. *)
LEMMA SpecTInv == Spec => []TInv
  BY InitTInv, NextTInv, PTL DEF Spec

(* Until something fails the envelope is the user's own. *)
Own == faults = 0 /\ pc \in {"recalled", "edit", "menu", "send"} => msg.env = "own"

(* Whatever makes the envelope another one is counted as an error. *)
LEMMA NextOwn == TInv /\ Own /\ [Next]_vars => Own'
<1> SUFFICES ASSUME TInv, Own, [Next]_vars, faults' = 0, pc' \in {"recalled", "edit", "menu", "send"}
             PROVE  msg'.env = "own"
  BY DEF Own
<1>0. Typing /\ faults \in Nat /\ (pc # "index" => msg \in Msg)
  BY SendAssumption DEF TInv, Typing
<1>1. ~Fault BY <1>0 DEF Fault
<1>2. CASE \E r, c, f \in BOOLEAN : New(r, c, f) BY <1>2 DEF New
<1>3. CASE \E i \in 1..Len(postponed) : Recall(i) \/ RecallKeeps(i) \/ DeleteDraft(i)
  BY <1>1, <1>3 DEF Recall, RecallKeeps, DeleteDraft, Recalled
<1>4. CASE ChangeFolder \/ OpenText \/ Edit \/ WriteFcc
  BY <1>4 DEF Own, ChangeFolder, OpenText, Edit, WriteFcc
<1>5. CASE \/ OpenTextFails \/ EditAborted \/ Discard \/ Postpone \/ Protect \/ ProtectFails
           \/ WriteFccFails \/ Sent \/ SentNever \/ Crash
           \/ \E b \in BOOLEAN : PostponeFails(b) \/ SendFails(b)
  BY <1>1, <1>5 DEF OpenTextFails, EditAborted, Discard, Postpone, Protect, ProtectFails,
                    WriteFccFails, Sent, SentNever, Crash, PostponeFails, SendFails, Cleanup
<1>6. CASE (\E s \in Methods : SetSecurity(s)) \/ Attach
  BY <1>0, <1>6 DEF Own, SetSecurity, Attach, Msg
<1>7. CASE SendMessage
  <2>1. msg \in Msg /\ msg.env = "own" /\ faults = 0 BY <1>0, <1>7 DEF Own, SendMessage
  <2>2. Wrapped(msg) \in Msg /\ Wrapped(msg).env = "own"
    <3>1. msg.layers \in Inline BY <1>7 DEF TInv, Stage, AsWritten, SendMessage
    <3>. QED BY <2>1, <3>1, WrapInline DEF Msg
  <2>. QED BY <1>7, <2>2 DEF SendMessage, Encoded, Msg
<1>8. CASE UNCHANGED vars BY <1>8 DEF Own, vars
<1>. QED BY <1>2, <1>3, <1>4, <1>5, <1>6, <1>7, <1>8 DEF Next

(* However often wrapping, signing, encrypting, copying or sending has       *)
(* failed, the compose menu shows the text as it was written, but for        *)
(* inline signatures, and an envelope that is not encoded; before anything   *)
(* fails it is the user's own.                                               *)
THEOREM MenuAlwaysShowsText == Spec => []MenuShowsText
<1>1. TInv /\ Own => MenuShowsText
  <2> SUFFICES ASSUME TInv, Own, pc = "menu"
               PROVE  /\ ~msg.encoded /\ Range(msg.layers) \subseteq {"clearsigned"}
                      /\ msg.env \notin {"coded", "final"}
                      /\ faults = 0 => msg.env = "own"
    BY DEF MenuShowsText
  <2>1. AsWritten(msg) BY DEF TInv, Stage
  <2>. QED BY <2>1 DEF AsWritten, Inline, Range, Own
<1>2. Init => Own
  BY DEF Init, Own
<1>3. Spec => []Own
  BY <1>2, NextOwn, SpecTInv, PTL DEF Spec
<1>. QED BY <1>1, <1>3, SpecTInv, PTL

-----------------------------------------------------------------------------
(* One of each message *)

(* Where message i is: in the postponed folder, in the menu, delivered *)
Copies(i) ==
  Cardinality(Places(postponed, i)) + (IF msg.id = i THEN 1 ELSE 0) + delivered[i]

Begun ==
  /\ \A k \in DOMAIN postponed : postponed[k].id <= begun
  /\ msg.id <= begun
  /\ \A i \in Ids : (i > begun => delivered[i] = 0) /\ doubled[i] <= faults

CInv == TInv /\ Begun /\ OneOfEach

(* OneOfEach in terms of Copies. *)
LEMMA OneOfEachCopies ==
  OneOfEach <=> \A i \in 1..begun : Copies(i) <= 1 + doubled[i] /\ (Copies(i) = 0 => i \in gone)
  BY DEF OneOfEach, Copies, Places

(* What is counted are numbers. *)
LEMMA CopiesType ==
  ASSUME Typing, NEW i \in Ids
  PROVE  /\ Cardinality(Places(postponed, i)) \in Nat /\ delivered[i] \in Nat /\ doubled[i] \in Nat
         /\ Copies(i) \in Nat
<1>1. Cardinality(Places(postponed, i)) \in Nat BY PlacesFinite DEF Typing
<1>2. delivered[i] \in Nat /\ doubled[i] \in Nat BY DEF Typing
<1>. QED BY <1>1, <1>2 DEF Copies

(* The number of the message at hand; in the index there is none. *)
LEMMA MsgId ==
  ASSUME Typing
  PROVE  msg.id \in Int /\ (pc = "index" => msg.id = 0) /\ (pc # "index" => msg.id \in Ids)
         /\ begun \in Int /\ faults \in Int /\ 1..begun \subseteq Ids
  BY SendAssumption DEF Typing, NoMsg, Msg, Ids

(* Steps that neither begin, free, copy nor deliver a message *)
Quiet ==
  /\ postponed' = postponed /\ msg'.id = msg.id /\ delivered' = delivered
  /\ begun' = begun /\ doubled' = doubled /\ gone' = gone
  /\ faults' = faults \/ faults' = faults + 1

(* Steps that move no message keep one of each. *)
LEMMA QuietCInv == ASSUME CInv, TInv', Quiet PROVE CInv'
<1>1. Begun' BY MsgId, CopiesType DEF CInv, TInv, Begun, Quiet
<1>2. OneOfEach' BY DEF CInv, OneOfEach, Quiet
<1>. QED BY <1>1, <1>2 DEF CInv

(* Steps that free the message *)
Frees ==
  /\ postponed' = postponed /\ msg' = NoMsg /\ delivered' = delivered
  /\ begun' = begun /\ doubled' = doubled /\ gone' = gone \cup {msg.id}
  /\ faults' = faults \/ faults' = faults + 1

(* A message that is freed is among those that are gone. *)
LEMMA FreesCInv == ASSUME CInv, TInv', Frees PROVE CInv'
<1>1. Begun' BY MsgId, CopiesType DEF CInv, TInv, Typing, Begun, Frees, NoMsg
<1>2. ASSUME NEW i \in 1..begun
      PROVE  Copies(i)' <= 1 + doubled'[i] /\ (Copies(i)' = 0 => i \in gone')
  <2>1. i \in Ids /\ i # 0 BY MsgId DEF CInv, TInv
  <2>2. Copies(i) <= 1 + doubled[i] /\ (Copies(i) = 0 => i \in gone)
    BY OneOfEachCopies DEF CInv
  <2>3. Copies(i)' = Copies(i) - IF msg.id = i THEN 1 ELSE 0
    BY <2>1, CopiesType DEF CInv, TInv, Copies, Frees, NoMsg
  <2>. QED BY <2>1, <2>2, <2>3, CopiesType DEF CInv, TInv, Frees
<1>3. begun' = begun BY DEF Frees
<1>4. OneOfEach' BY <1>2, <1>3 DEF OneOfEach, Copies, Places
<1>. QED BY <1>1, <1>4 DEF CInv

(* A message that is begun is the only one of its number. *)
LEMMA NewCInv ==
  ASSUME CInv, TInv', NEW r, NEW c, NEW f, New(r, c, f)
  PROVE  CInv'
<1>0. /\ begun' = begun + 1 /\ msg'.id = begun + 1 /\ msg.id = 0 /\ postponed' = postponed
      /\ delivered' = delivered /\ doubled' = doubled /\ gone' = gone /\ faults' = faults
      /\ begun + 1 \in Ids
  <2>1. Typing BY DEF CInv, TInv
  <2>2. pc = "index" /\ begun < MaxMsg BY DEF New
  <2>3. begun + 1 \in Ids BY <2>1, <2>2, SendAssumption DEF Typing, Ids
  <2>4. msg.id = 0 BY <2>1, <2>2, MsgId
  <2>. QED BY <2>3, <2>4 DEF New, folders
<1>1. Typing /\ Begun BY DEF CInv, TInv
<1>2. Begun'
  <2>1. \A k \in DOMAIN postponed : postponed[k].id \in Int
    <3>1. \A k \in DOMAIN postponed : postponed[k] \in Draft BY <1>1 DEF Typing
    <3>. QED BY <3>1 DEF Draft, Ids
  <2>2. \A i \in Ids : i \in Int BY DEF Ids
  <2>. QED BY <1>0, <1>1, <2>1, <2>2, MsgId DEF Begun
<1>3. ASSUME NEW i \in 1..begun'
      PROVE  Copies(i)' <= 1 + doubled'[i] /\ (Copies(i)' = 0 => i \in gone')
  <2>1. i \in Ids /\ i # 0
    BY <1>0, <1>1, MsgId, SendAssumption DEF Ids
  <2>2. CASE i \in 1..begun
    <3>1. Copies(i) <= 1 + doubled[i] /\ (Copies(i) = 0 => i \in gone)
      BY <2>2, OneOfEachCopies DEF CInv
    <3>2. msg.id # i /\ msg'.id # i BY <1>0, <1>1, <2>2, MsgId
    <3>3. Copies(i)' = Copies(i) BY <1>0, <3>2 DEF Copies
    <3>. QED BY <1>0, <3>1, <3>3
  <2>3. CASE i = begun + 1
    <3>1. Places(postponed, i) = {} BY <1>1, <2>3, MsgId DEF Begun, Places
    <3>2. delivered[i] = 0 /\ doubled[i] \in Nat
      <4>1. i > begun BY <1>1, <2>3, MsgId
      <4>. QED BY <1>1, <2>1, <4>1, CopiesType DEF Begun
    <3>3. Copies(i)' = 1 BY <1>0, <2>3, <3>1, <3>2, FS_EmptySet DEF Copies
    <3>. QED BY <1>0, <3>2, <3>3
  <2>. QED BY <1>0, <1>1, <2>2, <2>3, MsgId
<1>4. OneOfEach' BY <1>3 DEF OneOfEach, Copies, Places
<1>. QED BY <1>2, <1>4 DEF CInv

(* A step that changes where message u is, and nothing else: the change in   *)
(* the number of its drafts, of it in the menu, of its deliveries, and of    *)
(* what there may be more of it.                                             *)
Moves(u, p, m, d, e) ==
  /\ u <= begun /\ begun' = begun /\ gone \subseteq gone'
  /\ \A k \in DOMAIN postponed' : postponed'[k].id <= begun
  /\ msg'.id <= begun
  /\ faults' \in {faults, faults + 1} /\ (e = 1 => faults' = faults + 1)
  /\ \A i \in Ids : /\ Cardinality(Places(postponed', i))
                          = Cardinality(Places(postponed, i)) + (IF i = u THEN p ELSE 0)
                     /\ (IF msg'.id = i THEN 1 ELSE 0)
                          = (IF msg.id = i THEN 1 ELSE 0) + (IF i = u THEN m ELSE 0)
                     /\ delivered'[i] = delivered[i] + (IF i = u THEN d ELSE 0)
                     /\ doubled'[i] = doubled[i] + (IF i = u THEN e ELSE 0)
  /\ p + m + d <= e /\ (p + m + d < 0 => u \in gone')

(* A message may be in one place more when one error more is counted, and    *)
(* in fewer when it is gone.                                                 *)
LEMMA MovesCInv ==
  ASSUME CInv, TInv', NEW u \in Ids, NEW p \in Int, NEW m \in Int, NEW d \in Int, NEW e \in {0, 1},
         Moves(u, p, m, d, e)
  PROVE  CInv'
<1> USE DEF Moves
<1>0. Typing /\ Begun BY DEF CInv, TInv
<1>1. Begun'
  <2>1. \A i \in Ids : i \in Int BY DEF Ids
  <2>2. ASSUME NEW i \in Ids PROVE (i > begun' => delivered'[i] = 0) /\ doubled'[i] <= faults'
    <3>1. CASE i = u
      BY <1>0, <2>1, <3>1, MsgId, CopiesType DEF Begun
    <3>2. CASE i # u
      BY <1>0, <2>1, <3>2, MsgId, CopiesType DEF Begun
    <3>. QED BY <3>1, <3>2
  <2>. QED BY <2>2 DEF Begun
<1>2. ASSUME NEW i \in 1..begun'
      PROVE  Copies(i)' <= 1 + doubled'[i] /\ (Copies(i)' = 0 => i \in gone')
  <2>1. i \in Ids BY <1>0, MsgId
  <2>2. Copies(i) <= 1 + doubled[i] /\ (Copies(i) = 0 => i \in gone) BY OneOfEachCopies DEF CInv
  <2> DEFINE np == Cardinality(Places(postponed, i))  nm == IF msg.id = i THEN 1 ELSE 0
             np2 == Cardinality(Places(postponed', i))  nm2 == IF msg'.id = i THEN 1 ELSE 0
  <2>3. np \in Nat /\ nm \in Nat /\ delivered[i] \in Nat /\ doubled[i] \in Nat
    BY <1>0, <2>1, CopiesType
  <2>4. Copies(i) = np + nm + delivered[i] /\ Copies(i)' = np2 + nm2 + delivered'[i] BY DEF Copies
  <2>5. CASE i = u
    <3>1. np2 = np + p /\ nm2 = nm + m /\ delivered'[i] = delivered[i] + d /\ doubled'[i] = doubled[i] + e
      BY <2>1, <2>5
    <3> HIDE DEF np, nm, np2, nm2
    <3>2. Copies(i)' = Copies(i) + (p + m + d) BY <2>3, <2>4, <3>1
    <3>3. Copies(i) \in Int BY <2>3, <2>4
    <3> DEFINE x == p + m + d
    <3>4. x \in Int /\ x <= e /\ (x < 0 => u \in gone') /\ Copies(i)' = Copies(i) + x BY <3>2
    <3> HIDE DEF x
    <3>5. Copies(i)' <= 1 + doubled'[i] BY <2>2, <2>3, <3>1, <3>3, <3>4
    <3>6. ASSUME Copies(i)' = 0 PROVE i \in gone'
      <4>1. Copies(i) \in Nat BY <1>0, <2>1, CopiesType
      <4>2. Copies(i) = 0 \/ x < 0 BY <3>4, <3>6, <4>1
      <4>. QED BY <2>2, <2>5, <3>4, <4>2
    <3>. QED BY <3>5, <3>6
  <2>6. CASE i # u
    <3>1. np2 = np + 0 /\ nm2 = nm + 0 /\ delivered'[i] = delivered[i] + 0 /\ doubled'[i] = doubled[i] + 0
      BY <2>1, <2>6
    <3> HIDE DEF np, nm, np2, nm2
    <3>. QED BY <2>2, <2>3, <2>4, <3>1
  <2>. QED BY <2>5, <2>6
<1>3. OneOfEach' BY <1>2 DEF OneOfEach, Copies, Places
<1>. QED BY <1>1, <1>3 DEF CInv

(* The drafts are of messages that have been begun. *)
LEMMA DraftIds ==
  ASSUME CInv, NEW k \in DOMAIN postponed
  PROVE  postponed[k].id \in Ids /\ postponed[k].id <= begun /\ postponed[k].id # 0
<1>1. postponed[k] \in Draft BY DEF CInv, TInv, Typing
<1>. QED BY <1>1 DEF CInv, Begun, Draft, Ids

(* So are those that are left when one is recalled. *)
LEMMA RemovedIds ==
  ASSUME CInv, NEW k \in DOMAIN postponed
  PROVE  \A j \in DOMAIN RemoveAt(postponed, k) : RemoveAt(postponed, k)[j].id <= begun
<1>1. postponed \in Seq(Draft) BY DEF CInv, TInv, Typing
<1>2. /\ DOMAIN RemoveAt(postponed, k) = 1..(Len(postponed) - 1)
      /\ \A j \in 1..(Len(postponed) - 1) :
           RemoveAt(postponed, k)[j] = IF j < k THEN postponed[j] ELSE postponed[j + 1]
  <2>1. RemoveAt(postponed, k) \in Seq(Draft) /\ Len(RemoveAt(postponed, k)) = Len(postponed) - 1
    BY <1>1, RemovedAt
  <2>2. DOMAIN RemoveAt(postponed, k) = 1..(Len(postponed) - 1) BY <2>1
  <2>. QED BY <1>1, <2>2, RemovedAt
<1>3. ASSUME NEW j \in DOMAIN RemoveAt(postponed, k) PROVE RemoveAt(postponed, k)[j].id <= begun
  <2>1. j \in DOMAIN postponed /\ j + 1 \in DOMAIN postponed BY <1>1, <1>2
  <2>. QED BY <1>2, <2>1, DraftIds
<1>. QED BY <1>3

(* Recalling moves a draft into the menu, deleting one discards it. *)
LEMMA RecallCInv ==
  ASSUME CInv, TInv', NEW k \in 1..Len(postponed), Recall(k) \/ RecallKeeps(k) \/ DeleteDraft(k)
  PROVE  CInv'
<1> DEFINE u == postponed[k].id
<1>0. Typing /\ postponed \in Seq(Draft) /\ k \in DOMAIN postponed /\ pc = "index"
  BY DEF CInv, TInv, Typing, Recall, RecallKeeps, DeleteDraft
<1>1. u \in Ids /\ u <= begun /\ u # 0 /\ msg.id = 0 /\ 0 \notin Ids
  BY <1>0, DraftIds, MsgId DEF Ids
<1>2. \A i \in Ids : Cardinality(Places(RemoveAt(postponed, k), i))
                       = Cardinality(Places(postponed, i)) + (IF i = u THEN -1 ELSE 0)
  <2> SUFFICES ASSUME NEW i \in Ids
               PROVE  Cardinality(Places(RemoveAt(postponed, k), i))
                        = Cardinality(Places(postponed, i)) + (IF i = u THEN -1 ELSE 0)
    OBVIOUS
  <2>1. Cardinality(Places(postponed, i)) \in Nat BY <1>0, PlacesFinite
  <2>2. Cardinality(Places(RemoveAt(postponed, k), i))
          = Cardinality(Places(postponed, i)) - IF u = i THEN 1 ELSE 0
    BY <1>0, PlacesRemove
  <2>. QED BY <2>1, <2>2
<1>3. \A i \in Ids : /\ delivered[i] = delivered[i] + 0 /\ doubled[i] = doubled[i] + 0
                     /\ Cardinality(Places(postponed, i)) = Cardinality(Places(postponed, i)) + 0
  BY <1>0, CopiesType
<1>4. \A j \in DOMAIN RemoveAt(postponed, k) : RemoveAt(postponed, k)[j].id <= begun
  BY <1>0, RemovedIds
<1>5. \A j \in DOMAIN postponed : postponed[j].id <= begun BY DraftIds
<1>6. CASE Recall(k)
  <2>1. /\ postponed' = RemoveAt(postponed, k) /\ msg'.id = u /\ delivered' = delivered
        /\ doubled' = doubled /\ gone' = gone /\ begun' = begun /\ faults' = faults
    BY <1>6 DEF Recall, Recalled
  <2> HIDE DEF u
  <2>2. \A i \in Ids :
          /\ Cardinality(Places(postponed', i)) = Cardinality(Places(postponed, i)) + (IF i = u THEN -1 ELSE 0)
          /\ (IF msg'.id = i THEN 1 ELSE 0) = (IF msg.id = i THEN 1 ELSE 0) + (IF i = u THEN 1 ELSE 0)
          /\ delivered'[i] = delivered[i] + (IF i = u THEN 0 ELSE 0)
          /\ doubled'[i] = doubled[i] + (IF i = u THEN 0 ELSE 0)
    BY <1>1, <1>2, <1>3, <2>1
  <2>3. \A j \in DOMAIN postponed' : postponed'[j].id <= begun BY <1>4, <2>1
  <2>4. Moves(u, -1, 1, 0, 0) BY <1>1, <2>1, <2>2, <2>3 DEF Moves
  <2>. QED BY <1>1, <2>4, MovesCInv
<1>7. CASE RecallKeeps(k)
  <2>1. /\ postponed' = postponed /\ msg'.id = u /\ delivered' = delivered
        /\ doubled' = [doubled EXCEPT ![u] = @ + 1] /\ gone' = gone /\ begun' = begun
        /\ faults' = faults + 1
    BY <1>7 DEF RecallKeeps, Recalled, Fault, folders
  <2> HIDE DEF u
  <2>2. \A i \in Ids : doubled'[i] = doubled[i] + (IF i = u THEN 1 ELSE 0)
    BY <1>0, <1>1, <1>3, <2>1 DEF Typing
  <2>3. \A i \in Ids :
          /\ Cardinality(Places(postponed', i)) = Cardinality(Places(postponed, i)) + (IF i = u THEN 0 ELSE 0)
          /\ (IF msg'.id = i THEN 1 ELSE 0) = (IF msg.id = i THEN 1 ELSE 0) + (IF i = u THEN 1 ELSE 0)
          /\ delivered'[i] = delivered[i] + (IF i = u THEN 0 ELSE 0)
    BY <1>1, <1>3, <2>1
  <2>4. Moves(u, 0, 1, 0, 1) BY <1>1, <1>5, <2>1, <2>2, <2>3 DEF Moves
  <2>. QED BY <1>1, <2>4, MovesCInv
<1>8. CASE DeleteDraft(k)
  <2>1. /\ postponed' = RemoveAt(postponed, k) /\ msg' = msg /\ delivered' = delivered
        /\ doubled' = doubled /\ gone' = gone \cup {u} /\ begun' = begun /\ faults' = faults
    BY <1>8 DEF DeleteDraft
  <2> HIDE DEF u
  <2>2. \A i \in Ids :
          /\ Cardinality(Places(postponed', i)) = Cardinality(Places(postponed, i)) + (IF i = u THEN -1 ELSE 0)
          /\ (IF msg'.id = i THEN 1 ELSE 0) = (IF msg.id = i THEN 1 ELSE 0) + (IF i = u THEN 0 ELSE 0)
          /\ delivered'[i] = delivered[i] + (IF i = u THEN 0 ELSE 0)
          /\ doubled'[i] = doubled[i] + (IF i = u THEN 0 ELSE 0)
    BY <1>1, <1>2, <1>3, <2>1
  <2>3. msg'.id <= begun BY <2>1 DEF CInv, Begun
  <2>4. Moves(u, -1, 0, 0, 0) BY <1>1, <1>4, <2>1, <2>2, <2>3 DEF Moves
  <2>. QED BY <1>1, <2>4, MovesCInv
<1>. QED BY <1>6, <1>7, <1>8

(* Postponing adds one draft, of the message in the menu. *)
LEMMA AppendedIds ==
  ASSUME CInv, NEW d \in Draft, d.id <= begun
  PROVE  /\ \A j \in DOMAIN Append(postponed, d) : Append(postponed, d)[j].id <= begun
         /\ \A i \in Ids : Cardinality(Places(Append(postponed, d), i))
                             = Cardinality(Places(postponed, i)) + (IF i = d.id THEN 1 ELSE 0)
<1>1. postponed \in Seq(Draft) BY DEF CInv, TInv, Typing
<1>2. ASSUME NEW j \in DOMAIN Append(postponed, d) PROVE Append(postponed, d)[j].id <= begun
  <2>1. CASE j \in DOMAIN postponed
    <3>1. Append(postponed, d)[j] = postponed[j] BY <1>1, <2>1
    <3>. QED BY <2>1, <3>1, DraftIds
  <2>2. CASE j \notin DOMAIN postponed
    <3>1. Append(postponed, d)[j] = d BY <1>1, <2>2
    <3>. QED BY <3>1
  <2>. QED BY <2>1, <2>2
<1>. QED BY <1>1, <1>2, PlacesAppend

(* Postponing moves a message out of the menu; a torn draft is one more. *)
LEMMA PostponeCInv ==
  ASSUME CInv, TInv', Postpone \/ \E b \in BOOLEAN : PostponeFails(b)
  PROVE  CInv'
<1> DEFINE u == msg.id
<1>0. Typing /\ Stage /\ pc = "menu" /\ msg \in Msg
  BY DEF CInv, TInv, Typing, Postpone, PostponeFails
<1>1. u \in Ids /\ u <= begun /\ u # 0 /\ 0 \notin Ids
  BY <1>0, MsgId DEF Ids, CInv, Begun
<1>3. \A i \in Ids : /\ delivered[i] = delivered[i] + 0 /\ doubled[i] = doubled[i] + 0
                     /\ Cardinality(Places(postponed, i)) = Cardinality(Places(postponed, i)) + 0
  BY <1>0, CopiesType
<1>4. CASE Postpone
  <2> DEFINE d == AsDraft(FALSE)
  <2>1. /\ postponed' = Append(postponed, d) /\ msg'.id = 0 /\ delivered' = delivered
        /\ doubled' = doubled /\ gone' = gone /\ begun' = begun /\ faults' = faults
    BY <1>4 DEF Postpone, Cleanup, NoMsg
  <2>2. d \in Draft /\ d.id = u BY <1>0, AsDraftType
  <2> HIDE DEF d
  <2>3. \A i \in Ids : Cardinality(Places(postponed', i))
                         = Cardinality(Places(postponed, i)) + (IF i = u THEN 1 ELSE 0)
    BY <1>1, <2>1, <2>2, AppendedIds
  <2>4. \A j \in DOMAIN postponed' : postponed'[j].id <= begun BY <1>1, <2>1, <2>2, AppendedIds
  <2>5. \A i \in Ids :
          /\ (IF msg'.id = i THEN 1 ELSE 0) = (IF msg.id = i THEN 1 ELSE 0) + (IF i = u THEN -1 ELSE 0)
          /\ delivered'[i] = delivered[i] + (IF i = u THEN 0 ELSE 0)
          /\ doubled'[i] = doubled[i] + (IF i = u THEN 0 ELSE 0)
    BY <1>1, <1>3, <2>1
  <2>6. msg'.id <= begun BY <1>0, <2>1, MsgId DEF Typing
  <2> HIDE DEF u
  <2>7. Moves(u, 1, -1, 0, 0) BY <1>1, <2>1, <2>3, <2>4, <2>5, <2>6 DEF Moves
  <2>. QED BY <1>1, <2>7, MovesCInv
<1>5. CASE \E b \in BOOLEAN : PostponeFails(b)
  <2>0. PICK b \in BOOLEAN : PostponeFails(b) BY <1>5
  <2>1. msg'.id = u BY <1>0, <2>0, PostponedNotMsg DEF PostponeFails
  <2>2. CASE b = FALSE
    <3>1. Quiet BY <2>0, <2>1, <2>2 DEF PostponeFails, Quiet, Fault
    <3>. QED BY <3>1, QuietCInv
  <2>3. CASE b = TRUE
    <3> DEFINE d == AsDraft(TRUE)
    <3>1. /\ postponed' = Append(postponed, d) /\ delivered' = delivered
          /\ doubled' = [doubled EXCEPT ![u] = @ + 1] /\ gone' = gone /\ begun' = begun
          /\ faults' = faults + 1
      BY <2>0, <2>3 DEF PostponeFails, Fault
    <3>2. d \in Draft /\ d.id = u BY <1>0, AsDraftType
    <3> HIDE DEF d
    <3>3. \A i \in Ids : Cardinality(Places(postponed', i))
                           = Cardinality(Places(postponed, i)) + (IF i = u THEN 1 ELSE 0)
      BY <1>1, <3>1, <3>2, AppendedIds
    <3>4. \A j \in DOMAIN postponed' : postponed'[j].id <= begun BY <1>1, <3>1, <3>2, AppendedIds
    <3>5. \A i \in Ids :
            /\ (IF msg'.id = i THEN 1 ELSE 0) = (IF msg.id = i THEN 1 ELSE 0) + (IF i = u THEN 0 ELSE 0)
            /\ delivered'[i] = delivered[i] + (IF i = u THEN 0 ELSE 0)
      BY <1>1, <1>3, <2>1, <3>1
    <3>6. \A i \in Ids : doubled'[i] = doubled[i] + (IF i = u THEN 1 ELSE 0)
      BY <1>0, <1>1, <1>3, <3>1 DEF Typing
    <3> HIDE DEF u
    <3>7. Moves(u, 1, 0, 0, 1) BY <1>1, <2>1, <3>1, <3>3, <3>4, <3>5, <3>6 DEF Moves
    <3>. QED BY <1>1, <3>7, MovesCInv
  <2>. QED BY <2>2, <2>3
<1>. QED BY <1>4, <1>5

(* Sending moves a message out of the menu; the MTA may report an error      *)
(* for what it has sent.                                                     *)
LEMMA SendCInv ==
  ASSUME CInv, TInv', Sent \/ \E b \in BOOLEAN : SendFails(b)
  PROVE  CInv'
<1> DEFINE u == msg.id
<1>0. Typing /\ Stage /\ pc = "mta" /\ msg \in Msg
  BY DEF CInv, TInv, Typing, Sent, SendFails
<1>1. u \in Ids /\ u <= begun /\ u # 0 /\ 0 \notin Ids
  BY <1>0, MsgId DEF Ids, CInv, Begun
<1>2. \A i \in Ids : /\ delivered[i] = delivered[i] + 0 /\ doubled[i] = doubled[i] + 0
                     /\ Cardinality(Places(postponed, i)) = Cardinality(Places(postponed, i)) + 0
  BY <1>0, CopiesType
<1>3. \A j \in DOMAIN postponed : postponed[j].id <= begun BY DraftIds
<1>4. CASE Sent
  <2>1. /\ postponed' = postponed /\ msg'.id = 0 /\ delivered' = [delivered EXCEPT ![u] = @ + 1]
        /\ doubled' = doubled /\ gone' = gone /\ begun' = begun /\ faults' = faults
    BY <1>4 DEF Sent, Cleanup, NoMsg, history
  <2>2. \A i \in Ids : delivered'[i] = delivered[i] + (IF i = u THEN 1 ELSE 0)
    BY <1>0, <1>1, <1>2, <2>1 DEF Typing
  <2>3. \A i \in Ids :
          /\ Cardinality(Places(postponed', i)) = Cardinality(Places(postponed, i)) + (IF i = u THEN 0 ELSE 0)
          /\ (IF msg'.id = i THEN 1 ELSE 0) = (IF msg.id = i THEN 1 ELSE 0) + (IF i = u THEN -1 ELSE 0)
          /\ doubled'[i] = doubled[i] + (IF i = u THEN 0 ELSE 0)
    BY <1>1, <1>2, <2>1
  <2>4. msg'.id <= begun BY <1>0, <2>1, MsgId DEF Typing
  <2> HIDE DEF u
  <2>5. Moves(u, 0, -1, 1, 0) BY <1>1, <1>3, <2>1, <2>2, <2>3, <2>4 DEF Moves
  <2>. QED BY <1>1, <2>5, MovesCInv
<1>5. CASE \E b \in BOOLEAN : SendFails(b)
  <2>0. PICK b \in BOOLEAN : SendFails(b) BY <1>5
  <2>1. msg'.id = u BY <1>0, <2>0, NotSentMsg DEF SendFails
  <2>2. CASE b = FALSE
    <3>1. Quiet BY <2>0, <2>1, <2>2 DEF SendFails, Quiet, Fault
    <3>. QED BY <3>1, QuietCInv
  <2>3. CASE b = TRUE
    <3>1. /\ postponed' = postponed /\ delivered' = [delivered EXCEPT ![u] = @ + 1]
          /\ doubled' = [doubled EXCEPT ![u] = @ + 1] /\ gone' = gone /\ begun' = begun
          /\ faults' = faults + 1
      BY <2>0, <2>3 DEF SendFails, Fault
    <3>2. \A i \in Ids : delivered'[i] = delivered[i] + (IF i = u THEN 1 ELSE 0)
      BY <1>0, <1>1, <1>2, <3>1 DEF Typing
    <3>3. \A i \in Ids : doubled'[i] = doubled[i] + (IF i = u THEN 1 ELSE 0)
      BY <1>0, <1>1, <1>2, <3>1 DEF Typing
    <3>4. \A i \in Ids :
            /\ Cardinality(Places(postponed', i)) = Cardinality(Places(postponed, i)) + (IF i = u THEN 0 ELSE 0)
            /\ (IF msg'.id = i THEN 1 ELSE 0) = (IF msg.id = i THEN 1 ELSE 0) + (IF i = u THEN 0 ELSE 0)
      BY <1>1, <1>2, <2>1, <3>1
    <3> HIDE DEF u
    <3>5. Moves(u, 0, 0, 1, 1) BY <1>1, <1>3, <2>1, <3>1, <3>2, <3>3, <3>4 DEF Moves
    <3>. QED BY <1>1, <3>5, MovesCInv
  <2>. QED BY <2>2, <2>3
<1>. QED BY <1>4, <1>5

(* All other steps free the message or move none. *)
LEMMA OtherCInv ==
  ASSUME CInv, TInv',
         \/ ChangeFolder \/ OpenText \/ OpenTextFails \/ Edit \/ EditAborted \/ Discard
         \/ Attach \/ SendMessage \/ Protect \/ ProtectFails \/ WriteFcc \/ WriteFccFails
         \/ SentNever \/ Crash \/ \E s \in Methods : SetSecurity(s)
  PROVE  CInv'
<1>0. Typing /\ Stage BY DEF CInv, TInv
<1>1. CASE OpenTextFails \/ EditAborted \/ Discard \/ SentNever \/ Crash
  <2>1. Frees
    BY <1>1 DEF OpenTextFails, EditAborted, Discard, SentNever, Crash, Frees, Cleanup, Fault, folders
  <2>. QED BY <2>1, FreesCInv
<1>2. CASE ChangeFolder \/ OpenText \/ Edit \/ WriteFcc
  <2>1. Quiet BY <1>2 DEF ChangeFolder, OpenText, Edit, WriteFcc, Quiet, folders, history
  <2>. QED BY <2>1, QuietCInv
<1>3. CASE Attach \/ SendMessage \/ Protect \/ \E s \in Methods : SetSecurity(s)
  <2>0. pc # "index" /\ msg \in Msg
    BY <1>0, <1>3 DEF Attach, SendMessage, Protect, SetSecurity, Typing
  <2>1. msg'.id = msg.id
    <3>1. CASE Attach BY <2>0, <3>1 DEF Attach, Msg
    <3>2. CASE SendMessage
      <4>1. msg.layers \in Inline BY <1>0, <3>2 DEF SendMessage, Stage, AsWritten
      <4>2. Wrapped(msg) \in Msg /\ Wrapped(msg).id = msg.id BY <2>0, <4>1, WrapInline DEF Msg
      <4>. QED BY <3>2, <4>2 DEF SendMessage, Encoded, Msg
    <3>3. CASE Protect BY <2>0, <3>3 DEF Protect, Prepared, Msg
    <3>4. CASE \E s \in Methods : SetSecurity(s) BY <2>0, <3>4 DEF SetSecurity, Msg
    <3>. QED BY <1>3, <3>1, <3>2, <3>3, <3>4
  <2>2. Quiet
    BY <1>3, <2>1 DEF Attach, SendMessage, Protect, SetSecurity, Quiet, folders, history
  <2>. QED BY <2>2, QuietCInv
<1>4. CASE ProtectFails
  <2>1. msg \in Msg /\ msg.layers \in Body BY <1>0, <1>4 DEF ProtectFails, Typing, Stage
  <2>2. Unwrapped(msg) \in Msg /\ Unwrapped(msg).id = msg.id BY <2>1, UnwrapBody DEF Msg
  <2>3. msg'.id = msg.id BY <1>4, <2>2 DEF ProtectFails, Encoded, Msg
  <2>4. Quiet BY <1>4, <2>3 DEF ProtectFails, Quiet, Fault, folders, history
  <2>. QED BY <2>4, QuietCInv
<1>5. CASE WriteFccFails
  <2>1. msg'.id = msg.id BY <1>0, <1>5, NotSentMsg DEF WriteFccFails
  <2>2. Quiet BY <1>5, <2>1 DEF WriteFccFails, Quiet, Fault, folders, history
  <2>. QED BY <2>2, QuietCInv
<1>. QED BY <1>1, <1>2, <1>3, <1>4, <1>5

(* Every step keeps one of each. *)
LEMMA NextCInv == CInv /\ [Next]_vars => CInv'
<1> SUFFICES ASSUME CInv, [Next]_vars PROVE CInv'
  OBVIOUS
<1>0. TInv' BY NextTInv DEF CInv
<1>1. CASE \E r, c, f \in BOOLEAN : New(r, c, f) BY <1>0, <1>1, NewCInv
<1>2. CASE \E i \in 1..Len(postponed) : Recall(i) \/ RecallKeeps(i) \/ DeleteDraft(i)
  BY <1>0, <1>2, RecallCInv
<1>3. CASE Postpone \/ \E b \in BOOLEAN : PostponeFails(b) BY <1>0, <1>3, PostponeCInv
<1>4. CASE Sent \/ \E b \in BOOLEAN : SendFails(b) BY <1>0, <1>4, SendCInv
<1>5. CASE \/ ChangeFolder \/ OpenText \/ OpenTextFails \/ Edit \/ EditAborted \/ Discard
           \/ Attach \/ SendMessage \/ Protect \/ ProtectFails \/ WriteFcc \/ WriteFccFails
           \/ SentNever \/ Crash \/ \E s \in Methods : SetSecurity(s)
  BY <1>0, <1>5, OtherCInv
<1>6. CASE UNCHANGED vars
  <2>1. Quiet BY <1>6 DEF vars, Quiet
  <2>. QED BY <1>0, <2>1, QuietCInv
<1>. QED BY <1>1, <1>2, <1>3, <1>4, <1>5, <1>6 DEF Next

(* At the beginning there are no messages. *)
LEMMA InitCInv == Init => CInv
<1> SUFFICES ASSUME Init PROVE CInv
  OBVIOUS
<1>1. TInv BY InitTInv
<1>2. Begun BY SendAssumption DEF Init, Begun, NoMsg, Ids
<1>3. OneOfEach BY DEF Init, OneOfEach
<1>. QED BY <1>1, <1>2, <1>3 DEF CInv

(* There being one of each is an invariant, with what it needs. *)
LEMMA SpecCInv == Spec => []CInv
  BY InitCInv, NextCInv, PTL DEF Spec

(* No message is lost, and none becomes two, in whatever order messages are  *)
(* begun, postponed, recalled, sent and fail to be: the postponed folder,    *)
(* the menu and what was delivered hold one of each, but for the errors      *)
(* that are counted in doubled and the losses that are in gone.              *)
THEOREM AlwaysOneOfEach == Spec => []OneOfEach
  BY SpecCInv, PTL DEF CInv

(* The type of the variables; that no message is delivered more often than   *)
(* there are errors and one follows from there being one of each.            *)
THEOREM SendTypeCorrect == Spec => []SendTypeOK
<1>1. CInv => SendTypeOK
  <2> SUFFICES ASSUME CInv PROVE SendTypeOK
    OBVIOUS
  <2>0. Typing /\ Begun /\ OneOfEach BY DEF CInv, TInv
  <2>1. Range(postponed) \subseteq Draft BY <2>0 DEF Typing, Range
  <2>2. ASSUME NEW i \in Ids PROVE doubled[i] \in 0..MaxFaults /\ delivered[i] \in 0..MaxFaults + 1
    <3>1. doubled[i] \in 0..MaxFaults
      BY <2>0, CopiesType, SendAssumption DEF Typing, Begun
    <3>2. CASE i > begun
      BY <2>0, <3>1, <3>2, SendAssumption DEF Begun
    <3>3. CASE ~(i > begun)
      <4>1. i \in 1..begun BY <2>0, <3>3, SendAssumption DEF Typing, Ids
      <4>2. Copies(i) <= 1 + doubled[i] BY <2>0, <4>1, OneOfEachCopies
      <4>3. Cardinality(Places(postponed, i)) \in Nat /\ delivered[i] \in Nat /\ doubled[i] \in Nat
        BY <2>0, CopiesType
      <4>4. delivered[i] <= Copies(i) /\ Copies(i) \in Nat BY <4>3 DEF Copies
      <4>. QED BY <3>1, <4>2, <4>3, <4>4, SendAssumption
    <3>. QED BY <3>2, <3>3, <3>1
  <2>3. delivered \in [Ids -> 0..MaxFaults + 1] /\ doubled \in [Ids -> 0..MaxFaults]
    BY <2>0, <2>2 DEF Typing
  <2>4. msg \in {NoMsg} \cup Msg BY <2>0 DEF Typing
  <2>. QED BY <2>0, <2>1, <2>3, <2>4 DEF Typing, SendTypeOK
<1>. QED BY <1>1, SpecCInv, PTL

-----------------------------------------------------------------------------
(* Replies *)

(* A message, or a draft, that is still connected with what it answers knows *)
(* so.                                                                       *)
Connected(m) ==
  /\ m.reply => m.id \in answers
  /\ m.id \in answers \ apart => m.reply /\ (m.cur \/ ~m.recalled)

DraftConnected(d) ==
  /\ d.ref => d.id \in answers
  /\ d.id \in answers \ apart => d.ref

RInv ==
  /\ CInv
  /\ replied \subseteq answers /\ answers \subseteq 1..begun
  /\ pc # "index" => Connected(msg)
  /\ \A k \in DOMAIN postponed : DraftConnected(postponed[k])

(* Steps that change neither the message's id nor what it answers *)
SameReply(m, n) == m.id = n.id /\ m.reply = n.reply /\ m.cur = n.cur /\ m.recalled = n.recalled

(* Steps that leave the message's reply flags alone keep it connected. *)
LEMMA KeepsRInv ==
  ASSUME RInv, CInv', postponed' = postponed, answers' = answers, apart' = apart, begun' = begun,
         replied' = replied, pc' = "index" \/ (pc # "index" /\ SameReply(msg', msg))
  PROVE  RInv'
<1>1. \A k \in DOMAIN postponed' : DraftConnected(postponed[k])'
  BY DEF RInv, DraftConnected
<1>2. pc' # "index" => Connected(msg)'
  BY DEF RInv, Connected, SameReply
<1>. QED BY <1>1, <1>2 DEF RInv

(* A new message is connected: its number is that of no reply yet. *)
LEMMA NewRInv ==
  ASSUME RInv, CInv', NEW r \in BOOLEAN, NEW c \in BOOLEAN, NEW f \in BOOLEAN, New(r, c, f)
  PROVE  RInv'
<1>0. Typing /\ begun \in Int BY MsgId DEF RInv, CInv, TInv
<1>1. /\ postponed' = postponed /\ apart' = apart /\ begun' = begun + 1 /\ replied' = replied
      /\ answers' = (IF r THEN answers \cup {begun + 1} ELSE answers)
      /\ msg'.id = begun + 1 /\ msg'.reply = r /\ msg'.cur = c /\ msg'.recalled = FALSE
  BY DEF New, folders
<1>2. begun + 1 \notin answers /\ answers' \subseteq 1..begun' /\ replied' \subseteq answers'
  BY <1>0, <1>1 DEF RInv, Typing
<1>3. Connected(msg)' BY <1>1, <1>2 DEF Connected
<1>4. ASSUME NEW k \in DOMAIN postponed PROVE DraftConnected(postponed[k])'
  <2>1. postponed[k].id # begun + 1 BY <1>0, DraftIds DEF RInv, Ids
  <2>. QED BY <1>1, <2>1 DEF RInv, DraftConnected
<1>. QED BY <1>1, <1>2, <1>3, <1>4 DEF RInv

(* The drafts that are left were there before. *)
LEMMA RemovedConnected ==
  ASSUME RInv, NEW k \in DOMAIN postponed
  PROVE  \A j \in DOMAIN RemoveAt(postponed, k) :
           \E i \in DOMAIN postponed : RemoveAt(postponed, k)[j] = postponed[i]
<1>1. postponed \in Seq(Draft) BY DEF RInv, CInv, TInv, Typing
<1>2. RemoveAt(postponed, k) \in Seq(Draft) /\ Len(RemoveAt(postponed, k)) = Len(postponed) - 1
  BY <1>1, RemovedAt
<1>3. ASSUME NEW j \in DOMAIN RemoveAt(postponed, k)
      PROVE  \E i \in DOMAIN postponed : RemoveAt(postponed, k)[j] = postponed[i]
  <2>1. j \in 1..(Len(postponed) - 1) /\ j \in DOMAIN postponed /\ j + 1 \in DOMAIN postponed
    BY <1>1, <1>2
  <2>2. RemoveAt(postponed, k)[j] = IF j < k THEN postponed[j] ELSE postponed[j + 1]
    BY <1>1, <2>1, RemovedAt
  <2>. QED BY <2>1, <2>2
<1>. QED BY <1>3

(* A recalled draft is connected as long as the original is at hand. *)
LEMMA RecallRInv ==
  ASSUME RInv, CInv', NEW k \in 1..Len(postponed), Recall(k) \/ RecallKeeps(k) \/ DeleteDraft(k)
  PROVE  RInv'
<1>0. Typing /\ k \in DOMAIN postponed BY DEF RInv, CInv, TInv, Typing
<1>1. /\ answers' = answers /\ begun' = begun /\ replied' = replied /\ apart \subseteq apart'
  BY DEF Recall, RecallKeeps, DeleteDraft, folders
<1>2. \A j \in DOMAIN postponed' : \E i \in DOMAIN postponed : postponed'[j] = postponed[i]
  <2>1. CASE postponed' = postponed BY <2>1
  <2>2. CASE postponed' = RemoveAt(postponed, k) BY <1>0, <2>2, RemovedConnected
  <2>. QED BY <2>1, <2>2 DEF Recall, RecallKeeps, DeleteDraft, folders
<1>3. ASSUME NEW j \in DOMAIN postponed' PROVE DraftConnected(postponed[j])'
  <2>1. PICK i \in DOMAIN postponed : postponed'[j] = postponed[i] BY <1>2
  <2>2. DraftConnected(postponed[i]) BY DEF RInv
  <2>. QED BY <1>1, <2>1, <2>2 DEF DraftConnected
<1>4. pc' # "index" => Connected(msg)'
  <2> SUFFICES ASSUME pc' # "index" PROVE Connected(msg)'
    OBVIOUS
  <2>1. /\ msg' = Recalled(postponed[k])
        /\ apart' = (IF home THEN apart ELSE apart \cup {postponed[k].id})
    BY DEF Recall, RecallKeeps, DeleteDraft
  <2>2. DraftConnected(postponed[k]) BY <1>0 DEF RInv
  <2>3. postponed[k].ref \in BOOLEAN /\ home \in BOOLEAN
    <3>1. postponed[k] \in Draft BY <1>0 DEF Typing
    <3>. QED BY <1>0, <3>1 DEF Draft, Typing
  <2>4. /\ msg'.id = postponed[k].id
        /\ msg'.reply = (postponed[k].ref /\ home) /\ msg'.cur = (postponed[k].ref /\ home)
    BY <2>1 DEF Recalled
  <2>5. msg'.reply => msg'.id \in answers' BY <1>1, <2>2, <2>4 DEF DraftConnected
  <2>6. msg'.id \in answers' \ apart' => home /\ postponed[k].ref
    BY <1>1, <2>1, <2>2, <2>4 DEF DraftConnected
  <2>7. msg'.id \in answers' \ apart' => msg'.reply /\ msg'.cur
    BY <2>4, <2>6
  <2>. QED BY <2>5, <2>7 DEF Connected
<1>5. replied' \subseteq answers' /\ answers' \subseteq 1..begun' BY <1>1 DEF RInv
<1>. QED BY <1>3, <1>4, <1>5 DEF RInv

(* The draft of a message that is connected is connected. *)
LEMMA AppendedRInv ==
  ASSUME RInv, CInv', msg \in Msg, Connected(msg), NEW torn \in BOOLEAN, Separated,
         postponed' = Append(postponed, AsDraft(torn)),
         answers' = answers, begun' = begun, replied' = replied,
         pc' = "index" \/ SameReply(msg', msg)
  PROVE  RInv'
<1>0. postponed \in Seq(Draft) /\ apart \subseteq apart'
  BY DEF RInv, CInv, TInv, Typing, Separated
<1>1. PICK d \in Draft : d = AsDraft(torn) /\ d.id = msg.id BY AsDraftType
<1>2. d.ref = (msg.cur /\ msg.reply) BY <1>1 DEF AsDraft
<1>3. msg.cur \in BOOLEAN /\ msg.reply \in BOOLEAN BY DEF Msg
<1>4. DraftConnected(d)'
  <2>1. d.ref => d.id \in answers BY <1>1, <1>2 DEF Connected
  <2>2. d.id \in answers \ apart' => d.ref BY <1>0, <1>1, <1>2, <1>3 DEF Connected, Separated
  <2>. QED BY <2>1, <2>2 DEF DraftConnected
<1>5. postponed' = Append(postponed, d) BY <1>1
<1>6. ASSUME NEW j \in DOMAIN postponed' PROVE DraftConnected(postponed[j])'
  <2>1. CASE j \in DOMAIN postponed
    <3>1. postponed'[j] = postponed[j] BY <1>0, <1>5, <2>1
    <3>2. DraftConnected(postponed[j]) BY <2>1 DEF RInv
    <3>. QED BY <1>0, <3>1, <3>2 DEF DraftConnected
  <2>2. CASE j \notin DOMAIN postponed
    <3>1. postponed'[j] = d BY <1>0, <1>5, <2>2
    <3>. QED BY <1>4, <3>1 DEF DraftConnected
  <2>. QED BY <2>1, <2>2
<1>7. pc' # "index" => Connected(msg)' BY <1>0 DEF Connected, SameReply
<1>8. replied' \subseteq answers' /\ answers' \subseteq 1..begun' BY DEF RInv
<1>. QED BY <1>6, <1>7, <1>8 DEF RInv

(* Postponing a message keeps it connected. *)
LEMMA PostponeRInv ==
  ASSUME RInv, CInv', Postpone \/ \E b \in BOOLEAN : PostponeFails(b)
  PROVE  RInv'
<1>0. Typing /\ Stage /\ pc = "menu" /\ msg \in Msg /\ Connected(msg)
  BY DEF RInv, CInv, TInv, Typing, Postpone, PostponeFails
<1>1. CASE Postpone
  BY <1>0, <1>1, AppendedRInv DEF Postpone, Cleanup
<1>2. CASE \E b \in BOOLEAN : PostponeFails(b)
  <2>0. PICK b \in BOOLEAN : PostponeFails(b) BY <1>2
  <2>1. SameReply(msg', msg) BY <1>0, <2>0, PostponedNotMsg DEF PostponeFails, SameReply
  <2>2. CASE b = TRUE
    BY <1>0, <2>0, <2>1, <2>2, AppendedRInv DEF PostponeFails
  <2>3. CASE b = FALSE
    BY <1>0, <2>0, <2>1, <2>3, KeepsRInv DEF PostponeFails
  <2>. QED BY <2>2, <2>3
<1>. QED BY <1>1, <1>2

(* What MarkReplied() marks is a reply. *)
LEMMA MarkedAnswers ==
  ASSUME RInv, pc = "mta", MarkReplied
  PROVE  /\ replied' \subseteq answers
         /\ msg.id \in answers /\ msg.id \notin apart => msg.id \in replied'
<1>1. Connected(msg) /\ replied \subseteq answers BY DEF RInv
<1>. QED BY <1>1 DEF MarkReplied, Connected

(* What is sent marks replies alone. *)
LEMMA SentRInv ==
  ASSUME RInv, CInv', Sent \/ SentNever
  PROVE  RInv'
<1>1. /\ postponed' = postponed /\ answers' = answers /\ apart' = apart /\ begun' = begun
      /\ pc' = "index" /\ pc = "mta" /\ MarkReplied
  BY DEF Sent, SentNever, Cleanup, history
<1>2. replied' \subseteq answers' BY <1>1, MarkedAnswers
<1>3. \A k \in DOMAIN postponed' : DraftConnected(postponed[k])' BY <1>1 DEF RInv, DraftConnected
<1>. QED BY <1>1, <1>2, <1>3 DEF RInv

(* All other steps mark nothing and keep messages connected. *)
LEMMA OtherRInv ==
  ASSUME RInv, CInv',
         \/ ChangeFolder \/ OpenText \/ OpenTextFails \/ Edit \/ EditAborted \/ Discard
         \/ Attach \/ SendMessage \/ Protect \/ ProtectFails \/ WriteFcc \/ WriteFccFails
         \/ Crash \/ (\E s \in Methods : SetSecurity(s)) \/ (\E b \in BOOLEAN : SendFails(b))
  PROVE  RInv' /\ replied' = replied
<1>0. Typing /\ Stage BY DEF RInv, CInv, TInv
<1>1. /\ postponed' = postponed /\ answers' = answers /\ apart' = apart /\ begun' = begun
      /\ replied' = replied
  BY DEF ChangeFolder, OpenText, OpenTextFails, Edit, EditAborted, Discard, Attach, SendMessage,
         Protect, ProtectFails, WriteFcc, WriteFccFails, Crash, SetSecurity, SendFails, folders, history
<1>2. CASE ChangeFolder \/ OpenTextFails \/ EditAborted \/ Discard \/ Crash
  <2>1. pc' = "index"
    BY <1>2 DEF ChangeFolder, OpenTextFails, EditAborted, Discard, Crash, Cleanup
  <2>. QED BY <1>1, <2>1, KeepsRInv
<1>3. CASE ~(ChangeFolder \/ OpenTextFails \/ EditAborted \/ Discard \/ Crash)
  <2>0. pc # "index" /\ msg \in Msg
    BY <1>0, <1>3 DEF OpenText, Edit, Attach, SendMessage,
         Protect, ProtectFails, WriteFcc, WriteFccFails, SetSecurity, SendFails, Typing
  <2>1. SameReply(msg', msg)
    <3>1. CASE OpenText \/ Edit \/ WriteFcc
      BY <3>1 DEF OpenText, Edit, WriteFcc, SameReply
    <3>2. CASE Attach BY <2>0, <3>2 DEF Attach, SameReply, Msg
    <3>3. CASE SendMessage
      <4>1. msg.layers \in Inline BY <1>0, <3>3 DEF SendMessage, Stage, AsWritten
      <4>2. Wrapped(msg) \in Msg /\ SameReply(Wrapped(msg), msg)
        BY <2>0, <4>1, WrapInline DEF SameReply, Msg
      <4>. QED BY <3>3, <4>2 DEF SendMessage, Encoded, SameReply, Msg
    <3>4. CASE Protect BY <2>0, <3>4 DEF Protect, Prepared, SameReply, Msg
    <3>5. CASE ProtectFails
      <4>1. msg.layers \in Body BY <1>0, <3>5 DEF ProtectFails, Stage
      <4>2. Unwrapped(msg) \in Msg /\ SameReply(Unwrapped(msg), msg)
        BY <2>0, <4>1, UnwrapBody DEF SameReply, Msg
      <4>. QED BY <3>5, <4>2 DEF ProtectFails, Encoded, SameReply, Msg
    <3>6. CASE WriteFccFails \/ \E b \in BOOLEAN : SendFails(b)
      BY <1>0, <3>6, NotSentMsg DEF WriteFccFails, SendFails, SameReply
    <3>7. CASE \E s \in Methods : SetSecurity(s) BY <2>0, <3>7 DEF SetSecurity, SameReply, Msg
    <3>. QED BY <1>3, <3>1, <3>2, <3>3, <3>4, <3>5, <3>6, <3>7
  <2>. QED BY <1>1, <2>0, <2>1, KeepsRInv
<1>. QED BY <1>1, <1>2, <1>3

(* Every step keeps messages connected. *)
LEMMA NextRInv == RInv /\ [Next]_vars => RInv'
<1> SUFFICES ASSUME RInv, [Next]_vars PROVE RInv'
  OBVIOUS
<1>0. CInv' BY NextCInv DEF RInv
<1>1. CASE \E r, c, f \in BOOLEAN : New(r, c, f) BY <1>0, <1>1, NewRInv
<1>2. CASE \E i \in 1..Len(postponed) : Recall(i) \/ RecallKeeps(i) \/ DeleteDraft(i)
  BY <1>0, <1>2, RecallRInv
<1>3. CASE Postpone \/ \E b \in BOOLEAN : PostponeFails(b) BY <1>0, <1>3, PostponeRInv
<1>4. CASE Sent \/ SentNever BY <1>0, <1>4, SentRInv
<1>5. CASE UNCHANGED vars
  <2>1. \A k \in DOMAIN postponed' : DraftConnected(postponed[k])' BY <1>5 DEF vars, RInv, DraftConnected
  <2>2. pc' # "index" => Connected(msg)' BY <1>5 DEF vars, RInv, Connected
  <2>. QED BY <1>0, <1>5, <2>1, <2>2 DEF vars, RInv
<1>. QED BY <1>0, <1>1, <1>2, <1>3, <1>4, <1>5, OtherRInv DEF Next

(* At the beginning nothing is answered. *)
LEMMA InitRInv == Init => RInv
  BY InitCInv DEF Init, RInv

(* The original of a reply is marked when the reply has been sent, and only  *)
(* then, however often the reply was postponed, recalled and failed to be    *)
(* sent in between, as long as the original was at hand.                     *)
THEOREM RepliesAreMarked == Spec => RepliedWhenSent
<1>1. RInv /\ [Next]_vars =>
        [/\ replied' # replied => pc = "mta" /\ pc' = "index" /\ replied' \subseteq answers
         /\ pc = "mta" /\ pc' = "index" /\ msg.id \in answers /\ msg.id \notin apart \cup gone'
              => msg.id \in replied']_vars
  <2> SUFFICES ASSUME RInv, Next
               PROVE  /\ replied' # replied => pc = "mta" /\ pc' = "index" /\ replied' \subseteq answers
                      /\ pc = "mta" /\ pc' = "index" /\ msg.id \in answers
                           /\ msg.id \notin apart \cup gone' => msg.id \in replied'
    OBVIOUS
  <2>1. CASE Sent \/ SentNever
    <3>1. pc = "mta" /\ pc' = "index" /\ MarkReplied BY <2>1 DEF Sent, SentNever, Cleanup
    <3>. QED BY <3>1, MarkedAnswers
  <2>2. CASE ~(Sent \/ SentNever)
    <3>1. replied' = replied
      BY <2>2 DEF Next, ChangeFolder, OpenText, OpenTextFails, Edit, EditAborted, Discard, Attach,
           SendMessage, Protect, ProtectFails, WriteFcc, WriteFccFails, Crash, SetSecurity, SendFails,
           New, Recall, RecallKeeps, DeleteDraft, Postpone, PostponeFails, folders
    <3>2. pc = "mta" /\ pc' = "index" => msg.id \in gone'
      BY <2>2 DEF Next, ChangeFolder, OpenText, OpenTextFails, Edit, EditAborted, Discard, Attach,
           SendMessage, Protect, ProtectFails, WriteFcc, WriteFccFails, Crash, SetSecurity, SendFails,
           New, Recall, RecallKeeps, DeleteDraft, Postpone, PostponeFails, NotSent
    <3>. QED BY <3>1, <3>2
  <2>. QED BY <2>1, <2>2
<1>. QED BY <1>1, InitRInv, NextRInv, PTL DEF Spec, RepliedWhenSent
=============================================================================
