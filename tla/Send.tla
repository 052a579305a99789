-------------------------------- MODULE Send --------------------------------
(***************************************************************************)
(* Composing, postponing and sending (send.c ci_send_message(),            *)
(* postpone.c, sendlib.c mutt_write_fcc() and mutt_invoke_sendmail(),      *)
(* crypt.c mutt_protect()), interactively.  A message goes from the        *)
(* editor to the compose menu; from there it is discarded, postponed, or   *)
(* sent: wrapped into a multipart, signed or encrypted, copied to the Fcc  *)
(* folder and handed to the MTA.  When one of these fails all that has     *)
(* been done to the message is undone and the menu is shown again.  A      *)
(* message that is recalled leaves the postponed folder at once.           *)
(*                                                                         *)
(* Of the contents there is what is done to it: the bodies around the      *)
(* text, what has become of the envelope, whether the descriptions are     *)
(* encoded.                                                                *)
(***************************************************************************)
EXTENDS Integers, Sequences, FiniteSets, SequencesExt

CONSTANTS
  MaxMsg,     \* bound: messages that are begun
  MaxFaults,  \* bound: operations that fail
  MaxLayers,  \* bound: bodies around a text
  Methods     \* what the user chooses from to sign or to encrypt

Ids == 1..MaxMsg

Crypto == {"none", "sign", "encrypt", "inline sign", "inline encrypt", "smime encrypt"}

ASSUME SendAssumption ==
  MaxMsg \in Nat /\ MaxFaults \in Nat /\ MaxLayers \in Nat /\ Methods \subseteq Crypto

VARIABLES
  postponed,  \* the postponed folder
  msg,        \* the message that is being composed
  pc,         \* where ci_send_message() is
  home,       \* the open mailbox is the one that replies are written in
  begun,      \* messages that have been begun
  delivered,  \* how often a message has been delivered
  copies,     \* messages of which the Fcc folder has a whole copy
  replied,    \* messages whose original is marked as answered
  faults,
  (* history *)
  answers,    \* messages that were begun as replies
  doubled,    \* how many more of a message there are than there should be
  apart,      \* replies that have been separated from their original
  gone        \* messages the user has discarded, or that an error has freed

vars == <<postponed, msg, pc, home, begun, delivered, copies, replied, faults,
          answers, doubled, apart, gone>>

(* X-Mutt-References: and X-Mutt-Fcc: of a draft; a torn one is incomplete.  *)
Draft == [id : Ids, ref : BOOLEAN, fcc : BOOLEAN, attached : BOOLEAN, torn : BOOLEAN]

Layer == {"mixed", "signed", "encrypted", "application", "clearsigned", "armored"}

(* The envelope.  "own": what the user has written or the draft says;        *)
(* "coded": encoded for a draft; "final": encoded for sending, and fields    *)
(* are added: To: undisclosed-recipients when there is Bcc: alone, a         *)
(* Message-ID:, a Mail-Followup-To: if the user has not written one.  Undone *)
(* after a failure they are "stripped" and "marked": decoded, without        *)
(* Mail-Followup-To:, also if it was the user's, and "marked" has the other  *)
(* fields still.                                                             *)
Envelope == {"own", "coded", "final", "stripped", "marked"}

NoMsg == [id |-> 0]
(* layers: msg->content, outermost first; clear: clear_content.              *)
Msg == [id : Ids, attached : BOOLEAN, security : Crypto, layers : Seq(Layer), clear : Seq(Layer),
        env : Envelope, encoded : BOOLEAN, fcc : BOOLEAN,
        reply : BOOLEAN,       \* SENDREPLY
        cur : BOOLEAN,         \* cur is set
        recalled : BOOLEAN]    \* SENDPOSTPONED

SendTypeOK ==
  /\ Range(postponed) \subseteq Draft
  /\ msg \in {NoMsg} \cup Msg
  /\ pc \in {"index", "recalled", "edit", "menu", "send", "fcc", "mta"}
  /\ home \in BOOLEAN /\ begun \in 0..MaxMsg
  /\ delivered \in [Ids -> 0..MaxFaults + 1] /\ doubled \in [Ids -> 0..MaxFaults]
  /\ copies \cup replied \cup answers \cup apart \cup gone \subseteq Ids
  /\ faults \in 0..MaxFaults

Init ==
  /\ postponed = <<>> /\ msg = NoMsg /\ pc = "index" /\ home = TRUE
  /\ begun = 0 /\ copies = {} /\ replied = {} /\ faults = 0
  /\ delivered = [i \in Ids |-> 0] /\ doubled = [i \in Ids |-> 0]
  /\ answers = {} /\ apart = {} /\ gone = {}

Fault == faults < MaxFaults /\ faults' = faults + 1
folders == <<postponed, delivered, copies, replied>>
history == <<answers, doubled, apart, gone>>

-----------------------------------------------------------------------------
(* Beginning *)

(* The user opens another mailbox. *)
ChangeFolder ==
  /\ pc = "index"
  /\ home' = ~home
  /\ UNCHANGED <<folders, msg, pc, begun, faults, history>>

(* A new message, or a reply to a message (cur) or to the tagged ones (no    *)
(* cur), with or without an Fcc folder.                                      *)
New(reply, cur, fcc) ==
  /\ pc = "index" /\ begun < MaxMsg
  /\ reply => home
  /\ cur => reply
  /\ begun' = begun + 1
  /\ msg' = [id |-> begun + 1, attached |-> FALSE, security |-> "none",
             layers |-> <<>>, clear |-> <<>>, env |-> "own", encoded |-> FALSE,
             fcc |-> fcc, reply |-> reply, cur |-> cur, recalled |-> FALSE]
  /\ pc' = "edit"
  /\ answers' = IF reply THEN answers \cup {begun + 1} ELSE answers
  /\ UNCHANGED <<folders, home, faults, doubled, apart, gone>>

(* mutt_get_postponed(): the draft is deleted in the folder, which is then   *)
(* closed; the original of a reply is looked up in the open mailbox, and     *)
(* what the draft says of it is dropped.  The envelope is the draft's, less  *)
(* Message-ID: and Mail-Followup-To: (mutt_prepare_template()).              *)
Recalled(d) ==
  [id |-> d.id, attached |-> d.attached, security |-> "none",
   layers |-> <<>>, clear |-> <<>>, env |-> "own", encoded |-> FALSE,
   fcc |-> d.fcc, reply |-> d.ref /\ home, cur |-> d.ref /\ home, recalled |-> TRUE]

Recall(i) ==
  /\ pc = "index" /\ i \in DOMAIN postponed
  /\ postponed' = RemoveAt(postponed, i)
  /\ msg' = Recalled(postponed[i]) /\ pc' = "recalled"
  /\ apart' = IF home THEN apart ELSE apart \cup {postponed[i].id}
  /\ UNCHANGED <<delivered, copies, replied, home, begun, faults, answers, doubled, gone>>

(* The folder cannot be written: the draft is there still, and recalled. *)
RecallKeeps(i) ==
  /\ pc = "index" /\ i \in DOMAIN postponed /\ Fault
  /\ msg' = Recalled(postponed[i]) /\ pc' = "recalled"
  /\ doubled' = [doubled EXCEPT ![postponed[i].id] = @ + 1]
  /\ apart' = IF home THEN apart ELSE apart \cup {postponed[i].id}
  /\ UNCHANGED <<folders, home, begun, answers, gone>>

(* Deleting a draft in the menu of postponed messages *)
DeleteDraft(i) ==
  /\ pc = "index" /\ i \in DOMAIN postponed /\ Len(postponed) > 1
  /\ postponed' = RemoveAt(postponed, i)
  /\ gone' = gone \cup {postponed[i].id}
  /\ UNCHANGED <<delivered, copies, replied, msg, pc, home, begun, faults, answers, doubled, apart>>

Cleanup == msg' = NoMsg /\ pc' = "index"

(* The text of a recalled message is opened again; if that fails the message *)
(* is freed.                                                                 *)
OpenText ==
  /\ pc = "recalled" /\ pc' = "edit"
  /\ UNCHANGED <<folders, msg, home, begun, faults, history>>

OpenTextFails ==
  /\ pc = "recalled" /\ Fault /\ Cleanup
  /\ gone' = gone \cup {msg.id}
  /\ UNCHANGED <<folders, home, begun, answers, doubled, apart>>

Edit ==
  /\ pc = "edit" /\ pc' = "menu"
  /\ UNCHANGED <<folders, msg, home, begun, faults, history>>

(* An unmodified message is aborted, unless it was recalled; or the editor   *)
(* of mailcap fails (mutt_edit_attachment()).                                *)
EditAborted ==
  /\ pc = "edit" /\ Cleanup
  /\ IF msg.recalled THEN Fault ELSE UNCHANGED faults
  /\ gone' = gone \cup {msg.id}
  /\ UNCHANGED <<folders, home, begun, answers, doubled, apart>>

-----------------------------------------------------------------------------
(* Bodies *)
Multipart(layer) == layer \in {"mixed", "signed", "encrypted"}

(* mutt_make_multipart(), when there are attachments beside the text *)
Wrapped(m) ==
  IF m.attached /\ "mixed" \notin Range(m.layers)
  THEN [m EXCEPT !.layers = <<"mixed">> \o @] ELSE m

(* mutt_remove_multipart() *)
Unwrapped(m) ==
  IF m.layers # <<>> /\ Multipart(Head(m.layers)) THEN [m EXCEPT !.layers = Tail(@)] ELSE m

Encoded(m, yes) == [m EXCEPT !.encoded = yes]

(* mutt_prepare_envelope() encodes; for sending (final) it adds fields, and  *)
(* To: and Message-ID: are never taken away again.                           *)
Prepared(m, final) ==
  [m EXCEPT !.env = IF final \/ @ = "marked" THEN "final" ELSE "coded"]

(* mutt_unprepare_envelope() decodes and frees Mail-Followup-To:.            *)
Unprepared(m) == [m EXCEPT !.env = IF @ = "final" THEN "marked" ELSE "stripped"]

Signs(m) == m.security \in {"sign", "inline sign"}
Encrypts(m) == m.security \in {"encrypt", "inline encrypt", "smime encrypt"}

(* mutt_protect(): what is put around the message.  Only a plain text can    *)
(* be signed (clearsigned) or encrypted (armored) inline; for others         *)
(* PGP/MIME is used, or nothing is sent.                                     *)
Around(m) ==
  LET inline == /\ m.security \in {"inline sign", "inline encrypt"}
                /\ ~(m.layers # <<>> /\ Multipart(Head(m.layers)))
  IN  CASE m.security = "none" -> <<>>
        [] m.security = "smime encrypt" -> <<"application">>
        [] inline -> IF Signs(m) THEN <<"clearsigned">> ELSE <<"armored">>
        [] Signs(m) /\ ~inline -> <<"signed">>
        [] m.security \in {"encrypt", "inline encrypt"} /\ ~inline -> <<"encrypted">>

(* Mutant: only what is encrypted is taken away. *)
RestoredEncrypted(m) == IF Encrypts(m) THEN [m EXCEPT !.layers = m.clear] ELSE m

(* After a failure: what is encrypted or opaque gives way to the clear       *)
(* content; the signature of a multipart is taken away.                      *)
Restored(m) ==
  LET application == m.layers # <<>> /\ Head(m.layers) = "application"
      multipart == m.layers # <<>> /\ Multipart(Head(m.layers))
  IN  IF Encrypts(m) \/ (Signs(m) /\ application) THEN [m EXCEPT !.layers = m.clear]
      ELSE IF Signs(m) /\ multipart THEN Unwrapped(m) ELSE m

-----------------------------------------------------------------------------
(* The compose menu *)
(* For a recalled message this stands for X-Mutt-PGP: and X-Mutt-SMIME:, too. *)
SetSecurity(s) ==
  /\ pc = "menu" /\ s # msg.security
  /\ msg' = [msg EXCEPT !.security = s]
  /\ UNCHANGED <<folders, pc, home, begun, faults, history>>

(* A file is attached, or an attachment is taken away. *)
Attach ==
  /\ pc = "menu"
  /\ msg' = [msg EXCEPT !.attached = ~@]
  /\ UNCHANGED <<folders, pc, home, begun, faults, history>>

(* "Postpone this message?" is answered no. *)
Discard ==
  /\ pc = "menu" /\ Cleanup
  /\ gone' = gone \cup {msg.id}
  /\ UNCHANGED <<folders, home, begun, faults, answers, doubled, apart>>

(* Mutant: the draft does not tell which message it answers. *)
AsDraftAlone(torn) ==
  [id |-> msg.id, ref |-> FALSE, fcc |-> msg.fcc, attached |-> msg.attached, torn |-> torn]

(* mutt_write_fcc() with post = 1 *)
AsDraft(torn) ==
  [id |-> msg.id, ref |-> msg.cur /\ msg.reply, fcc |-> msg.fcc,
   attached |-> msg.attached, torn |-> torn]

Separated == apart' = IF msg.reply /\ ~msg.cur THEN apart \cup {msg.id} ELSE apart

Postpone ==
  /\ pc = "menu" /\ Cleanup
  /\ postponed' = Append(postponed, AsDraft(FALSE))
  /\ Separated
  /\ UNCHANGED <<delivered, copies, replied, home, begun, faults, answers, doubled, gone>>

(* Mutant: the message is freed. *)
PostponedNotFreed == Cleanup

(* Writing fails: what has been done is undone and the menu is shown again.  *)
(* (A parameter x-mutt-noconv that set_noconv_flags() has added to texts     *)
(* stays when mutt_write_fcc() returns early; parameters are left out.)      *)
PostponedNot ==
  /\ msg' = Unprepared(Encoded(Unwrapped(Prepared(Encoded(Wrapped(msg), TRUE), FALSE)), FALSE))
  /\ UNCHANGED pc

(* What has been written may have been committed (mx_commit_message()). *)
PostponeFails(torn) ==
  /\ pc = "menu" /\ Fault
  /\ PostponedNot
  /\ IF torn
     THEN /\ postponed' = Append(postponed, AsDraft(TRUE))
          /\ doubled' = [doubled EXCEPT ![msg.id] = @ + 1]
          /\ Separated
     ELSE UNCHANGED <<postponed, doubled, apart>>
  /\ UNCHANGED <<delivered, copies, replied, home, begun, answers, gone>>

(* "send-message".  Missing recipients or subject, a bad address, or a       *)
(* forgotten attachment leave everything as it is.                           *)
SendMessage ==
  /\ pc = "menu" /\ Len(msg.layers) < MaxLayers
  /\ msg' = Encoded(Wrapped(msg), TRUE) /\ pc' = "send"
  /\ UNCHANGED <<folders, home, begun, faults, history>>

Protect ==
  /\ pc = "send" /\ pc' = "fcc"
  /\ msg' = Prepared([msg EXCEPT !.clear = msg.layers, !.layers = Around(msg) \o @], TRUE)
  /\ UNCHANGED <<folders, home, begun, faults, history>>

ProtectFails ==
  /\ pc = "send" /\ msg.security # "none" /\ Fault
  /\ msg' = Encoded(Unwrapped(msg), FALSE) /\ pc' = "menu"
  /\ UNCHANGED <<folders, home, begun, history>>

(* The message is not sent.  clear_content is of no use from here on. *)
NotSent ==
  /\ msg' = [Unprepared(Encoded(Unwrapped(Restored(msg)), FALSE)) EXCEPT !.clear = <<>>]
  /\ pc' = "menu"

(* mutt_write_fcc() with post = 0 *)
WriteFcc ==
  /\ pc = "fcc" /\ pc' = "mta"
  /\ copies' = IF msg.fcc THEN copies \cup {msg.id} ELSE copies
  /\ UNCHANGED <<postponed, delivered, replied, msg, home, begun, faults, history>>

WriteFccFails ==
  /\ pc = "fcc" /\ msg.fcc /\ Fault
  /\ NotSent
  /\ UNCHANGED <<folders, home, begun, history>>

(* The original is marked, or the tagged messages are. *)
MarkReplied ==
  replied' = IF msg.reply /\ (msg.cur \/ ~msg.recalled) THEN replied \cup {msg.id} ELSE replied

(* The MTA has taken the message, or it goes on in the background. *)
Sent ==
  /\ pc = "mta" /\ Cleanup
  /\ delivered' = [delivered EXCEPT ![msg.id] = @ + 1]
  /\ MarkReplied
  /\ UNCHANGED <<postponed, copies, home, begun, faults, history>>

(* In the background it fails, and nobody is told. *)
SentNever ==
  /\ pc = "mta" /\ Fault /\ Cleanup
  /\ MarkReplied
  /\ gone' = gone \cup {msg.id}
  /\ UNCHANGED <<postponed, delivered, copies, home, begun, answers, doubled, apart>>

(* The MTA reports an error, without having sent the message or after that. *)
SendFails(taken) ==
  /\ pc = "mta" /\ Fault
  /\ NotSent
  /\ IF taken
     THEN /\ delivered' = [delivered EXCEPT ![msg.id] = @ + 1]
          /\ doubled' = [doubled EXCEPT ![msg.id] = @ + 1]
     ELSE UNCHANGED <<delivered, doubled>>
  /\ UNCHANGED <<postponed, copies, replied, home, begun, answers, apart, gone>>

(* muttng is killed. *)
Crash ==
  /\ pc # "index" /\ Fault /\ Cleanup
  /\ gone' = gone \cup {msg.id}
  /\ UNCHANGED <<folders, home, begun, answers, doubled, apart>>

Next ==
  \/ ChangeFolder \/ OpenText \/ OpenTextFails \/ Edit \/ EditAborted \/ Discard
  \/ Attach \/ Postpone \/ SendMessage \/ Protect \/ ProtectFails \/ WriteFcc \/ WriteFccFails
  \/ Sent \/ SentNever \/ Crash
  \/ \E r, c, f \in BOOLEAN : New(r, c, f)
  \/ \E i \in 1..Len(postponed) : Recall(i) \/ RecallKeeps(i) \/ DeleteDraft(i)
  \/ \E s \in Methods : SetSecurity(s)
  \/ \E b \in BOOLEAN : PostponeFails(b) \/ SendFails(b)

Spec == Init /\ [][Next]_vars

-----------------------------------------------------------------------------
(* Whatever failed before, the compose menu shows the text as it was         *)
(* written: not wrapped, signed or encrypted, its descriptions as the user   *)
(* knows them; except for inline signatures, which a failure leaves in place *)
(* (their type is text, neither multipart nor application).  The envelope is *)
(* decoded.  It is the user's own until something fails; then Mail-Followup- *)
(* To: may be lost, and after a failed sending To: may say                   *)
(* undisclosed-recipients, and there is a Message-ID:.                       *)
MenuShowsText ==
  pc = "menu" => /\ ~msg.encoded /\ Range(msg.layers) \subseteq {"clearsigned"}
                 /\ msg.env \notin {"coded", "final"}
                 /\ faults = 0 => msg.env = "own"

(* There is one of every message: the draft, the message in the menu, or     *)
(* what has been delivered; none is lost unless the user says so or an error *)
(* after recalling frees it, and none becomes two unless a folder could not  *)
(* be written or the MTA reports an error for what it has sent.              *)
OneOfEach ==
  \A i \in 1..begun :
    LET n == Cardinality({k \in DOMAIN postponed : postponed[k].id = i})
               + (IF msg.id = i THEN 1 ELSE 0) + delivered[i]
    IN  n <= 1 + doubled[i] /\ (n = 0 => i \in gone)

(* The original of a reply is marked as answered when the reply has been     *)
(* sent, also if it was postponed in between, and not before; unless it was  *)
(* recalled, or postponed, without the original at hand.                     *)
RepliedWhenSent ==
  [][/\ replied' # replied => pc = "mta" /\ pc' = "index" /\ replied' \subseteq answers
     /\ pc = "mta" /\ pc' = "index" /\ msg.id \in answers /\ msg.id \notin apart \cup gone'
          => msg.id \in replied']_vars
=============================================================================
