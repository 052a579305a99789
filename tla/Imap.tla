-------------------------------- MODULE Imap --------------------------------
(***************************************************************************)
(* A mailbox on an IMAP server that muttng has selected (imap/command.c,   *)
(* imap/message.c, imap/imap.c), while other clients deliver, flag and     *)
(* expunge messages.  The server tells muttng of their changes in untagged *)
(* responses to any command, by sequence numbers; muttng renumbers its     *)
(* headers at once, and reads new and drops expunged ones when a command   *)
(* has ended and nobody holds on to headers (IMAP_REOPEN_ALLOW).           *)
(*                                                                         *)
(* A step is one response of the server with all that muttng does about    *)
(* it.  Commands nest: the end of one may start a FETCH of new headers.    *)
(* ACLs, the header cache, and custom keywords are left out.               *)
(***************************************************************************)
EXTENDS Integers, Sequences, FiniteSets, Functions

CONSTANTS
  MaxUid,        \* bound: messages that are ever in the mailbox
  MaxEvents,     \* bound: what other clients and the user do
  OtherFlags     \* the flags other clients set

Uids == 1..MaxUid
Flags == {"deleted", "flagged"}

ASSUME ImapAssumption ==
  MaxUid \in Nat /\ MaxEvents \in Nat /\ OtherFlags \subseteq SUBSET Flags

VARIABLES
  (* the server *)
  mail,      \* UIDs of the messages in the mailbox
  flags,     \* their flags
  uidnext,
  told,      \* the UIDs of the messages muttng has been told of
  toldFlags, \* the flags it has been told
  (* muttng *)
  view,      \* ctx->hdrs
  ctx,       \* ctx->changed (one bit), ctx->deleted, ctx->vcount
  reopen,    \* idata->reopen
  newCount,  \* idata->newMailCount
  status,    \* idata->check_status
  stack,     \* commands in progress, the innermost last
  job,       \* what they are done for
  (* bounds and history *)
  events,
  gap,       \* known gaps between what muttng and the server have
  off,       \* messages whose flags may be wrong: the server told of flags
             \* while they were inactive, or it refused a command
  swept,     \* messages in sets that were made with an EXPUNGE pending or
             \* headers left inactive
  wanted,    \* messages the user has deleted and not undeleted
  marked     \* messages other clients have marked as deleted

server == <<mail, flags, uidnext>>
session == <<told, toldFlags>>
client == <<view, ctx, reopen, newCount, status>>
history == <<gap, off, swept, wanted, marked>>
vars == <<server, session, client, stack, job, events, history>>

Bits == {"allow", "expected", "expunge", "newmail"}
Gaps == {"mail", "count", "hole", "skip"}

(* h->index + 1 is idx, so 0 is a header whose message has been expunged. *)
Header == [uid : Uids, idx : 0..MaxUid, active : BOOLEAN, flags : SUBSET Flags,
           changed : BOOLEAN]

(* A command, and the UIDs it names.  ok is what imap_cmd_step() takes the   *)
(* answer for.  The last four fields are msgno, fetchlast, msgend and        *)
(* oldmsgcount of imap_read_headers().                                       *)
Ops == {"NOOP", "STORE deleted", "STORE", "EXPUNGE", "CLOSE", "UID FETCH", "FETCH"}
Frame == [op : Ops, uids : SUBSET Uids, stage : {"sent", "running", "done"},
          ok : BOOLEAN, next : Nat, last : Nat, end : Nat, old : Nat]
Command(op, S) ==
  [op |-> op, uids |-> S, stage |-> IF op \in {"EXPUNGE", "CLOSE"} THEN "sent" ELSE "running",
   ok |-> FALSE, next |-> 0, last |-> 0, end |-> 0, old |-> 0]

(* pos is the header a sync or a fetch has come to. *)
Jobs == [op : {"open", "idle", "check", "sync", "close", "fetch", "closed"},
         phase : {"-", "noop", "checked", "result", "delete", "flags", "expunge"},
         purge : BOOLEAN, pos : Nat, go : BOOLEAN]
Job(op, phase) == [op |-> op, phase |-> phase, purge |-> FALSE, pos |-> 0, go |-> FALSE]

ImapTypeOK ==
  /\ mail \subseteq Uids /\ flags \in [Uids -> SUBSET Flags] /\ uidnext \in 1..(MaxUid + 1)
  /\ told \subseteq Uids /\ toldFlags \in [Uids -> SUBSET Flags]
  /\ view \in Seq(Header) /\ Len(view) <= MaxUid
  /\ ctx \in [changed : 0..1, deleted : Int, vcount : Nat]
  /\ reopen \subseteq Bits /\ newCount \in 0..MaxUid
  /\ status \subseteq {"expunge", "newmail", "flags"}
  /\ stack \in Seq(Frame) /\ job \in Jobs
  /\ events \in 0..MaxEvents /\ gap \subseteq Gaps
  /\ off \subseteq Uids /\ swept \subseteq Uids /\ wanted \subseteq Uids /\ marked \subseteq Uids

Top == stack[Len(stack)]
Running(op) == stack # <<>> /\ Top.op = op /\ Top.stage = "running"
Replace(f) == [stack EXCEPT ![Len(stack)] = f]

(* The end of a nested FETCH.  imap_cmd_step() looks for the OK of the outer *)
(* command in the last line that was read, which is now one for the FETCH:   *)
(* its own OK, or the line for which it gave up.                             *)
Nested(ok) ==
  [i \in 1..(Len(stack) - 1) |->
     IF i = Len(stack) - 1 THEN [stack[i] EXCEPT !.ok = ok] ELSE stack[i]]

(* imap_read_headers() fails; what it has read is not counted. *)
GiveUp ==
  /\ stack' = Nested(FALSE) /\ gap' = gap \cup {"mail", "count"}
  /\ job' = IF job.op = "open" THEN Job("closed", "-") ELSE job


(* The place of x among the members of S, and the member with a given place. *)
Rank(S, x) == Cardinality({y \in S : y <= x})
Nth(S, k) == CHOOSE x \in S : Rank(S, x) = k

(* The sequence number of a message: UIDs ascend with sequence numbers.      *)
Seqno(u) == Rank(told, u)

Closing == job.op = "close"

NewHeader(u, i) ==
  [uid |-> u, idx |-> i, active |-> TRUE, flags |-> flags[u], changed |-> FALSE]
IsDeleted(h) == "deleted" \in h.flags
NumDeleted(v) == Cardinality({i \in DOMAIN v : IsDeleted(v[i])})
NumChanged(v) == Cardinality({i \in DOMAIN v : v[i].changed})

(* imap_read_headers(), from its beginning to the first FETCH *)
ReadHeaders(from, to) ==
  [Command("FETCH", {}) EXCEPT !.next = from, !.last = to, !.end = to, !.old = from - 1]

(* imap_open_mailbox(), after SELECT: the headers of all messages are read. *)
Opening == IF mail = {} THEN <<>> ELSE <<ReadHeaders(1, Cardinality(mail))>>
OpenJob == Job(IF mail = {} THEN "idle" ELSE "open", "-")

Reopen ==
  /\ told' = mail /\ toldFlags' = flags
  /\ view' = <<>> /\ ctx' = [changed |-> 0, deleted |-> 0, vcount |-> 0]
  /\ reopen' = {} /\ newCount' = 0 /\ status' = {}
  /\ stack' = Opening /\ job' = OpenJob
  /\ gap' = {} /\ off' = {} /\ swept' = {} /\ wanted' = {u \in mail : "deleted" \in flags[u]}
  /\ UNCHANGED marked

Init ==
  /\ \E n \in 0..MaxUid : mail = 1..n /\ uidnext = n + 1
  /\ flags \in [Uids -> {{}}]
  /\ told = mail /\ toldFlags = flags
  /\ view = <<>> /\ ctx = [changed |-> 0, deleted |-> 0, vcount |-> 0]
  /\ reopen = {} /\ newCount = 0 /\ status = {}
  /\ stack = Opening /\ job = OpenJob
  /\ events = 0 /\ gap = {} /\ off = {} /\ swept = {} /\ wanted = {} /\ marked = {}

-----------------------------------------------------------------------------
(* Other clients *)
Event == events < MaxEvents /\ events' = events + 1

Deliver ==
  /\ uidnext <= MaxUid /\ Event
  /\ mail' = mail \cup {uidnext} /\ uidnext' = uidnext + 1
  /\ UNCHANGED <<flags, session, client, stack, job, history>>

OtherExpunge(u) ==
  /\ u \in mail /\ Event
  /\ mail' = mail \ {u}
  /\ UNCHANGED <<flags, uidnext, session, client, stack, job, history>>

OtherStore(u, f) ==
  /\ u \in mail /\ f # flags[u] /\ Event
  /\ flags' = [flags EXCEPT ![u] = f]
  /\ marked' = IF "deleted" \in f THEN marked \cup {u} ELSE marked \ {u}
  /\ UNCHANGED <<mail, uidnext, session, client, stack, job, gap, off, swept, wanted>>

-----------------------------------------------------------------------------
(* Untagged responses: cmd_handle_untagged() *)

(* EXISTS.  A count that is too small without an EXPUNGE to explain it is    *)
(* fatal, and the mailbox is closed.                                         *)
Exists ==
  LET new == {u \in mail : \A v \in told : v < u}
      n == Cardinality(told \cup new)
  IN  /\ stack # <<>> /\ Top.stage = "running"
      /\ new # {}
      /\ told' = told \cup new
      /\ toldFlags' = [u \in Uids |-> IF u \in new THEN flags[u] ELSE toldFlags[u]]
      /\ IF "expunge" \notin reopen /\ n < Len(view)
         THEN /\ job' = Job("closed", "-") /\ stack' = <<>>
              /\ UNCHANGED <<reopen, newCount>>
         ELSE /\ newCount' = IF n = Len(view) THEN newCount ELSE n
              /\ reopen' = IF n = Len(view) \/ "expunge" \in reopen THEN reopen
                           ELSE reopen \cup {"newmail"}
              /\ UNCHANGED <<job, stack>>
      /\ UNCHANGED <<server, view, ctx, status, events, history>>

(* Mutant: the headers behind the expunged one keep their numbers. *)
RenumberedNot(v, k) ==
  [i \in DOMAIN v |-> IF v[i].idx = k THEN [v[i] EXCEPT !.idx = 0] ELSE v[i]]

(* cmd_parse_expunge() *)
Renumbered(v, k) ==
  [i \in DOMAIN v |-> IF v[i].idx = k THEN [v[i] EXCEPT !.idx = 0]
                      ELSE IF v[i].idx > k THEN [v[i] EXCEPT !.idx = @ - 1] ELSE v[i]]

(* The server does not send EXPUNGE in answer to FETCH, as numbers are used. *)
Expunge(u) ==
  /\ stack # <<>> /\ Top.stage = "running" /\ Top.op # "FETCH"
  /\ u \in told \ mail
  /\ told' = told \ {u}
  /\ view' = Renumbered(view, Seqno(u))
  /\ reopen' = reopen \cup {"expunge"}
  /\ UNCHANGED <<server, toldFlags, ctx, newCount, status, stack, job, events, history>>

(* imap_set_flags() for header i *)
SetFlags(v, i, f) == [v EXCEPT ![i].flags = f, ![i].changed = FALSE]

(* Mutant: the header is looked up by its place among the headers. *)
FoundAt(k) == DOMAIN view \cap {k}

(* What a FETCH response with flags f for message k does to the headers.     *)
(* cmd_parse_fetch() looks for an active header; one that the user has       *)
(* changed keeps its flags.  imap_fetch_message() takes the flags for those  *)
(* of the message it fetches, without looking at the number.                 *)
Found(k) ==
  {i \in DOMAIN view : /\ k <= Len(view) /\ view[i].active /\ view[i].idx = k
                       /\ \A j \in 1..(i - 1) : ~(view[j].active /\ view[j].idx = k)}
ParseFetch(k, f) ==
  LET v1 == [i \in DOMAIN view |-> IF i \in Found(k) /\ ~view[i].changed
                                   THEN SetFlags(view, i, f)[i] ELSE view[i]]
      p == job.pos
  IN  IF Top.op = "UID FETCH" /\ ~view[p].changed THEN SetFlags(v1, p, f) ELSE v1

Inactive == {view[i].uid : i \in {j \in DOMAIN view : ~view[j].active}}

FetchFlags(u) ==
  LET k == Seqno(u)
      v == ParseFetch(k, flags[u])
  IN  /\ stack # <<>> /\ Top.stage = "running"
      /\ u \in told \cap mail /\ flags[u] # toldFlags[u]
      /\ toldFlags' = [toldFlags EXCEPT ![u] = flags[u]]
      /\ view' = v
      /\ ctx' = [ctx EXCEPT !.changed = IF v # view THEN 1 ELSE @,
                            !.deleted = @ + NumDeleted(v) - NumDeleted(view)]
      /\ IF \E i \in Found(k) : view[i].changed
         THEN reopen' = reopen \cup {"expunge"} /\ UNCHANGED status
         ELSE status' = (IF Found(k) = {} THEN status ELSE {"flags"}) /\ UNCHANGED reopen
      /\ off' = off \cup Inactive
      /\ IF Top.op = "FETCH"             \* msg_fetch_header() gives up
         THEN GiveUp
         ELSE UNCHANGED <<stack, gap, job>>
      /\ UNCHANGED <<server, told, newCount, events, swept, wanted, marked>>

-----------------------------------------------------------------------------
(* The end of a command: imap_cmd_finish() *)

(* Mutant: deleted headers are not counted anew. *)
UpdatedPartly(v) ==
  [ctx EXCEPT !.changed = NumChanged(v) % 2, !.vcount = Len(v)]

(* imap_expunge_mailbox() and mx_update_tables(): only headers that are      *)
(* active and not expunged stay.                                             *)
Stays(h) == h.active /\ h.idx # 0
Expunged(v) ==
  LET S == {i \in DOMAIN v : Stays(v[i])}
  IN  [k \in 1..Cardinality(S) |-> v[Nth(S, k)]]
Updated(v) ==
  [changed |-> NumChanged(v) % 2, deleted |-> NumDeleted(v), vcount |-> Len(v)]

(* New mail is read now. *)
ReadsNew == "expunge" \notin reopen /\ "newmail" \in reopen /\ newCount > Len(view)

Finish(stk) ==
  IF Closing \/ "allow" \notin reopen
  THEN stack' = stk /\ UNCHANGED <<client, gap>>
  ELSE IF ReadsNew
  THEN /\ stack' = Append(stk, ReadHeaders(Len(view) + 1, newCount))
       /\ reopen' = reopen \ {"newmail"} /\ newCount' = 0
       /\ status' = {"newmail"}
       /\ UNCHANGED <<view, ctx, gap>>
  ELSE IF "expunge" \in reopen
  THEN /\ stack' = stk
       /\ view' = Expunged(view) /\ ctx' = Updated(view')
       /\ status' = IF "expected" \in reopen THEN status ELSE {"expunge"}
       /\ reopen' = reopen \ {"expunge", "newmail", "expected"}
       /\ gap' = (gap \ {"count"})
                   \cup (IF Cardinality(told) > Len(view') THEN {"mail"} ELSE {})
                   \cup (IF \E i \in DOMAIN view : ~view[i].active /\ view[i].idx # 0
                         THEN {"hole"} ELSE {})
                   \cup (IF job.phase = "flags" THEN {"skip"} ELSE {})
       /\ UNCHANGED newCount
  ELSE stack' = stk /\ UNCHANGED <<client, gap>>

(* The server answers a command with OK or NO.  STORE commands are silent:   *)
(* the server takes muttng to know what they do.                             *)
Effect(f, u) ==
  CASE Top.op = "STORE deleted" -> f[u] \cup {"deleted"}
    [] Top.op = "STORE" -> view[job.pos].flags
    [] OTHER -> f[u]
Stored(f) == [u \in Uids |-> IF u \in Top.uids THEN Effect(f, u) ELSE f[u]]

Tagged(ok) ==
  /\ stack # <<>>
  /\ Top.stage = "running" \/ (Top.stage = "sent" /\ ~ok)
  /\ Top.op = "FETCH" => ok /\ Top.next > Top.last
  /\ Top.op = "EXPUNGE" /\ ok => told \subseteq mail
  /\ Top.op \in {"EXPUNGE", "CLOSE"} => ok = (Top.stage = "running")
  /\ IF ok THEN /\ flags' = Stored(flags) /\ toldFlags' = Stored(toldFlags)
                /\ marked' = {u \in marked : "deleted" \in flags'[u]}
     ELSE UNCHANGED <<flags, toldFlags, marked>>
  /\ Finish(Replace([Top EXCEPT !.stage = "done", !.ok = ok]))
  /\ off' = IF ok THEN off ELSE off \cup Top.uids \cup Inactive
  /\ UNCHANGED <<mail, uidnext, told, job, events, swept, wanted>>

(* The server carries out EXPUNGE or CLOSE. *)
Execute ==
  /\ stack # <<>> /\ Top.stage = "sent"
  /\ mail' = {u \in mail : "deleted" \notin flags[u]}
  /\ stack' = Replace([Top EXCEPT !.stage = "running"])
  /\ UNCHANGED <<flags, uidnext, session, client, job, events, history>>

(* The connection is lost and imap_reconnect() asks whether to reopen the    *)
(* mailbox; what the user has changed is then gone, and the command that was *)
(* interrupted ends without error.                                           *)
Lose(yes) ==
  /\ stack # <<>> /\ Top.stage # "done" /\ Top.op # "FETCH"
  /\ IF yes THEN Reopen
     ELSE /\ job' = Job("closed", "-") /\ stack' = <<>>
          /\ UNCHANGED <<session, client, history>>
  /\ UNCHANGED <<server, events>>

-----------------------------------------------------------------------------
(* imap_read_headers() *)

(* The server sends the headers of the next message.  More messages that     *)
(* have been announced meanwhile are read afterwards.                        *)
FetchHeader ==
  LET f == Top
      more == "newmail" \in reopen /\ f.next < f.last
  IN  /\ Running("FETCH") /\ f.next <= f.last
      /\ \E u \in told :
           /\ Seqno(u) = f.next
           /\ view' = Append(view, NewHeader(u, f.next))
           /\ toldFlags' = [toldFlags EXCEPT ![u] = flags[u]]
      /\ stack' = Replace([f EXCEPT !.next = @ + 1, !.end = IF more THEN newCount ELSE @])
      /\ reopen' = IF more THEN reopen \ {"newmail"} ELSE reopen
      /\ newCount' = IF more THEN 0 ELSE newCount
      /\ UNCHANGED <<server, told, ctx, status, job, events, history>>

(* Mutant: the messages that were announced meanwhile are not read. *)
ReadEndForgets(f) == f.end

(* The last message to be read when a FETCH has been answered. *)
ReadEnd(f) == IF "newmail" \in reopen THEN newCount ELSE f.end

(* msgno is the first message that is still to be read: those that nested    *)
(* commands have read since are skipped.                                     *)
MsgNo(f) == IF f.next > Len(view) THEN f.next ELSE Len(view) + 1

(* Either more is to be read, or mx_update_context() counts what is new,     *)
(* what nested commands have read and counted included.                      *)
ReadOn ==
  LET f == Top
      new == SubSeq(view, f.old + 1, Len(view))
      nested == \E i \in 1..(Len(stack) - 1) : stack[i].op = "FETCH"
  IN  /\ IF MsgNo(f) <= ReadEnd(f)
         THEN /\ stack' = Replace([f EXCEPT !.stage = "running", !.next = MsgNo(f),
                                            !.last = ReadEnd(f), !.end = ReadEnd(f)])
              /\ UNCHANGED <<ctx, gap, job>>
         ELSE /\ stack' = Nested(TRUE)
              /\ job' = IF job.op = "open" THEN Job("idle", "-") ELSE job
              /\ ctx' = [ctx EXCEPT !.deleted = @ + NumDeleted(new),
                                    !.vcount = @ + Len(new)]
              /\ gap' = (IF Len(view) = Cardinality(told) THEN gap \ {"mail"} ELSE gap)
                          \cup (IF nested THEN {"count"} ELSE {})
      /\ reopen' = reopen \ {"newmail"}
      /\ newCount' = IF "newmail" \in reopen THEN 0 ELSE newCount

ReadNext ==
  /\ stack # <<>> /\ Top.op = "FETCH" /\ Top.stage = "done"
  /\ IF Top.ok THEN ReadOn ELSE GiveUp /\ UNCHANGED <<ctx, reopen, newCount>>
  /\ UNCHANGED <<server, session, view, status, events, off, swept, wanted, marked>>

-----------------------------------------------------------------------------
(* Mutant: a range takes in the header that ends it. *)
RangeEndNext(hdrs, k) == hdrs[k].uid

(* imap_make_msg_set(): the ranges of UIDs that stand for the headers of     *)
(* hdrs that are deleted and changed.                                        *)
RangeEnd(hdrs, k) == hdrs[k - 1].uid
MsgSet(hdrs) ==
  LET n == Len(hdrs)
      Matches(i) == hdrs[i].active /\ IsDeleted(hdrs[i]) /\ hdrs[i].changed
      Ends(i) == hdrs[i].active /\ ~Matches(i)
      IsStart(i) == Matches(i) /\ \A j \in 1..(i - 1) :
                      Matches(j) => \E k \in (j + 1)..(i - 1) : Ends(k)
      IsLast(i) == \A k \in (i + 1)..n : ~Ends(k)
  IN  {u \in Uids : \E i \in 1..n :
         /\ IsStart(i)
         /\ \/ u = hdrs[i].uid
            \/ \E k \in (i + 1)..n : /\ Ends(k) /\ \A j \in (i + 1)..(k - 1) : ~Ends(j)
                                    /\ u \in hdrs[i].uid..RangeEnd(hdrs, k)
            \/ /\ IsLast(i) /\ Matches(n)
               /\ u \in hdrs[i].uid..hdrs[n].uid \cup hdrs[n].uid..hdrs[i].uid}

(* It goes by number unless $sort is "mailbox-order": headers whose messages *)
(* have been expunged come first, in whatever order qsort() puts them.       *)
Sorted(p) == \A i, j \in DOMAIN view : i < j => view[p[i]].idx <= view[p[j]].idx
Orders == {view} \cup
  {[i \in DOMAIN view |-> view[p[i]]] : p \in {q \in Bijection(DOMAIN view, DOMAIN view) : Sorted(q)}}

-----------------------------------------------------------------------------
(* What commands are sent for *)
Idle == job' = Job("idle", "-") /\ reopen' = reopen \ {"allow"}

(* The user *)
Toggle(i, flag) ==
  LET h == view[i]
      f == IF flag \in h.flags THEN h.flags \ {flag} ELSE h.flags \cup {flag}
  IN  /\ job.op = "idle" /\ i \in DOMAIN view /\ Event
      /\ view' = [view EXCEPT ![i].flags = f, ![i].changed = TRUE]
      /\ ctx' = [ctx EXCEPT !.changed = 1,
                            !.deleted = @ + NumDeleted(view') - NumDeleted(view)]
      /\ wanted' = IF "deleted" \in f THEN wanted \cup {h.uid} ELSE wanted \ {h.uid}
      /\ UNCHANGED <<server, session, reopen, newCount, status, stack, job, gap, off, swept, marked>>

(* imap_fetch_message(): the header is inactive until the command has ended. *)
FetchMessage(i) ==
  /\ job.op = "idle" /\ i \in DOMAIN view /\ Event
  /\ job' = [Job("fetch", "-") EXCEPT !.pos = i]
  /\ view' = [view EXCEPT ![i].active = FALSE]
  /\ stack' = <<Command("UID FETCH", {})>>
  /\ UNCHANGED <<server, session, ctx, reopen, newCount, status, history>>

(* imap_check_mailbox(), from the index or at the start of a sync: NOOP is   *)
(* sent if the server has been quiet for long enough.                        *)
BeginCheck(j) ==
  /\ reopen' = reopen \cup {"allow"}
  /\ \/ job' = [j EXCEPT !.phase = "noop"] /\ stack' = <<Command("NOOP", {})>>
     \/ job' = [j EXCEPT !.phase = "checked"] /\ UNCHANGED stack
  /\ UNCHANGED <<server, session, view, ctx, newCount, status, events, history>>

Check == job.op = "idle" /\ BeginCheck(Job("check", "-"))

(* mx_sync_mailbox(): purge is the answer to "Purge deleted messages?", the  *)
(* answer no leaves deletions to a later sync.                               *)
StartSync(purge) ==
  /\ job.op = "idle"
  /\ ctx.changed # 0 \/ (ctx.deleted # 0 /\ purge)
  /\ ~purge => ctx.deleted # 0
  /\ BeginCheck([Job("sync", "-") EXCEPT !.purge = purge])

(* mx_close_mailbox() *)
StartClose(purge) ==
  /\ job.op = "idle"
  /\ ctx.changed # 0 \/ ctx.deleted # 0
  /\ ~purge => ctx.deleted # 0
  /\ BeginCheck([Job("close", "-") EXCEPT !.purge = purge])

CloseUnchanged ==
  /\ job.op = "idle" /\ ctx.changed = 0 /\ ctx.deleted = 0
  /\ job' = Job("close", "-")
  /\ stack' = <<Command("CLOSE", {})>>
  /\ UNCHANGED <<server, session, client, events, history>>

CheckFinish ==
  /\ stack = <<>> /\ job.phase = "checked"
  /\ Finish(<<>>)
  /\ job' = [job EXCEPT !.phase = "result"]
  /\ UNCHANGED <<server, session, events, off, swept, wanted, marked>>

(* A sync goes on only if the check has found nothing. *)
CheckResult ==
  /\ stack = <<>> /\ job.phase = "result"
  /\ status' = {}
  /\ IF job.op = "check" \/ status # {} THEN Idle
     ELSE job' = [job EXCEPT !.phase = "delete"] /\ UNCHANGED reopen
  /\ UNCHANGED <<server, session, view, ctx, newCount, stack, events, history>>

(* imap_sync_mailbox(): deleted messages are marked with one command. *)
SyncDelete ==
  LET D == {i \in DOMAIN view : IsDeleted(view[i]) /\ view[i].changed}
  IN  /\ stack = <<>> /\ job.phase = "delete"
      /\ IF job.purge /\ \E i \in D : view[i].active
         THEN /\ view' = [i \in DOMAIN view |-> IF i \in D THEN [view[i] EXCEPT !.active = FALSE]
                                                ELSE view[i]]
              /\ \E hdrs \in Orders :
                   /\ stack' = <<Command("STORE deleted", MsgSet(hdrs))>>
                   /\ swept' = IF "expunge" \in reopen \/ Inactive # {}
                               THEN swept \cup MsgSet(hdrs) ELSE swept
              /\ UNCHANGED job
         ELSE /\ job' = [job EXCEPT !.phase = "flags", !.pos = 1]
              /\ UNCHANGED <<view, stack, swept>>
      /\ UNCHANGED <<server, session, ctx, reopen, newCount, status, events, gap, off,
                     wanted, marked>>

(* Mutant: the search starts one header too late. *)
NextChangedLate == {i \in (job.pos + 1)..Len(view) : /\ view[i].active /\ view[i].changed
                 /\ \A k \in (job.pos + 1)..(i - 1) : ~(view[k].active /\ view[k].changed)}

(* The next header that imap_sync_message() is called for, if any. *)
NextChanged == {i \in job.pos..Len(view) : /\ view[i].active /\ view[i].changed
                 /\ \A k \in job.pos..(i - 1) : ~(view[k].active /\ view[k].changed)}

SyncMessage(i) ==
  /\ stack = <<>> /\ job.phase = "flags" /\ i \in NextChanged
  /\ view' = [view EXCEPT ![i].changed = FALSE, ![i].active = FALSE]
  /\ job' = [job EXCEPT !.pos = i]
  /\ stack' = <<Command("STORE", {view[i].uid})>>
  /\ UNCHANGED <<server, session, ctx, reopen, newCount, status, events, history>>

(* All are saved; EXPUNGE or CLOSE follows. *)
SyncExpunge ==
  /\ stack = <<>> /\ job.phase = "flags" /\ NextChanged = {}
  /\ ctx' = [ctx EXCEPT !.changed = 0]
  /\ IF job.op = "sync"
     THEN IF job.purge
          THEN /\ stack' = <<Command("EXPUNGE", {})>> /\ reopen' = reopen \cup {"expected"}
               /\ job' = [job EXCEPT !.phase = "expunge"]
          ELSE Idle /\ UNCHANGED stack
     ELSE /\ IF job.purge \/ ctx.deleted = 0
             THEN stack' = <<Command("CLOSE", {})>> /\ job' = [job EXCEPT !.phase = "expunge"]
             ELSE job' = Job("closed", "-") /\ UNCHANGED stack
          /\ UNCHANGED reopen
  /\ UNCHANGED <<server, session, view, newCount, status, events, history>>

(* A command has been answered and its caller goes on; answer is what the    *)
(* user says when asked whether to go on after an error.                     *)
Return(answer) ==
  LET f == stack[1]
      go == f.ok \/ job.go \/ answer
  IN  /\ Len(stack) = 1 /\ f.stage = "done" /\ f.op # "FETCH"
      /\ stack' = <<>>
      /\ \/ /\ f.op = "NOOP"
            /\ IF f.ok THEN job' = [job EXCEPT !.phase = "checked"] /\ UNCHANGED reopen ELSE Idle
            /\ UNCHANGED <<view, ctx>>
         \/ /\ f.op = "UID FETCH"
            /\ view' = [view EXCEPT ![job.pos].active = TRUE]
            /\ Idle /\ UNCHANGED ctx
         \/ /\ f.op = "STORE deleted"
            /\ IF f.ok THEN job' = [job EXCEPT !.phase = "flags", !.pos = 1] /\ UNCHANGED reopen
               ELSE Idle
            /\ UNCHANGED <<view, ctx>>
         \/ /\ f.op = "STORE"
            /\ IF go THEN /\ view' = IF job.pos \in DOMAIN view /\ view[job.pos].uid \in f.uids
                                    THEN [view EXCEPT ![job.pos].active = TRUE] ELSE view
                          /\ ctx' = [ctx EXCEPT !.changed = (@ + 1) % 2]
                          /\ job' = [job EXCEPT !.pos = @ + 1, !.go = @ \/ (~f.ok /\ answer)]
                          /\ UNCHANGED reopen
               ELSE Idle /\ UNCHANGED <<view, ctx>>
         \/ f.op = "EXPUNGE" /\ (f.ok \/ ~answer) /\ Idle /\ UNCHANGED <<view, ctx>>
         \/ f.op = "CLOSE" /\ job' = Job("closed", "-") /\ UNCHANGED <<view, ctx, reopen>>
      /\ UNCHANGED <<server, session, newCount, status, events, history>>

(* EXPUNGE was refused, and the user has the mailbox reopened. *)
ExpungeRefused ==
  /\ Len(stack) = 1 /\ Top.op = "EXPUNGE" /\ Top.stage = "done" /\ ~Top.ok
  /\ Reopen
  /\ UNCHANGED <<server, events>>

-----------------------------------------------------------------------------
Closed == job.op = "closed" /\ UNCHANGED vars

Next ==
  \/ Deliver
  \/ \E u \in Uids : OtherExpunge(u) \/ \E f \in OtherFlags : OtherStore(u, f)
  \/ Exists \/ \E u \in Uids : Expunge(u) \/ FetchFlags(u)
  \/ \E b \in BOOLEAN : Tagged(b) \/ Lose(b) \/ Return(b)
  \/ ExpungeRefused \/ Execute \/ FetchHeader \/ ReadNext
  \/ \E i \in DOMAIN view, f \in Flags : Toggle(i, f)
  \/ \E i \in DOMAIN view : FetchMessage(i)
  \/ Check \/ \E b \in BOOLEAN : StartSync(b) \/ StartClose(b)
  \/ CloseUnchanged \/ CheckFinish \/ CheckResult
  \/ SyncDelete \/ (\E i \in DOMAIN view : SyncMessage(i)) \/ SyncExpunge
  \/ Closed

Spec == Init /\ [][Next]_vars

-----------------------------------------------------------------------------
(* Whatever the order of EXISTS, EXPUNGE and FETCH responses, a header has   *)
(* the number the server knows its message by; and unless a header has been  *)
(* dropped whose STORE was not answered with OK, the headers are those of    *)
(* the first messages on the server, each one once.                          *)
NumbersAgree ==
  job.op # "closed" =>
    LET live == {i \in DOMAIN view : view[i].idx # 0}
    IN  /\ \A i \in live : view[i].uid \in told /\ view[i].idx = Seqno(view[i].uid)
        /\ "hole" \notin gap => {view[i].idx : i \in live} = 1..Cardinality(live)

(* New mail the server has announced has headers, or will be read by the     *)
(* next check.  Exceptions: an EXPUNGE is pending, or has been when a command *)
(* ended, since imap_cmd_finish() then clears both bits and reads nothing;   *)
(* or imap_read_headers() has failed, upon a FETCH of flags or at the end    *)
(* of a nested one (gap "mail", until all headers have been read).           *)
NoMailForgotten ==
  job.op = "idle" /\ "mail" \notin gap /\ "expunge" \notin reopen /\ Cardinality(told) > Len(view)
    => "newmail" \in reopen

(* The counters agree with the headers when nothing is going on, unless mail *)
(* was announced at the end of a FETCH of headers or that FETCH failed.      *)
CountsRight ==
  job.op = "idle" /\ "count" \notin gap =>
    ctx.vcount = Len(view) /\ ctx.deleted = NumDeleted(view)

(* A header that is not marked as changed shows the flags the server has     *)
(* told.  Exceptions: the server told of flags, or refused a command, while  *)
(* the header was inactive, or the command named the message (off); a STORE  *)
(* of deletions named it whose set was made with an EXPUNGE pending or       *)
(* headers left inactive (swept); headers of messages on the server have     *)
(* been dropped (gap "hole").                                                *)
FlagsAgree ==
  job.op = "idle" /\ "hole" \notin gap =>
    \A i \in DOMAIN view :
      view[i].active /\ ~view[i].changed /\ view[i].idx # 0 /\ view[i].uid \notin off \cup swept
      => view[i].flags = toldFlags[view[i].uid]

(* When a sync has been through the headers (ctx->changed is 0 from here on, *)
(* and EXPUNGE or CLOSE follows) none that is active is marked as changed,   *)
(* and the server knows the flags each one shows.  The others are the        *)
(* deletions that one STORE has marked.  Exceptions: headers were dropped    *)
(* while the sync was going through them (gap "skip"), or had been before,   *)
(* of messages still on the server ("hole"); or those of FlagsAgree, a STORE *)
(* that was refused in this sync and gone on after being one of them.        *)
SyncSavesAll ==
  [][SyncExpunge /\ "skip" \notin gap =>
       \A i \in DOMAIN view : view[i].active =>
         /\ ~view[i].changed
         /\ view[i].idx # 0 /\ "hole" \notin gap /\ view[i].uid \notin off \cup swept
              => view[i].flags = toldFlags[view[i].uid]]_vars

(* EXPUNGE and CLOSE remove only messages that the user has deleted, or that *)
(* other clients have; unless a command was refused before, or a set of      *)
(* messages to be marked was made with an EXPUNGE pending, headers inactive  *)
(* or headers missing; or the header is left changed, since the mailbox is   *)
(* closed as unchanged (ctx->changed has wrapped) or the sync has skipped it.*)
OnlyDeletedExpunged ==
  [][Execute => \A u \in mail \ mail' :
       \/ u \in wanted \cup marked \cup off \cup swept \/ "hole" \in gap
       \/ /\ job.phase = "-" \/ "skip" \in gap
          /\ \E i \in DOMAIN view : view[i].uid = u /\ view[i].changed]_vars

(* A sync marks as deleted no message of the server that the user has not    *)
(* deleted: the ranges of UIDs take in no other.                             *)
NoOthersMarked ==
  [][SyncDelete /\ stack' # <<>> =>
       stack'[1].uids \cap mail \subseteq
         {view[i].uid : i \in {j \in DOMAIN view : IsDeleted(view[j])}}]_vars
=============================================================================
