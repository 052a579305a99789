-------------------------------- MODULE Pop ---------------------------------
(***************************************************************************)
(* A mailbox on a POP server (pop/pop.c, pop/pop_lib.c).  POP numbers      *)
(* messages anew in every session; what a session has marked with DELE is  *)
(* removed by its QUIT and by nothing else.  muttng keeps headers over     *)
(* sessions: it finds their numbers again by UIDL, and it opens a new      *)
(* session whenever it finds that the old one is gone.                     *)
(*                                                                         *)
(* A step is one command and its answer.  Between two sessions other       *)
(* programs remove messages; new ones arrive at any time.  pop_fetch_mail()*)
(* moves all messages to the spool file, while no mailbox is open here.    *)
(* Authentication and capabilities are left out: logging in succeeds or    *)
(* fails.                                                                  *)
(***************************************************************************)
EXTENDS Integers, FiniteSets

CONSTANTS
  MaxUid,     \* bound: messages that ever arrive
  MaxEvents,  \* bound: what other programs and the user do
  MaxLosses,  \* bound: connections that are lost
  CacheLen    \* POP_CACHE_LEN

Uids == 1..MaxUid

ASSUME PopAssumption ==
  /\ MaxUid \in Nat /\ MaxEvents \in Nat /\ MaxLosses \in Nat
  /\ CacheLen \in Nat \ {0}

VARIABLES
  (* the server *)
  drop,      \* the messages; they are numbered in the order of their age
  arrived,   \* how many have ever arrived
  session,   \* the messages that the session has numbered
  alive,     \* there is a session
  marks,     \* messages it has marked as deleted
  (* muttng *)
  hdrs,      \* ctx->hdrs, by their UIDLs
  refno,     \* h->refno, with 0 for -1
  index,     \* h->index
  deleted,   \* h->deleted
  ctx,       \* ctx->changed and ctx->deleted
  connected, \* pop_data->status = POP_CONNECTED
  cache,     \* pop_data->cache
  clear,     \* pop_data->clear_cache
  job,       \* what is being done
  spool,     \* messages that pop_fetch_mail() has saved
  (* bounds and history *)
  events,
  losses,
  refused    \* messages marked in this session by a sync that then failed

server == <<drop, arrived, session, alive, marks>>
headers == <<hdrs, refno, index, deleted, ctx>>
pop_data == <<connected, cache, clear>>
vars == <<server, headers, pop_data, job, spool, events, losses, refused>>

(* todo: messages that a loop has still to go through; rset and delanswer    *)
(* are variables of pop_fetch_mail().                                        *)
Jobs == [op : {"none", "idle", "open", "fetch", "sync", "close", "check", "get"},
         phase : {"-", "reconnect", "uidl", "headers", "retr", "dele", "logout", "connect", "end"},
         todo : SUBSET Uids, rset : BOOLEAN, delanswer : BOOLEAN]
Job(op, phase) ==
  [op |-> op, phase |-> phase, todo |-> {}, rset |-> FALSE, delanswer |-> FALSE]
Phase(op, phase) == job.op = op /\ job.phase = phase

NoEntry == [index |-> -1, uid |-> 0]
Entry == [index : -1..MaxUid, uid : 0..MaxUid]
NoCache == [i \in 0..(CacheLen - 1) |-> NoEntry]
NoContext == [changed |-> FALSE, deleted |-> 0]

PopTypeOK ==
  /\ drop \subseteq Uids /\ arrived \in 0..MaxUid /\ session \subseteq Uids
  /\ alive \in BOOLEAN /\ marks \subseteq session
  /\ hdrs \subseteq Uids /\ refno \in [Uids -> 0..MaxUid] /\ index \in [Uids -> 0..MaxUid]
  /\ deleted \subseteq hdrs
  /\ ctx \in [changed : BOOLEAN, deleted : Int]
  /\ connected \in BOOLEAN /\ cache \in [0..(CacheLen - 1) -> Entry] /\ clear \in BOOLEAN
  /\ job \in Jobs /\ spool \subseteq Uids
  /\ events \in 0..MaxEvents /\ losses \in 0..MaxLosses /\ refused \subseteq Uids

Init ==
  /\ \E n \in 0..MaxUid : arrived = n /\ drop = 1..n
  /\ session = {} /\ alive = FALSE /\ marks = {}
  /\ hdrs = {} /\ deleted = {} /\ ctx = NoContext
  /\ refno = [u \in Uids |-> 0] /\ index = [u \in Uids |-> 0]
  /\ connected = FALSE /\ cache = NoCache /\ clear = FALSE
  /\ job = Job("none", "-") /\ spool = {}
  /\ events = 0 /\ losses = 0 /\ refused = {}

-----------------------------------------------------------------------------
(* The server and other programs *)
Event == events < MaxEvents /\ events' = events + 1

Arrive ==
  /\ arrived < MaxUid /\ Event
  /\ arrived' = arrived + 1 /\ drop' = drop \cup {arrived + 1}
  /\ UNCHANGED <<session, alive, marks, headers, pop_data, job, spool, losses, refused>>

OtherRemove(u) ==
  /\ ~alive /\ u \in drop /\ Event
  /\ drop' = drop \ {u}
  /\ UNCHANGED <<arrived, session, alive, marks, headers, pop_data, job, spool, losses, refused>>

(* The connection is lost; the server forgets the session. *)
Hangup ==
  /\ alive /\ losses < MaxLosses
  /\ losses' = losses + 1
  /\ alive' = FALSE /\ marks' = {} /\ refused' = {}
  /\ UNCHANGED <<drop, arrived, session, headers, pop_data, job, spool, events>>

(* A session begins, or QUIT ends it. *)
Login == session' = drop /\ alive' = TRUE /\ marks' = {} /\ refused' = {}
Quit ==
  /\ drop' = drop \ marks
  /\ alive' = FALSE /\ marks' = {} /\ refused' = {}

(* The number of a message, and what is listed of the first n. *)
Place(list, u) == Cardinality({v \in list : v <= u})
Lines(list, n) == {u \in list : Place(list, u) <= n}

(* The number of a message in a listing of which n lines are read, or 0. *)
Number(list, n, u) == IF u \in Lines(list, n) THEN Place(list, u) ELSE 0

-----------------------------------------------------------------------------
(* pop_reconnect() *)

Idle == job' = Job("idle", "-")

(* mx_fastclose_mailbox() with pop_close_mailbox() *)
Fastclose ==
  /\ hdrs' = {} /\ deleted' = {} /\ ctx' = NoContext
  /\ cache' = NoCache /\ clear' = TRUE
  /\ job' = Job("none", "-")

(* A mailbox that cannot be opened is closed again. *)
GiveUp == IF job.op = "open" THEN Fastclose ELSE Idle /\ UNCHANGED <<hdrs, deleted, ctx, cache, clear>>

(* Mutant: the connection still counts as established. *)
LostUnnoticed == UNCHANGED connected /\ job' = [job EXCEPT !.phase = "reconnect"]

(* pop_query() and pop_fetch_data() without an answer *)
Lost == connected' = FALSE /\ job' = [job EXCEPT !.phase = "reconnect"]

(* Mutant: messages marked in the old session are not marked again. *)
TodoRest == IF job.phase = "reconnect" /\ job.todo # {} THEN job.todo ELSE deleted

(* The messages that the loop of pop_sync_mailbox() goes through. *)
Todo == deleted

(* What follows in the loop that has called it. *)
GoOn ==
  job' = [job EXCEPT !.phase = CASE job.op = "open" -> "uidl"
                                 [] job.op = "fetch" -> "retr"
                                 [] job.op \in {"sync", "close"} -> "dele",
                     !.todo = IF job.op \in {"sync", "close"} THEN Todo ELSE @]

StillConnected ==
  /\ job.phase = "reconnect" /\ connected
  /\ GoOn
  /\ UNCHANGED <<server, headers, pop_data, spool, events, losses, refused>>

(* Mutant: the numbers of messages that are not listed are kept. *)
VerifiedKeep(n) == [u \in Uids |-> IF u \in hdrs /\ u \in Lines(drop, n)
                                   THEN Number(drop, n, u) ELSE refno[u]]

(* check_uidl() for the first n lines of the listing *)
Verified(n) == [u \in Uids |-> IF u \in hdrs THEN Number(drop, n, u) ELSE refno[u]]

Reconnect ==
  /\ job.phase = "reconnect" /\ ~connected
  /\ Login /\ connected' = TRUE
  /\ refno' = Verified(Cardinality(drop))
  /\ GoOn
  /\ UNCHANGED <<drop, arrived, hdrs, index, deleted, ctx, cache, clear, spool, events, losses>>

(* The connection fails, before or within the listing, and the user does not *)
(* try again.                                                                *)
ReconnectFails(n) ==
  /\ job.phase = "reconnect" /\ ~connected /\ losses < MaxLosses
  /\ losses' = losses + 1
  /\ n \in 0..Cardinality(drop) /\ refno' = Verified(n)
  /\ GiveUp
  /\ UNCHANGED <<server, index, connected, spool, events, refused>>

-----------------------------------------------------------------------------
(* pop_fetch_headers(), from pop_open_mailbox() and pop_check_mailbox() *)

(* Its end: pop_check_mailbox() calls pop_clear_cache(). *)
ClearCache(now) == cache' = IF job.op = "check" /\ now THEN NoCache ELSE cache

OpenMailbox ==
  /\ job.op = "none" /\ Event
  /\ job' = Job("open", "reconnect")
  /\ UNCHANGED <<server, headers, pop_data, spool, losses, refused>>

(* Mutant: a message with a new number does not make the cache invalid. *)
MovedNever(n) == FALSE

(* fetch_uidl() has seen a header with another number than before. *)
Moved(n) == \E u \in Lines(session, n) \cap hdrs : index[u] # Place(session, u) - 1

Listed(n) ==
  /\ refno' = [u \in Uids |-> IF u \in hdrs \cup Lines(session, n) THEN Number(session, n, u) ELSE refno[u]]
  /\ index' = [u \in Uids |-> IF u \in Lines(session, n) THEN Place(session, u) - 1 ELSE index[u]]

Uidl ==
  /\ job.phase = "uidl" /\ alive
  /\ Listed(Cardinality(session)) /\ clear' = Moved(Cardinality(session))
  /\ deleted' = deleted \cup (hdrs \ session)
  /\ job' = [job EXCEPT !.phase = "headers", !.todo = session \ hdrs]
  /\ UNCHANGED <<server, hdrs, ctx, connected, cache, spool, events, losses, refused>>

(* The listing breaks off after n lines. *)
UidlLost(n) ==
  /\ job.phase = "uidl" /\ ~alive /\ n \in 0..Cardinality(session)
  /\ Listed(n) /\ clear' = Moved(n)
  /\ connected' = FALSE /\ ClearCache(Moved(n))
  /\ job' = IF job.op = "open" THEN Job("open", "reconnect") ELSE Job("idle", "-")
  /\ UNCHANGED <<server, hdrs, deleted, ctx, spool, events, losses, refused>>

(* pop_read_header() of the next new message *)
ReadHeader ==
  LET u == CHOOSE v \in job.todo : \A w \in job.todo : refno[v] <= refno[w]
  IN  /\ job.phase = "headers" /\ alive /\ job.todo # {}
      /\ hdrs' = hdrs \cup {u}
      /\ job' = [job EXCEPT !.todo = @ \ {u}]
      /\ UNCHANGED <<server, refno, index, deleted, ctx, pop_data, spool, events, losses, refused>>

HeadersRead ==
  /\ job.phase = "headers" /\ job.todo = {}
  /\ ClearCache(clear) /\ Idle
  /\ UNCHANGED <<server, headers, connected, clear, spool, events, losses, refused>>

HeadersLost ==
  /\ job.phase = "headers" /\ job.todo # {} /\ ~alive
  /\ connected' = FALSE /\ ClearCache(clear)
  /\ job' = IF job.op = "open" THEN Job("open", "reconnect") ELSE Job("idle", "-")
  /\ UNCHANGED <<server, headers, clear, spool, events, losses, refused>>

(* pop_check_mailbox(), when $pop_checkinterval has passed *)
Check ==
  /\ job.op = "idle" /\ Event
  /\ job' = Job("check", "logout")
  /\ UNCHANGED <<server, headers, pop_data, spool, losses, refused>>

(* pop_logout() *)
Logout ==
  /\ connected' = FALSE
  /\ IF connected /\ alive THEN Quit ELSE UNCHANGED <<drop, alive, marks, refused>>
  /\ UNCHANGED <<arrived, session>>

CheckLogout ==
  /\ Phase("check", "logout")
  /\ Logout
  /\ job' = [job EXCEPT !.phase = "connect"]
  /\ UNCHANGED <<headers, cache, clear, spool, events, losses>>

CheckConnect ==
  /\ Phase("check", "connect")
  /\ Login /\ connected' = TRUE
  /\ job' = [job EXCEPT !.phase = "uidl"]
  /\ UNCHANGED <<drop, arrived, headers, cache, clear, spool, events, losses>>

CheckFails ==
  /\ Phase("check", "connect") /\ losses < MaxLosses
  /\ losses' = losses + 1 /\ Idle
  /\ UNCHANGED <<server, headers, pop_data, spool, events, refused>>

-----------------------------------------------------------------------------
(* The user *)
Toggle(u) ==
  /\ job.op = "idle" /\ u \in hdrs /\ Event
  /\ IF u \in deleted
     THEN deleted' = deleted \ {u} /\ ctx' = [ctx EXCEPT !.deleted = @ - 1]
     ELSE deleted' = deleted \cup {u} /\ ctx' = [ctx EXCEPT !.deleted = @ + 1]
  /\ UNCHANGED <<server, hdrs, refno, index, pop_data, job, spool, losses, refused>>

(* Any other flag is changed. *)
Flag ==
  /\ job.op = "idle" /\ hdrs # {} /\ ~ctx.changed /\ Event
  /\ ctx' = [ctx EXCEPT !.changed = TRUE]
  /\ UNCHANGED <<server, hdrs, refno, index, deleted, pop_data, job, spool, losses, refused>>

(* pop_fetch_message(): a message that is in the cache is shown from there. *)
Slot(u) == index[u] % CacheLen
Cached(u) == cache[Slot(u)].index = index[u]

Fetch(u) ==
  /\ job.op = "idle" /\ u \in hdrs /\ ~Cached(u) /\ Event
  /\ cache' = [cache EXCEPT ![Slot(u)] = NoEntry]
  /\ job' = [Job("fetch", "reconnect") EXCEPT !.todo = {u}]
  /\ UNCHANGED <<server, headers, connected, clear, spool, losses, refused>>

(* The server has message k of the session to name. *)
Named(k) == CHOOSE u \in session : Place(session, u) = k
Valid(k) == k \in 1..Cardinality(session) /\ Named(k) \notin marks

Retr(u) ==
  /\ Phase("fetch", "retr") /\ u \in job.todo
  /\ \/ /\ refno[u] = 0 \/ alive
        /\ cache' = IF Valid(refno[u])           \* otherwise there is an error
                    THEN [cache EXCEPT ![Slot(u)] = [index |-> index[u], uid |-> Named(refno[u])]]
                    ELSE cache
        /\ Idle /\ UNCHANGED connected
     \/ refno[u] # 0 /\ ~alive /\ Lost /\ UNCHANGED cache
  /\ UNCHANGED <<server, headers, clear, spool, events, losses, refused>>

-----------------------------------------------------------------------------
(* pop_sync_mailbox(), and what _mx_sync_mailbox() and _mx_close_mailbox()   *)
(* do before: answering no to "Purge deleted messages?" undeletes all.       *)
Undelete(purge) ==
  /\ deleted' = IF ctx.deleted # 0 /\ ~purge THEN {} ELSE deleted
  /\ ctx' = IF ~purge THEN [ctx EXCEPT !.deleted = 0] ELSE ctx
  /\ UNCHANGED <<hdrs, refno, index>>

Sync(purge) ==
  /\ job.op = "idle" /\ (ctx.changed \/ (ctx.deleted # 0 /\ purge))
  /\ Undelete(purge)
  /\ job' = Job("sync", "reconnect")
  /\ UNCHANGED <<server, pop_data, spool, events, losses, refused>>

Close(purge) ==
  /\ job.op = "idle" /\ (ctx.changed \/ (ctx.deleted # 0 /\ purge))
  /\ Undelete(purge)
  /\ job' = Job("close", "reconnect")
  /\ UNCHANGED <<server, pop_data, spool, events, losses, refused>>

(* Mutant: DELE goes by the header's place when the mailbox was opened. *)
DeleNumberOld(u) == index[u] + 1

(* The message that DELE names, if there is one. *)
DeleNumber(u) == refno[u]

Dele(u) ==
  LET k == DeleNumber(u)
  IN  /\ job.op \in {"sync", "close"} /\ job.phase = "dele" /\ u \in job.todo
      /\ \/ /\ alive /\ Valid(k)
            /\ marks' = marks \cup {Named(k)}
            /\ job' = [job EXCEPT !.todo = @ \ {u}]
            /\ UNCHANGED <<connected, refused>>
         \/ /\ alive /\ ~Valid(k)
            /\ Idle /\ refused' = marks
            /\ UNCHANGED <<marks, connected>>
         \/ ~alive /\ Lost /\ UNCHANGED <<marks, refused>>
      /\ UNCHANGED <<drop, arrived, session, alive, headers, cache, clear, spool, events, losses>>

(* mx_update_tables(), or mx_fastclose_mailbox() *)
Purge ==
  /\ hdrs' = (IF job.op = "close" THEN {} ELSE hdrs \ deleted)
  /\ deleted' = {} /\ ctx' = NoContext
  /\ job' = Job(IF job.op = "close" THEN "none" ELSE "idle", "-")
  /\ UNCHANGED <<refno, index>>

Synced == job.op \in {"sync", "close"} /\ job.phase = "dele" /\ job.todo = {}

SyncQuit ==
  /\ Synced /\ alive
  /\ Quit /\ Purge
  /\ connected' = FALSE /\ cache' = NoCache /\ clear' = TRUE
  /\ UNCHANGED <<arrived, session, spool, events, losses>>

(* The server has carried out QUIT, but its answer is lost. *)
SyncQuitLost ==
  /\ Synced /\ alive /\ losses < MaxLosses
  /\ losses' = losses + 1
  /\ Quit /\ Lost
  /\ UNCHANGED <<arrived, session, headers, cache, clear, spool, events>>

SyncLost ==
  /\ Synced /\ ~alive /\ Lost
  /\ UNCHANGED <<server, headers, cache, clear, spool, events, losses, refused>>

(* The mailbox is left without a sync: it is unchanged, or the user says so. *)
Exit ==
  /\ job.op = "idle"
  /\ Logout /\ Fastclose
  /\ UNCHANGED <<refno, index, spool, events, losses>>

-----------------------------------------------------------------------------
(* pop_fetch_mail(): messages up to LAST are skipped. *)
Get(delanswer, last) ==
  /\ job.op = "none" /\ last \in 0..Cardinality(drop) /\ Event
  /\ Login
  /\ job' = [Job("get", "retr") EXCEPT !.todo = drop \ Lines(drop, last),
                                       !.delanswer = delanswer]
  /\ UNCHANGED <<drop, arrived, headers, pop_data, spool, losses>>

NextToGet == CHOOSE u \in job.todo : \A v \in job.todo : u <= v

GetMessage ==
  /\ Phase("get", "retr") /\ job.todo # {} /\ alive
  /\ spool' = spool \cup {NextToGet}
  /\ marks' = IF job.delanswer THEN marks \cup {NextToGet} ELSE marks
  /\ job' = [job EXCEPT !.todo = @ \ {NextToGet}]
  /\ UNCHANGED <<drop, arrived, session, alive, headers, pop_data, events, losses, refused>>

(* The spool file cannot be written: when the message is begun, or later. *)
GetFails(begun) ==
  /\ Phase("get", "retr") /\ job.todo # {} /\ alive
  /\ job' = [job EXCEPT !.phase = "end", !.rset = begun]
  /\ UNCHANGED <<server, headers, pop_data, spool, events, losses, refused>>

(* RSET, if needed, and QUIT *)
GetEnd ==
  /\ job.op = "get" /\ (job.phase = "end" \/ job.todo = {}) /\ alive
  /\ drop' = IF job.rset THEN drop ELSE drop \ marks
  /\ alive' = FALSE /\ marks' = {} /\ refused' = {}
  /\ job' = Job("none", "-")
  /\ UNCHANGED <<arrived, session, headers, pop_data, spool, events, losses>>

GetLost ==
  /\ job.op = "get" /\ ~alive
  /\ job' = Job("none", "-")
  /\ UNCHANGED <<server, headers, pop_data, spool, events, losses, refused>>

-----------------------------------------------------------------------------
(* What muttng does without waiting for the user *)
Step ==
  \/ StillConnected \/ Reconnect \/ Uidl \/ ReadHeader \/ HeadersRead \/ HeadersLost
  \/ CheckLogout \/ CheckConnect \/ SyncQuit \/ SyncLost
  \/ GetMessage \/ GetEnd \/ GetLost
  \/ \E n \in 0..MaxUid : UidlLost(n)
  \/ \E u \in Uids : Retr(u) \/ Dele(u)

Next ==
  \/ Step \/ Arrive \/ Hangup \/ CheckFails \/ SyncQuitLost
  \/ \E u \in Uids : OtherRemove(u) \/ Toggle(u) \/ Fetch(u)
  \/ \E n \in 0..MaxUid : ReconnectFails(n)
  \/ OpenMailbox \/ Check \/ Flag \/ Exit
  \/ \E b \in BOOLEAN : Sync(b) \/ Close(b) \/ GetFails(b) \/ \E n \in 0..MaxUid : Get(b, n)

Spec == Init /\ [][Next]_vars /\ WF_vars(Step)

-----------------------------------------------------------------------------
(* In a session that is alive, the number of every header is that of its     *)
(* message in that session, or none if the message is gone; so a command     *)
(* never names another message, whatever came before.                        *)
NumbersVerified ==
  connected /\ alive /\ job.phase # "uidl" =>
    \A u \in hdrs : refno[u] = Number(session, Cardinality(session), u)

(* A message that is shown from the cache is the one of its header, unless   *)
(* another header has the same index: that of a message that is gone, whose  *)
(* number a new message has been given.                                      *)
CacheRight ==
  job.op = "idle" => \A u \in hdrs :
    Cached(u) /\ (\A v \in hdrs : index[v] = index[u] => v = u) => cache[Slot(u)].uid = u

(* muttng removes only messages that are deleted, or have been saved in the  *)
(* spool file, or that a sync had marked before it failed.                   *)
OnlyDeletedGone ==
  [][\A u \in drop \ drop' :
       OtherRemove(u) \/ u \in deleted \cup spool \cup refused]_vars

(* A header that a sync drops stands for a message that is off the server.   *)
SyncDone ==
  [][job.op = "sync" /\ job'.op = "idle" => (hdrs \ hdrs') \cap drop' = {}]_vars

(* Every operation comes to an end, connections being lost only so often. *)
Ends == job.op \notin {"none", "idle"} ~> job.op \in {"none", "idle"}
=============================================================================
