------------------------------- MODULE Newsrc -------------------------------
(***************************************************************************)
(* A newsgroup and the newsrc file (nntp/newsrc.c, nntp/nntp.c).  Which    *)
(* articles have been read is kept as ranges of article numbers: in the    *)
(* file, and in the memory of every session of muttng, which loads the     *)
(* file when its size or time is new and writes all of it from memory.     *)
(* While the group is open the read flags of the headers count; closing    *)
(* it turns them into ranges again.                                        *)
(*                                                                         *)
(* One group stands for all.  $news_cache_dir is unset and $nntp_context   *)
(* is Window; the server has XOVER.  The old flag, which is kept nowhere,  *)
(* is left out.                                                            *)
(***************************************************************************)
EXTENDS Integers, FiniteSets, FiniteSetsExt, Functions

CONSTANTS
  Sessions,
  MaxArticle,  \* bound: article numbers
  MaxTime,     \* bound: seconds
  MaxEvents,   \* bound: what the user and the server do
  Window       \* $nntp_context, 0 for none

Articles == 1..MaxArticle

ASSUME NewsrcAssumption ==
  /\ MaxArticle \in Nat \ {0}
  /\ MaxTime \in Nat /\ MaxEvents \in Nat /\ Window \in Nat

VARIABLES
  server,   \* articles there are, first and last number
  file,     \* the newsrc: the group's line, if it has one, and the time
  now,
  group,    \* NNTP_DATA, by session
  stamp,    \* news->size and news->mtime
  open,     \* sessions in which the group is the open mailbox
  hdrs,     \* ctx->hdrs, by session: the flags of articles, by their numbers
  pc,       \* "ready", or where mutt_newsrc_update() is
  closing,  \* sessions in nntp_close_mailbox()
  events,
  (* history *)
  seen,     \* articles that have been shown, or that the user is done with
  skipped,  \* numbers before the first that was fetched when the group was opened
  known,    \* the file as a session has last read or written it
  forgotten, \* sessions that failed to read the newsrc whose stamp they have
  raced,    \* sessions whose stamp does not tell one file from another
  renumbered

mailbox == <<open, hdrs, closing>>
shown == <<seen, skipped>>
memory == <<known, raced, forgotten>>
vars == <<server, file, now, group, stamp, mailbox, pc, events, shown, memory, renumbered>>

Entry == [first : 1..MaxArticle + 1, last : 0..MaxArticle]
Line == [rc : BOOLEAN, subscribed : BOOLEAN, entries : SUBSET Entry]
NewsGroup == [line : Line, first : 1..MaxArticle + 1, last : 0..MaxArticle,
              loaded : 0..MaxArticle, unread : Int]
Header == [read : BOOLEAN, deleted : BOOLEAN]
Headers == UNION {[A -> Header] : A \in SUBSET Articles}
NoHeaders == [n \in {} |-> [read |-> FALSE, deleted |-> FALSE]]

NewsrcTypeOK ==
  /\ server \in [articles : SUBSET Articles, first : 1..MaxArticle + 1, last : 0..MaxArticle]
  /\ file.line \in Line /\ file.time \in 0..MaxTime /\ now \in 0..MaxTime
  /\ group \in [Sessions -> NewsGroup]
  /\ stamp \in [Sessions -> [size : Int, time : 0..MaxTime]]
  /\ open \subseteq Sessions /\ closing \subseteq open
  /\ hdrs \in [Sessions -> Headers]
  /\ pc \in [Sessions -> {"ready", "rename", "stat"}]
  /\ events \in 0..MaxEvents /\ seen \subseteq Articles /\ skipped \subseteq Articles
  /\ known \in [Sessions -> Line] /\ raced \subseteq Sessions /\ forgotten \subseteq Sessions
  /\ renumbered \in BOOLEAN

-----------------------------------------------------------------------------
(* Ranges: every line has its own in ascending order. *)
Covered(entries) == UNION {e.first..e.last : e \in entries}

(* puti(): how many digits a number is written with, none for 0              *)
Digits(n) == Cardinality({d \in 0..n : 10^d <= n})

(* The length of a line, apart from the group's name:                        *)
(* nntp_create_newsrc_line() ends every entry with a comma or the line.      *)
Size(line) ==
  IF ~line.rc THEN 0
  ELSE 1 + SumFunction([e \in line.entries |->
                          IF e.first = e.last THEN Digits(e.first) + 1
                          ELSE Digits(e.first) + Digits(e.last) + 2])
Stamp == [size |-> Size(file.line), time |-> file.time]

NoLine == [rc |-> FALSE, subscribed |-> FALSE, entries |-> {}]

(* nntp_parse_newsrc_line(): a range that ends in 0, or in nothing, is       *)
(* dropped.                                                                  *)
Parsed(line) == [line EXCEPT !.entries = {e \in @ : e.last # 0}]

(* Mutant: ranges are not cut to the articles there are. *)
StatUncut(g) ==
  g.last - g.first + 1
    - SumFunction([e \in g.line.entries |-> e.last - e.first + 1])

(* mutt_newsgroup_stat(): the number of unread articles *)
Stat(g) ==
  IF g.last = 0 \/ g.first > g.last THEN 0
  ELSE g.last - g.first + 1
         - SumFunction([e \in g.line.entries |->
             LET first == Max({e.first, g.first})
                 last == Min({e.last, g.last})
             IN  IF first <= last THEN last - first + 1 ELSE 0])

(* Mutant: a range ends with the first unread article. *)
GenEntryWide(a, n, h, firstMessage) ==
  IF a.series /\ ~h.deleted /\ ~h.read
  THEN [a EXCEPT !.series = FALSE, !.last = n,
                 !.entries = @ \cup {[first |-> a.first, last |-> n]}]
  ELSE [a EXCEPT !.first = IF ~a.series /\ (h.deleted \/ h.read) THEN a.last + 1 ELSE @,
                 !.series = @ \/ h.deleted \/ h.read, !.last = n]

(* newsrc_gen_entries(): one turn of its loop, for article n with flags h.   *)
(* "series" says that a range of read articles has begun, at "first".        *)
GenEntry(a, n, h, firstMessage) ==
  IF a.series
  THEN IF n >= firstMessage /\ ~h.deleted /\ ~h.read
       THEN [a EXCEPT !.last = n, !.series = FALSE,
                      !.entries = @ \cup {[first |-> a.first, last |-> n - 1]}]
       ELSE [a EXCEPT !.last = n]
  ELSE IF h.deleted \/ h.read
       THEN [a EXCEPT !.first = a.last + 1, !.series = TRUE, !.last = n]
       ELSE [a EXCEPT !.last = n]

(* Its loop, over the headers in the order of their numbers *)
Turns(hs, firstMessage) ==
  LET turn[n \in 0..MaxArticle] ==
        IF n = 0 THEN [series |-> TRUE, first |-> 1, last |-> 0, entries |-> {}]
        ELSE IF n \in DOMAIN hs THEN GenEntry(turn[n - 1], n, hs[n], firstMessage)
        ELSE turn[n - 1]
  IN  turn

GenEntries(hs, g) ==
  LET a == Turns(hs, g.first)[MaxArticle]
  IN  a.entries \cup IF a.series /\ a.first <= g.loaded
                     THEN {[first |-> a.first, last |-> g.loaded]} ELSE {}

-----------------------------------------------------------------------------
(* The server *)
Event == events < MaxEvents /\ events' = events + 1
session == <<group, stamp, mailbox, pc, memory>>

Post ==
  /\ server.last < MaxArticle /\ Event
  /\ server' = [server EXCEPT !.last = @ + 1, !.articles = @ \cup {server.last + 1}]
  /\ UNCHANGED <<file, now, session, shown, renumbered>>

Cancel(n) ==
  /\ n \in server.articles /\ Event
  /\ server' = [server EXCEPT !.articles = @ \ {n}]
  /\ UNCHANGED <<file, now, session, shown, renumbered>>

Expire ==
  /\ server.first <= server.last /\ Event
  /\ server' = [server EXCEPT !.articles = @ \ {server.first}, !.first = @ + 1]
  /\ UNCHANGED <<file, now, session, shown, renumbered>>

Renumber(k) ==
  /\ k < server.last /\ Event
  /\ server' = [articles |-> 1..k, first |-> 1, last |-> k]
  /\ seen' = {} /\ skipped' = {} /\ renumbered' = TRUE
  /\ UNCHANGED <<file, now, session>>

Tick ==
  /\ now < MaxTime
  /\ now' = now + 1
  /\ UNCHANGED <<server, file, session, events, shown, renumbered>>

-----------------------------------------------------------------------------
(* Loading the file, and GROUP *)

(* _nntp_check_mailbox() without anything to fetch *)
Checked(g) ==
  LET h == [g EXCEPT !.first = server.first, !.last = server.last]
      count == [h EXCEPT !.unread = IF server.last = 0 \/ ~h.line.rc
                                    THEN Cardinality(server.articles) ELSE Stat(h)]
  IN  IF server.last < g.loaded                  \* active was renumbered?
      THEN [count EXCEPT !.line.entries = {[first |-> 1, last |-> 0]}]
      ELSE count

(* The group's line, when the file can be opened and locked ("ok") or not:   *)
(* mutt_select_newsserver() has cleared it before.                           *)
Read(ok) == IF ok /\ file.line.rc THEN Parsed(file.line) ELSE NoLine

(* slurp_newsrc(), whose failure nobody looks at *)
Slurped(g, ok) ==
  LET line == Read(ok)
      h == [g EXCEPT !.line = line,
                     !.last = IF @ = 0 /\ line.entries # {}
                              THEN Max({e.last : e \in line.entries}) ELSE @]
  IN  IF line.rc THEN [h EXCEPT !.unread = Stat(h)] ELSE h

(* Mutant: only the size is looked at. *)
ModifiedSize(p) == stamp[p].size # Stamp.size

(* Externally modified? *)
Modified(p) == stamp[p] # Stamp

(* mutt_select_newsserver(), with $show_new_news or without *)
Selected(p, news, ok) ==
  LET g == IF Modified(p) THEN Slurped(group[p], ok) ELSE group[p]
  IN  IF news /\ g.line.subscribed THEN Checked(g) ELSE g

(* The stamp is taken before the file is opened and locked.                  *)
Stamped(p, ok) ==
  /\ stamp' = [stamp EXCEPT ![p] = Stamp]
  /\ known' = [known EXCEPT ![p] = IF ok THEN file.line ELSE @]
  /\ raced' = raced \ {p}
  /\ forgotten' = IF ok THEN forgotten \ {p} ELSE forgotten \cup {p}

Loaded(p, ok) == IF Modified(p) THEN Stamped(p, ok) ELSE UNCHANGED <<stamp, memory>>

(* A program that starts: the file, and the list of active groups *)
Started(ok) ==
  LET g == [line |-> Read(ok), first |-> server.first, last |-> server.last,
            loaded |-> 0, unread |-> 0]
  IN  [g EXCEPT !.unread = IF g.line.rc THEN Stat(g)
                           ELSE Max({server.last - server.first + 1, 0})]

Init ==
  /\ \E n \in 0..MaxArticle : server = [articles |-> 1..n, first |-> 1, last |-> n]
  /\ file = [line |-> [rc |-> TRUE, subscribed |-> TRUE, entries |-> {}], time |-> 0]
  /\ now = 0
  /\ group = [p \in Sessions |-> Started(TRUE)]
  /\ stamp = [p \in Sessions |-> Stamp]
  /\ open = {} /\ hdrs = [p \in Sessions |-> NoHeaders] /\ closing = {}
  /\ pc = [p \in Sessions |-> "ready"]
  /\ events = 0 /\ seen = {} /\ skipped = {} /\ raced = {} /\ forgotten = {}
  /\ renumbered = FALSE
  /\ known = [p \in Sessions |-> file.line]

(* It may have ended anywhere. *)
Restart(p, ok) ==
  /\ Event
  /\ group' = [group EXCEPT ![p] = Started(ok)]
  /\ Stamped(p, ok)
  /\ open' = open \ {p} /\ closing' = closing \ {p} /\ hdrs' = [hdrs EXCEPT ![p] = NoHeaders]
  /\ pc' = [pc EXCEPT ![p] = "ready"]
  /\ UNCHANGED <<server, file, now, shown, renumbered>>

(* The list of newsgroups is shown. *)
Browse(p, news, ok) ==
  /\ pc[p] = "ready" /\ Event
  /\ group' = [group EXCEPT ![p] = Selected(p, news, ok)]
  /\ Loaded(p, ok)
  /\ UNCHANGED <<server, file, now, mailbox, pc, shown, renumbered>>

-----------------------------------------------------------------------------
(* Headers *)

(* nntp_fetch_headers(): articles from..to, of which the listing has those   *)
(* up to "cut"; nntp_get_status() tells which are read.                      *)
Fetched(g, from, cut) ==
  [n \in {m \in server.articles : from <= m /\ m <= cut} |->
     [read |-> n \in Covered(g.line.entries), deleted |-> FALSE]]

(* Mutant: a listing that breaks off counts as complete. *)
LastLoadedAll(g, hs, cut, to) == to

LastLoaded(g, hs, cut, to) ==
  IF cut = to THEN to ELSE Max(DOMAIN hs \cup {g.loaded})

(* nntp_open_mailbox() *)
Open(p, news, ok, cut) ==
  LET s == Selected(p, news, ok)
      first == IF Window # 0 /\ server.last - server.first + 1 > Window
               THEN server.last - Window + 1 ELSE server.first
      g == [s EXCEPT !.first = server.first, !.last = server.last, !.loaded = first - 1]
      hs == Fetched(g, first, cut)
      nothing == server.last = 0 \/ first > server.last
  IN  /\ pc[p] = "ready" /\ p \notin open /\ Event
      /\ IF nothing THEN cut = server.last ELSE cut \in (first - 1)..server.last
      /\ group' = [group EXCEPT ![p] =
           IF nothing THEN g ELSE [g EXCEPT !.loaded = LastLoaded(g, hs, cut, server.last)]]
      /\ Loaded(p, ok)
      /\ IF cut = server.last
         THEN /\ open' = open \cup {p} /\ hdrs' = [hdrs EXCEPT ![p] = hs]
              /\ seen' = seen \cup first..server.last
              /\ skipped' = skipped \cup 1..first - 1
         ELSE UNCHANGED <<open, hdrs, shown>>          \* the open fails
      /\ UNCHANGED <<server, file, now, closing, pc, renumbered>>

(* The headers there are, and more *)
Joined(hs, more) ==
  [n \in DOMAIN hs \cup DOMAIN more |-> IF n \in DOMAIN hs THEN hs[n] ELSE more[n]]

(* nntp_check_mailbox(), when $nntp_poll seconds have passed *)
Check(p, cut) ==
  LET g == [group[p] EXCEPT !.first = server.first, !.last = server.last]
      hs == Fetched(g, g.loaded + 1, cut)
  IN  /\ pc[p] = "ready" /\ p \in open /\ Event
      /\ IF server.last > group[p].loaded
         THEN /\ cut \in group[p].loaded..server.last
              /\ group' = [group EXCEPT ![p] =
                             [g EXCEPT !.loaded = LastLoaded(g, hs, cut, server.last)]]
              /\ hdrs' = [hdrs EXCEPT ![p] = Joined(@, hs)]
              /\ seen' = seen \cup (g.loaded + 1)..cut
         ELSE /\ cut = server.last
              /\ group' = [group EXCEPT ![p] = Checked(@)]
              /\ UNCHANGED <<hdrs, seen>>
      /\ UNCHANGED <<server, file, now, stamp, open, closing, pc, skipped, memory, renumbered>>

ToggleRead(p, n) ==
  /\ pc[p] = "ready" /\ n \in DOMAIN hdrs[p] /\ Event
  /\ hdrs' = [hdrs EXCEPT ![p][n].read = ~@]
  /\ UNCHANGED <<server, file, now, group, stamp, open, closing, pc, shown, memory, renumbered>>

Delete(p, n) ==
  /\ pc[p] = "ready" /\ n \in DOMAIN hdrs[p] /\ Event
  /\ hdrs' = [hdrs EXCEPT ![p][n].deleted = ~@]
  /\ UNCHANGED <<server, file, now, group, stamp, open, closing, pc, shown, memory, renumbered>>

(* _mx_sync_mailbox(): nntp_sync_mailbox() writes no newsrc, and             *)
(* mx_update_tables() drops the deleted headers; or they are undeleted.      *)
Sync(p, purge) ==
  /\ pc[p] = "ready" /\ \E n \in DOMAIN hdrs[p] : hdrs[p][n].deleted
  /\ hdrs' = [hdrs EXCEPT ![p] =
                IF purge THEN Restrict(@, {n \in DOMAIN @ : ~@[n].deleted})
                ELSE [n \in DOMAIN @ |-> [@[n] EXCEPT !.deleted = FALSE]]]
  /\ UNCHANGED <<server, file, now, group, stamp, open, closing, pc, events, shown, memory, renumbered>>

-----------------------------------------------------------------------------
(* The user and the group *)
AllRead(hs, yes) == [n \in DOMAIN hs |-> [hs[n] EXCEPT !.read = yes]]
Unread(hs) == Cardinality({n \in DOMAIN hs : ~hs[n].read})

CaughtUp(g) == [g EXCEPT !.line.entries = {[first |-> 1, last |-> g.last]}, !.unread = 0]

Catchup(p) ==
  /\ pc[p] = "ready" /\ Event
  /\ group' = [group EXCEPT ![p] = CaughtUp(@)]
  /\ hdrs' = [hdrs EXCEPT ![p] = AllRead(@, TRUE)]
  /\ seen' = seen \cup 1..group[p].last
  /\ UNCHANGED <<server, file, now, stamp, open, closing, pc, skipped, memory, renumbered>>

Uncatchup(p) ==
  /\ pc[p] = "ready" /\ Event
  /\ group' = [group EXCEPT ![p] =
       [@ EXCEPT !.line.entries = {[first |-> 1, last |-> group[p].first - 1]},
                 !.unread = IF p \in open THEN Cardinality(DOMAIN hdrs[p])
                            ELSE Max({group[p].last - group[p].first + 1, 0})]]
  /\ hdrs' = [hdrs EXCEPT ![p] = AllRead(@, FALSE)]
  /\ UNCHANGED <<server, file, now, stamp, open, closing, pc, shown, memory, renumbered>>

-----------------------------------------------------------------------------
(* mutt_newsrc_update(): the lines of all groups, made from memory, go to a  *)
(* temporary file, which then takes the place of the newsrc.  The lock on    *)
(* the newsrc is given back before that.                                     *)

(* Subscribing, and unsubscribing with $save_unsubscribed or without *)
Subscribe(p, yes, save) ==
  LET line == group[p].line
  IN  /\ pc[p] = "ready" /\ Event
      /\ group' = [group EXCEPT ![p].line =
           IF line.subscribed = yes THEN line
           ELSE [line EXCEPT !.subscribed = yes, !.rc = yes \/ (line.rc /\ save)]]
      /\ pc' = [pc EXCEPT ![p] = "rename"]
      /\ UNCHANGED <<server, file, now, stamp, mailbox, shown, memory, renumbered>>

(* nntp_close_mailbox(), with the answer to "Mark all articles read?" *)
Close(p, catchup) ==
  LET hs == AllRead(hdrs[p], TRUE)
      h2 == IF catchup THEN hs ELSE hdrs[p]
  IN  /\ pc[p] = "ready" /\ p \in open
      /\ catchup => Unread(hdrs[p]) > 0
      /\ hdrs' = [hdrs EXCEPT ![p] = h2]
      /\ group' = [group EXCEPT ![p] =
           [@ EXCEPT !.line.entries = GenEntries(h2, group[p]), !.unread = Unread(h2)]]
      /\ seen' = IF catchup THEN seen \cup 1..group[p].last ELSE seen
      /\ closing' = closing \cup {p}
      /\ pc' = [pc EXCEPT ![p] = "rename"]
      /\ UNCHANGED <<server, file, now, stamp, open, events, skipped, memory, renumbered>>

(* mx_fastclose_mailbox() *)
FastClose(p) ==
  /\ open' = open \ {p} /\ closing' = closing \ {p} /\ hdrs' = [hdrs EXCEPT ![p] = NoHeaders]

(* The mailbox is left without a change, or the question is not answered:    *)
(* nntp_close_mailbox() fails, and the context is freed all the same.        *)
Leave(p) ==
  /\ pc[p] = "ready" /\ p \in open /\ Event
  /\ FastClose(p)
  /\ UNCHANGED <<server, file, now, group, stamp, pc, shown, memory, renumbered>>

UpdateEnds(p) ==
  /\ pc' = [pc EXCEPT ![p] = "ready"]
  /\ IF p \in closing THEN FastClose(p) ELSE UNCHANGED mailbox

UpdateFails(p) ==
  /\ pc[p] = "rename" /\ Event
  /\ UpdateEnds(p)
  /\ UNCHANGED <<server, file, now, group, stamp, shown, memory, renumbered>>

Written(p) == IF group[p].line.rc THEN group[p].line ELSE NoLine

Rename(p) ==
  /\ pc[p] = "rename"
  /\ file' = [line |-> Written(p), time |-> now]
  /\ known' = [known EXCEPT ![p] = Written(p)]
  /\ raced' = raced \cup {q \in Sessions : stamp[q] = Stamp'}
  /\ forgotten' = forgotten \ {p}
  /\ pc' = [pc EXCEPT ![p] = "stat"]
  /\ UNCHANGED <<server, now, group, stamp, mailbox, events, shown, renumbered>>

StatFile(p) ==
  /\ pc[p] = "stat"
  /\ stamp' = [stamp EXCEPT ![p] = Stamp]
  /\ raced' = IF file.line = known[p] THEN raced \ {p} ELSE raced \cup {p}
  /\ UpdateEnds(p)
  /\ UNCHANGED <<server, file, now, group, events, shown, known, forgotten, renumbered>>

Next ==
  \/ Post \/ Expire \/ Tick
  \/ \E n \in Articles : Cancel(n) \/ Renumber(n)
  \/ \E p \in Sessions :
       \/ Catchup(p) \/ Uncatchup(p) \/ Leave(p)
       \/ UpdateFails(p) \/ Rename(p) \/ StatFile(p)
       \/ \E b \in BOOLEAN :
            \/ Restart(p, b) \/ Sync(p, b) \/ Close(p, b)
            \/ \E c \in BOOLEAN : \/ Browse(p, b, c) \/ Subscribe(p, b, c)
                                 \/ \E n \in 0..MaxArticle : Open(p, b, c, n)
       \/ \E n \in 0..MaxArticle : Check(p, n)
       \/ \E n \in Articles : ToggleRead(p, n) \/ Delete(p, n)

Spec == Init /\ [][Next]_vars

-----------------------------------------------------------------------------
(* What closing the group writes is, read back, what the user has left:      *)
(* every article in the index is read in the newsrc if it was read or        *)
(* deleted there, and unread otherwise (newsrc_gen_entries(), puti() and     *)
(* nntp_parse_newsrc_line() together).  Excepted are a group that the        *)
(* newsrc is not to name, an article before the server's first one as the    *)
(* session has heard of it, which becomes read (n >= firstMessage), and one  *)
(* that a sync has dropped from the index, whose number falls into a range   *)
(* only if those around it do.                                               *)
FlagsKept ==
  [][\A p \in closing : pc[p] = "rename" /\ pc'[p] = "stat" /\ group[p].line.rc =>
       \A n \in DOMAIN hdrs[p] :
         n >= group[p].first =>
           (n \in Covered(Parsed(file'.line).entries) <=> hdrs[p][n].read \/ hdrs[p][n].deleted)]_vars

(* No article that nobody has been shown is read in the newsrc or in memory, *)
(* although ranges are written for what could not be loaded, too: unless     *)
(* $nntp_context has cut it off when the group was opened, for closing it    *)
(* makes these read, or the server has begun to number anew.                 *)
UnseenUnread ==
  ~renumbered =>
    \A line \in {file.line} \cup {group[p].line : p \in Sessions} :
      server.articles \cap Covered(line.entries) \subseteq seen \cup skipped

(* The number of unread articles that the list of groups shows, when a       *)
(* start of the program or the list has changed it, is that of the numbers   *)
(* which no range covers, whatever has been loaded, caught up with or        *)
(* expired (mutt_newsgroup_stat()): unless the newsrc does not name the      *)
(* group, or the server has begun to number anew.                            *)
UnreadCounted ==
  [][\A p \in Sessions :
       /\ \E ok \in BOOLEAN : Restart(p, ok) \/ \E b \in BOOLEAN : Browse(p, b, ok)
       /\ group'[p].unread # group[p].unread /\ group'[p].line.rc /\ ~renumbered
       => group'[p].unread = Cardinality((group'[p].first..group'[p].last)
                                           \ Covered(group'[p].line.entries))]_vars

(* A session that takes the newsrc for unchanged knows what is in it, unless *)
(* another session has written it between rename() and stat(), or in the     *)
(* same second with the same size, or its own last attempt to read the file  *)
(* has failed: slurp_newsrc() records size and time before it opens and      *)
(* locks the file, and the session goes on with no groups at all.            *)
ModificationNoticed ==
  \A p \in Sessions :
    pc[p] = "ready" /\ p \notin raced \cup forgotten /\ ~Modified(p) => known[p] = file.line
=============================================================================
