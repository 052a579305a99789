# Mutt-ng: models, model checking and proofs

This directory holds TLA+ models of Mutt-ng (`src/trunk`), the mail client, with
TLC configurations that check them on small instances and TLAPS proofs about
them. Paths below are relative to `src/trunk`.

Mutt-ng is one thread per process, but it shares its mail folders with other
copies of itself, with delivery agents and with servers. Losing or duplicating
mail happens there, or in the long-lived bookkeeping of an open mailbox, and
that is what is modelled: the locks, the open mailbox, each kind of folder it
may stand for (mbox, Maildir, IMAP, POP, a newsgroup), and the way a message
takes from the editor to the MTA.

## 1. The system

| part | state | operations | interacts with | hard behaviour |
|---|---|---|---|---|
| dot locks (`dotlock.c`; also the program `muttng_dotlock`) | the lock file, each process's own file, loop counters | lock, unlock, unlink | called by `mx.c`, by scripts | processes interleave at every system call; crash with the lock; breaking locks; bounded retries |
| folder locks (`mx.c`) | fcntl lock, dot lock, the open file | `mx_lock_file`, `mx_unlock_file`, `mx_unlink_empty` | dot locks; every mbox operation | open before lock; two locks; timeouts |
| mailbox context (`mx.c`, `flags.c`, `score.c`) | headers with flags, counters, `changed`, the limited view | open, check, set flag, score, limit, sync, close, trash | all mailbox formats, index | counters adjusted in many places; syncs that fail half-way |
| searches (`pattern.c`) | results cached in headers | search | flags | stale caches |
| mbox (`mbox.c`) | the file, its size as last seen, message offsets | open, check, reopen, sync, close | folder locks, context, delivery | two sessions, delivery, rewriting in place, failing writes, crashes |
| MH and Maildir (`mh.c`) | files in directories, directory times | check, sync, commit | context, other programs without locks | renames under the program's feet |
| IMAP (`imap/`) | connection state, `reopen` bits, headers by sequence number | untagged responses, sync, reconnect | context, server | asynchronous EXISTS, EXPUNGE and FETCH |
| POP (`pop/`) | UIDLs, connection | check, sync, reconnect | context, server | retry of DELE after a reconnection |
| NNTP (`nntp/`) | newsrc ranges, caches | check, catch up, update newsrc | context, server, folder locks | ranges, concurrent newsrc writers |
| compressed folders (`compress.c`) | the real and the temporary file | open, sync, close | mbox | failing commands |
| threads, sorting (`thread.c`, `sort.c`) | thread tree, virtual numbers | sort, collapse, insert | context, index | tree surgery |
| index, pager, menus | cursor, redraw flags | commands | everything | - |
| compose, send, postpone | the message being written | send, fcc, postpone | context | failure after one of several copies |
| new mail, sidebar (`buffy.c`, `sidebar.c`) | times and counts per folder | check | context | stale counts |
| header cache, sockets, crypto, MIME, configuration, keys, signals | - | - | - | I/O, libraries, text processing |

`branches/muttng-rewrite` is an unfinished rewrite in C++ and is left aside, as
are vendored code (`regex.c`, `intl/`, `snprintf.c`, `md5c.c`, `sha1.c`), `po/`
and `contrib/`.

What makes the parts correct:

* locks: at most one owner; nobody waits forever; a lock outlives its owner
  only after a crash or a failing system call; what is locked is the folder;
* context: counters equal what they count; nothing that differs from the folder
  is taken for unchanged; a deleted message leaves with a copy in the trash
  folder unless it was purged;
* search: a cached answer is the answer;
* mbox: no message is lost whatever fails; unsaved changes survive a reopen;
  sessions do not undo each other's changes; only empty folders are removed;
* Maildir: what is shown is what is in the directories; the user's changes reach
  the file names; only deleted messages are removed; new mail is shown;
* IMAP: a header stands for the message the server means by its number; new mail
  is not forgotten; flags and counters agree; a sync saves everything and
  expunges nothing else;
* POP: commands name the right messages after any reconnection; only deleted
  messages go; every operation ends;
* newsrc: what nobody has seen stays unread; what the user leaves is what is
  written; another session's file is noticed; unread counts are right;
* sending: after a failure the user sees his message as he wrote it; no message
  is lost or doubled; the original of a reply is marked when the reply is sent.

`PROJECT.json` lists the components, the hazards with the line where they bite,
the runs, the mutants and the map from definitions to source lines.

## 2. Modules

| module | models | uses |
|---|---|---|
| `FileLock` | abstract: a lock with at most one owner | - |
| `Dotlock` | `dotlock.c` | shown to implement `FileLock` |
| `MailLock` | `mx_lock_file()` and friends with the folder file | EXTENDS `Dotlock` |
| `Context` | an open mailbox | - |
| `Search` | cached searches | EXTENDS `Context` |
| `Mbox` | one mbox file, several sessions, deliveries | relies on an exclusive lock, as `MailLock` proves |
| `Maildir` | one Maildir folder, one muttng, other programs | - |
| `Imap` | one selected IMAP mailbox, the server, other clients | - |
| `Pop` | one POP mailbox over many sessions with its server | - |
| `Newsrc` | a newsgroup and the newsrc file, several sessions | - |
| `Send` | composing, postponing, recalling and sending | - |
| `MC...` | instances for TLC (`MCContext` has Context and Search) | EXTENDS its module |
| `MboxProofs`, `MaildirProofs`, `ImapProofs`, `PopProofs`, `NewsrcProofs`, `SendProofs` | theorems | EXTENDS its module, TLAPS |
| `MailLockProofs` | theorems about Dotlock and MailLock | EXTENDS `MailLock`, TLAPS |
| `ContextProofs` | theorems about Context and Search | EXTENDS `Search`, TLAPS |

Operators whose comment begins with "Mutant" are plausible bugs that stand next
to the definition they would replace. No specification uses them; with one of
them in place of the original TLC finds the property violated that
`PROJECT.json` names with it.

**Dotlock.** `pc[p]` is the next system call of process p on the shared lock
file. `lockfile` is the process whose own file "folder.lock" is a link to, so
st_nlink = 2 is `lockfile = p`. One action per system call: `LinkNfs`,
`StatLinked`, `StatNotLinked`, `BreakLock`, `Unlock`, `LstatFolder`,
`RemoveFolder`, and one for each call that can fail (`PrepareFails`,
`CreateFails`, `StatFails`). Calls on the process's own file cannot be seen by
others and go with the next shared one. `Crash` may happen anywhere.

**MailLock.** Adds for each muttng the open file (`fd`), its fcntl lock and its
place in `mx.c`, and the folder itself: which file its name denotes (`path`)
and how many messages each file has. fcntl conflicts are what POSIX says.
Scripts use the dot lock only, as delivery agents do. A folder can be removed
and created again (`MaxInode` files in all). muttng opens it to append, to write
it back (`Rewrite`, so that files also shrink), to read, to check, or to remove
it. `build` is how muttng is configured and never changes: "internal" has
`dotlock.c` linked in, "standalone" is `DL_STANDALONE`, whose `invoke_dotlock()`
(`mx.c:85`) runs `muttng_dotlock` with the folder's name. Only the former compares
the open file with what the name denotes (`SameFile`).

**Context.** `bits[m]` are the bits of message m's HEADER, `ctx` the counters of
the CONTEXT. `_mutt_set_flag()` is the function `SetFlag` on pairs of a header
and a context, with one operator for every case of the switch; a command is the
sequence of calls in `CallsOf`. Commands on many messages take a step for each
message, so that TLC need not fold; nothing interleaves with them. Sync and
close follow `_mx_sync_mailbox()` and `_mx_close_mailbox()` with all answers to
their questions and all errors; what is written to the folder is `Stored`, the
Status headers `mutt_copy_header()` writes, which are not the bits themselves
(a read message is stored as read and old).

**Search.** The steps of `Context` are grouped by what they do to the cache:
flag changes drop the result of a message whose change the code notices
(`Unnoticed` is its comparison), new mail and syncs void all results, closing
frees them, and a sync that fails leaves them as they are. The history variable
`overlooked` has the messages whose result should have been dropped and was not:
those whose read or old bit changes a second time while ~N was searched for
(`ChangedAgain`), and those a failing sync has undeleted, for ~D.

**Mbox.** `file[i]` has each message's presence and flag, its offset, and the
size. `Bytes` is how long each message is without and with a flag; `UniqueSizes`
says that no two folders have the same size, which is assumed only where it is
stated, and of the instance TLC checks. A session keeps what it has read
(`base`), what its user sees (`view`), the changed and deleted messages, and
`ctx->size`. Checking is two steps when the file has grown (stat, then lock and
read), one when it has shrunk (read without lock). Writing back is `SyncCopies`
(lock, check, temporary file), `Truncate` (copy into the buffer, ftruncate),
`Flush` (buffer written, lock given back), `Finish`, with failures and crashes
between any two. A session that goes on to write although it has read something
else than what is in the file takes `WriteOver`: all that the code checks is
"From " at the offset of the first changed message (`mbox.c:753`), and what is
behind that is written over and cut off. History variables record what users had
removed, what is in temporary files that stay behind, what has been written over
(`clobbered`), and whether anybody read a folder that was not whole (`torn`).
`torn` becomes "yes" only where a session reads during a rewrite or from a file
that is no longer the folder, and where a writer dies or fails half-way. A
reopened folder gets the user's flags back for the messages `mutt_cmp_header()`
finds; one that has been cut off since is not among them.

**Maildir.** `file[m]` is the name of message m's file: its directory and the
flags in it. Each scan of a directory and each `rename()` or `unlink()` of
muttng is a step; other programs deliver, rename and remove between any two.
A check compares directory times with those of the last scan (`Newer`), scans
one directory or both, and merges what it finds into the headers
(`maildir_check_mailbox()`, `maildir_update_flags()`: `Merge`), dropping headers
whose files are gone. Sync handles one header per step. `ctx->changed` has one
bit, as in `mutt.h`. `raced` records the messages that were changed in a second,
or during a scan, whose time muttng has noted.

**Imap.** The server has `mail` and `flags`, and `told`, the messages it has
told muttng of; the place of a message in `told` is its sequence number
(`Seqno`), and h->index + 1 (`idx`) has to be the same. A step is one response
with all that muttng does about it: `cmd_parse_expunge()` renumbers, EXISTS sets
`reopen` bits, FETCH changes flags. `stack` holds the commands in progress,
because the end of one (`imap_cmd_finish()`) may start a FETCH of new headers,
which may be interrupted in turn. `ok` is what `imap_cmd_step()` takes the
answer of a command for, which is that of a nested FETCH if there was one
(`Nested`). Checks, syncs, closes and fetches of messages are the jobs they are
done for. The server may refuse commands, and connections are lost. `gap`, `off`
and `swept` name the situations in which the code is known to lose track (see
section 5); the properties hold outside them, and TLC's finding them is how they
came to be named.

**Pop.** A step is one command and its answer. The server's mailbox is a set; a
session numbers it by age (`Number`), anew every time, and removes what is
marked on QUIT only. `refno`, `index` and `cache` are muttng's; an opening that
fails frees the headers and the cache. `Reconnect` is `pop_reconnect()` with its
`check_uidl()`. A loss is noticed at the next command, in whatever loop that is. Also
`pop_fetch_mail()`, which moves all mail to the spool file.

**Newsrc.** Ranges of read articles in the file and in every session's memory, a
set of entries, as they have no number in common and their order is that of
their numbers; the headers of an open group are a function of the numbers of its
articles. `$nntp_context` (`Window`) cuts off older articles when a group is
opened; `skipped` are those, `seen` those that were loaded. `Size` is the length
of the line as `nntp_create_newsrc_line()` writes it, since a session takes the
file for unchanged when size and time are. Loading may fail between taking that
stamp (`Stamped`) and reading the file (`Slurped`): the session then has no
groups, and is in `forgotten` until it has read the file. Loading, closing,
catching up and subscribing follow the code; writing is two steps (`Rename`,
`StatFile`), between which other sessions run.

**Send.** The message in the compose menu has the bodies around its text
(`layers`), the state of its envelope (`env`), whether its descriptions are encoded, and
what it needs to remember (`reply`, `cur`, `fcc`). Every step of
`ci_send_message()` that can fail has an action for its failure, and `Crash` may
happen anywhere. Drafts keep what `mutt_write_fcc()` writes in X-Mutt headers.
`mutt_unprepare_envelope()` is not the inverse of `mutt_prepare_envelope()`
(`Unprepared`): it decodes the envelope and frees Mail-Followup-To, even the
user's own ("stripped"), and after the final preparation leaves the
Message-ID and the group undisclosed-recipients in To ("marked"). A recalled
draft has lost its Mail-Followup-To as well (`postpone.c:532`).

## 3. Runs

On two cores the passing runs end within two minutes, but for MailLock (about
three) and Newsrc (about two and a half).

| run | instance | shows |
|---|---|---|
| Dotlock | 2 processes that break no locks, retries 0 and 2, hard limit 3 | exclusion, refinement of `FileLock` |
| DotlockForce | 2 processes that may break locks, retries 0 and 2, hard limit 2 | no leaks, termination |
| MailLock | 2 muttng, or 1 and a script, of either build; 2 files, 1 message, 2 attempts; locks may be broken, though not by muttng of the stand-alone build | locked file is the folder, writers are alone, only empty folders removed, locking ends |
| Context | 2 messages (1 with ~N), 12 commands in 8 groups, scoring, superseding later to earlier, a limit, searches for ~D, ~T, ~F and ~N | counters, changed bits, close, trash, cached searches |
| Mbox | 2 sessions, 3 messages, 2 files, 3 changes by users | whole folder seen by sync, no mail lost, pending changes kept, no lost update |
| MboxUnlink | 2 sessions, 2 messages, 2 changes by users | finding: delivered mail removed with the folder |
| Maildir | 2 messages, 2 seconds, 3 events | fresh view, deletions kept, changes written, only deleted mail removed, new mail shown |
| Imap | 3 messages, 3 events by other clients or the user | numbers, counts and flags agree, mail not forgotten, sync complete, nothing else expunged |
| ImapOthers | 3 messages, 4 events, other clients set no flags | finding: a sync marks a message that the user has not deleted |
| Pop | 3 messages, 5 events, 1 lost connection, cache of 2 | numbers after reconnection, cache, only deleted mail gone, sync, termination |
| Newsrc | 2 sessions, 3 articles, 2 times, 4 events, $nntp_context 2 | unseen articles unread, flags kept, changes noticed, unread counts |
| Send | 2 messages, 2 faults, 2 layers; PGP/MIME signing and encryption, inline signing | text restored, one of each message, replies marked |

Type invariants (`DotTypeOK`, `TypeOK`, `MboxTypeOK`, `ImapTypeOK` and so on)
document the state. They are proved for all modules but Search, of which TLC has
found it to hold; the runs leave them out.

Bounds. Two processes suffice for races between a holder and a challenger;
the theorems cover any number. Retry limits are small but leave room for
waiting, giving up, breaking a lock and the hard limit. Two files let a folder
be removed and created again; a file of at most one message grows and shrinks
without end when it is appended to and written back, which is what the wait for
an fcntl lock has to cope with. In Context two messages give every combination of
a message with an earlier and a later one; the group that searches for ~N gets
one message, as its cached result depends on no other. The command groups of `MCContext`
put together commands that touch the same flags; messages of different groups
share counters only through `deleted` and `changed`, which are in all of them.
In Mbox three messages leave a first, a middle and a last one to rewrite, and
mail delivered after a deletion; three user changes let two sessions have
changes of their own while one of them starts again. In Maildir two messages
give a merge something to confuse, two seconds make a time stale or not, and
three events are enough for a delivery, a change by the user and one by another
program. In Imap three messages have one before and one after the expunged one;
an event is a delivery, a flag set or an EXPUNGE by another client, or a command
of the user, while the responses, refusals and losses they lead to are not
bounded. In Pop one loss makes every loop start again once; five events are
needed for a removal, an arrival and the user's commands around it. In Newsrc
three articles have a gap between two others, and the window of two leaves one
out; in Send two faults let a retry
fail in another place, and two layers are all that a loop of failures may pile
up before the bound stops it.

`CHECK_DEADLOCK FALSE` is in all configurations but those of Imap and Send:
bounds on deliveries, files and changes end behaviours, and a program with no
user may rest.

Fairness. `Dotlock` and `MailLock` assume weak fairness for the steps of a
process that is inside the locking code: it only sleeps a second at a time and
never waits for another process. Nothing is assumed about when users or scripts
start or release a lock. `Maildir` assumes weak fairness for the steps of a scan or
sync that has begun, and for checking: `mutt_index_menu()` looks for new mail
whenever it waits for a key, if only because of $timeout. `Pop` assumes weak
fairness for the steps of an operation in progress, which wait for nobody but
the server, and bounds the number of lost connections: `pop_reconnect()` tries
again for as long as the user says so. The other modules check safety only.

What is excluded from a passing run, and why: Context leaves out purge-message,
with the scores of its instance, and superseding of later messages, in both of
which the code fails (section 5, notes 2 and 3); `NothingLost` covers the purges
that do not fail. MailLock leaves out muttng of a stand-alone build that breaks
locks, as nothing is claimed of it. The other modules exclude no step; where the
code is known to fail, a history variable says so (`overlooked`, `torn`,
`clobbered`, `unlinked`, `raced`, `gap`, `off`, `swept`, `refused`,
`renumbered`, `skipped`, `forgotten`, `doubled`, `apart`, `gone`) and the
property names it. A property says nothing about the hazard it excepts, so
`PROJECT.json` does not list it there: those hazards have a note instead.

## 4. Proofs

| theorem | statement | assumption |
|---|---|---|
| `DotTyping` | `DotSafetySpec => []DotTypeOK` | - |
| `DotNoLeak` | `DotSafetySpec => NoLockLeak` | - |
| `DotMutualExclusion` | `DotSafetySpec => []DotExclusion` | `Polite` |
| `DotRefinesFileLock` | `DotSafetySpec => ImplementsFileLock` | `Polite` |
| `MailLockTyping` | `SafetySpec => []TypeOK` | - |
| `LockedIsFolder` | `SafetySpec => []LockedFileIsFolder` | - |
| `WriterIsAlone` | `SafetySpec => []WriterExclusion` | `Patient` |
| `OnlyEmptyAreRemoved` | `SafetySpec => OnlyEmptyFoldersRemoved` | `Patient` |
| `ContextTyping` | `Spec => []TypeOK` | - |
| `ChangesAreNoticed` | `Spec => []ChangesNoticed` | - |
| `CloseKeeps` | `Spec => CloseKeepsStatus` | - |
| `CountersAlwaysMatch` | `Spec => []CountersMatch` | `Orderly` |
| `NothingLost` | `Spec => DeletedGoesToTrash` | `PurgeForgotten` |
| `SearchAlwaysFresh` | `SearchSpec => []SearchCacheFresh` | - |
| `MboxTypeCorrect` | `Spec => []MboxTypeOK` | - |
| `NoMailIsLost` | `Spec => []NoMailLost` | `UniqueSizes` |
| `NoUpdateIsLost` | `Spec => NoLostUpdate` | `UniqueSizes` |
| `SyncSeesWhole` | `Spec => []SyncSeesWholeFolder` | `UniqueSizes` |
| `PendingIsKept` | `Spec => PendingKept` | `UniqueSizes` |
| `MaildirTypeCorrect` | `SafetySpec => []MaildirTypeOK` | - |
| `ViewAlwaysFresh` | `SafetySpec => []ViewFresh` | - |
| `DeletionsAreKept` | `SafetySpec => []DeletionKept` | - |
| `OnlyDeletedAreRemoved` | `SafetySpec => OnlyDeletedRemoved` | - |
| `ChangesAlwaysReachFile` | `SafetySpec => ChangesReachFile` | - |
| `ImapTypeCorrect` | `Spec => []ImapTypeOK` | - |
| `ImapNumbersAgree` | `Spec => []NumbersAgree` | - |
| `ImapNoMailForgotten` | `Spec => []NoMailForgotten` | - |
| `ImapCountsRight` | `Spec => []CountsRight` | - |
| `ImapSyncSavesAll` | `Spec => SyncSavesAll` | - |
| `ImapFlagsAgree` | `Spec => []FlagsAgree` | - |
| `ImapOnlyDeletedExpunged` | `Spec => OnlyDeletedExpunged` | - |
| `PopTypeCorrect` | `Spec => []PopTypeOK` | - |
| `NumbersAlwaysVerified` | `Spec => []NumbersVerified` | - |
| `CacheAlwaysRight` | `Spec => []CacheRight` | - |
| `OnlyDeletedAreGone` | `Spec => OnlyDeletedGone` | - |
| `SyncIsDone` | `Spec => SyncDone` | - |
| `NewsrcTypeCorrect` | `Spec => []NewsrcTypeOK` | - |
| `UnseenStaysUnread` | `Spec => []UnseenUnread` | - |
| `FlagsAreKept` | `Spec => FlagsKept` | - |
| `UnreadIsCounted` | `Spec => UnreadCounted` | - |
| `ModificationsNoticed` | `Spec => []ModificationNoticed` | - |
| `SendTypeCorrect` | `Spec => []SendTypeOK` | - |
| `MenuAlwaysShowsText` | `Spec => []MenuShowsText` | - |
| `AlwaysOneOfEach` | `Spec => []OneOfEach` | - |
| `RepliesAreMarked` | `Spec => RepliedWhenSent` | - |

Beside those named they use the ASSUMEs of the modules only, which give the
constants their types, so they hold for any number of processes, messages,
articles, events and losses.

* `Polite`: no caller breaks locks and all ask for fewer retries than the hard
  limit. Without it exclusion is false (section 5, note 1), as breaking a lock is
  meant to make it.
* `Patient`: all ask for fewer retries than the hard limit, as muttng does (5 of
  10); they may break locks. `OnlyEmptyFoldersRemoved` is about folders of which
  no user had a lock broken, and so is `WriterExclusion` for a stand-alone build.
* `Orderly`: messages supersede earlier ones only. Otherwise counters drift
  (section 5, note 3).
* `PurgeForgotten`: users who have purge-message have no delete-pattern, and no
  score deletes. These are what deletes a message and leaves the mark of an
  earlier purge on it, which the answer no has not taken off; TLC finds the loss
  with either (section 5, note 2).
* `UniqueSizes`: folders with different messages or flags have different sizes.
  The code compares sizes, and nothing else, to find out whether a folder has
  changed (section 5, note 5); where two changes cancel out, it is wrong. TLC
  evaluates it for the sizes of `MCMbox`, where no two sums are the same.

**Dotlock.** DotExclusion is not inductive: that the loop never ends at the hard
limit needs a bound on the loop counters. `CallInv` relates the local variables
to the program counter, and `PoliteInv` says that the hard counter runs with the
attempt counter, that nobody is about to break a lock, and that those who hold
the lock or are past the link count test own the lock file. For the refinement,
a step changes the set of holders by at most the process that takes it, and
with exclusion the set has at most one member.

**MailLock.** The invariant `IndInv` has for each muttng what its place in `mx.c`
implies: which file is open, which fcntl lock it has, that it runs in
`dotlock.c` only on behalf of `mx.c`. The essential part (`Guarded`) is why a
locked file is still the folder: removing the folder takes a write lock on the
very file that is being removed, which conflicts with the fcntl lock of everyone
who has that file locked, and a process gets past `dotlock_prepare()` only if
its file was the folder at that time. This does not use the dot lock at all, so
it holds also when users break dot locks. All this is about `build` = "internal".
That only empty folders are removed
does use it: `OwnerInv` says that whoever holds the dot lock owns the lock file,
unless a lock has been broken, and a script appends with the dot lock alone;
hence nobody makes a folder grow that muttng has found to be empty. Two writers
are told apart by `FcntlInv` if their files are the folder, hence the same; in a
stand-alone build they may not be, and what remains is that whoever has his locks
(`Holds`) has been granted the dot lock, which has one owner.

**Context.** The theorems hold for any subset of the commands, any score rules
and, but for the counters, any Supersedes: headers. `ChangesNoticed` is not
inductive, because headers exist in memory before they are counted: `Changes`
says the same of the messages that are still being read, and `Numbered` that a
message that arrives is not among the headers. The argument has two halves.
`Noticed` says what every case of `_mutt_set_flag()` does to a header and its
context: what the folder would store changes only together with both `changed`
bits (one lemma for each case, then any three calls in a row). The other half is
that the marks are cleared by a successful sync only, which has stored what the
headers say; undeleting on the answer no changes nothing that is stored, and
writing a status and reading it back gives what would be written again
(`StoredTwice`). `CloseKeepsStatus` follows: a close that skips the folder has
`changed` 0, so every header agrees with the folder.

For the counters, `Balanced` says that a case of `_mutt_set_flag()` changes a
counter by as much as the header's own share in it; `CountedChange` makes of
that a fact about cardinalities. `Places` is what the loops need: headers that
are being counted are not counted yet and are not tagged, and the messages
that a scoring or closing loop goes over are. `Orderly` makes the headers a new
message may change counted ones.

For the trash folder, `Excused` gives the reason why a header has one of the two
bits that `trash_append()` skips: `appended` means that the message has a copy,
even after it was undeleted by the answer no; `deleted` and `purged` together mean
that it was purged since, or copied. `purged` alone means nothing, so that all
that sets `deleted` must clear it, copy the message or be a purge: `LossCommand`
and `LossScore` go through the calls each command makes, `LossCommandStep` puts
them beside what the command does to copies. `LossAnswer` is the answer no.

**Search.** `SearchInv` adds to the invariant of Context that cached results are
right. A flag change that leaves the result in place has left ~F, ~T and ~D alone,
because the code compares these counters (`Unnoticed`). ~N is the hard case, as no
counter of it is compared: a header that was not marked as changed and is not
marked now agrees with the folder before and after (`Faithful`), and no flag
change writes the folder, so it is as new as it was; one that was marked already
is `overlooked` if its read or old bit changes. All that changes headers
in another way voids the cache, frees them or undeletes in a sync that fails.

**Mbox.** Two invariants. `LossInv` needs nothing of sizes but that a message has
one: whole messages lie apart and inside the file (`FileInv`), a user's view
differs from what was read in flags of whole messages only (`SessionInv`), and
whoever is between the lock and the unlock has the lock and the folder, or the
file of a folder that has been removed. `RewriteInv` is the middle of a rewrite:
nothing before the first changed message has been cut off, because ftruncate()
goes to an offset behind it, and what is still in the file is as it was read.
So each message is in the file or is about to be written (`MailInv`), until the
writer dies and leaves the temporary file. A flag that differs between the file
and what is written stems from the writer's own `dirty`.

A write over a misread folder leaves whole messages apart, too (`WriteOverDoes`),
and what it destroys is in `clobbered`. That this stays empty while nobody has
read a folder that was not whole (`NothingClobbered`) needs the second invariant,
and with it `UniqueSizes`.

`ExactInv` is about `torn` = "no": a folder that nobody is rewriting has its
messages one after the other from 0 to its size, and a session's `size` is that
of what it has read. With `UniqueSizes`, equal sizes then mean equal contents,
and a message that begins where the folder used to end means that nothing before
it has changed (`AppendedIsNew`). That rewriting and appending keep the offsets in
order is about sums (`Ends`, a recursive function); the lemmas on it (`EndsGrow`,
`EndsAgree`, `EndsMeet`, `EndsStay`) are proved with sets of numbers that have 0
and every successor, which is all of induction that is needed.

**Maildir.** `FreshIn` says for each place of the program what muttng knows of a
message that it has not missed: idle, it knows the names in directories that are
not newer than its last look (`KnownIn`); in a check those it is not
scanning; in a sync all but the files it has just unlinked; and a sync has done
(`Done`) what is not in `todo`. `SaidIn` says that the header has the user's
last word on deletion, which is why the order of tests in
`maildir_update_flags()` matters. That an unmarked header says what the name
says, and that `trash` is the T of the name, is what makes the merge right. That
a close which saves nothing leaves an even number of headers changed (`EvenInv`)
is a matter of counting: `ctx->changed` is what `mx_update_tables()` has last
counted, commands and closes that mark a header set it to 1, and a sync that
resets it leaves no header changed.

**Imap.** `BasicInv` is what everything else rests on: commands nest only as
FETCHes of headers (`NestInv`), each is sent by one place of the program
(`JobInv`), the header that a sync or a fetch works on stays where it is while it
is inactive, because nothing is dropped or read before the command has ended
(`PlaceInv`), a FETCH of headers appends the next one (`FetchInv`), and while
new mail is announced newMailCount is the server's count (`AnnouncedInv`).
`AgreeInv` is about numbers. UIDs ascend, and the server tells of messages in
their order (`ToldInv`), so a new message has the highest number, and an EXPUNGE
lowers the rank of exactly those behind it (`NumbersInv`). That the numbers of
the live headers are 1 to n takes more (`OrderInv`): no header is missing before
another. Then n headers have the n lowest ranks, by counting (the lemmas on
`Rank`). `MailInv` follows an announcement from EXISTS, through `reopen` or the
end of a FETCH that is to be extended, to the header; with an EXPUNGE pending
nothing is claimed. `CountInv` says of the
counters in the middle of a FETCH that they count the headers before its first
(`old`); at its end those behind are added, which is counting in two parts.
`SaveInv` says that before the place a sync has come to no active header is
changed, unless headers were dropped meanwhile (gap "skip"), and does so without
`ctx->changed`, which every STORE toggles (`imap/imap.c:944`). That the server
knows the flags of what has been saved is `FlagsInv`, below.

Flags and deletions rest on what the command in progress is about (`CommandInv`).
The ranges of `imap_make_msg_set()` name the messages of deleted and changed
headers and no other message there is, if UIDs ascend in the order they are made
in (`MsgSetExact`), and none that is delivered later (`FreshInv`); `MarkInv` keeps
that until the server has answered, and what was made otherwise is in `swept`. A
refused command leaves headers inactive whose flags may be wrong (`RefusedInv`);
any other inactive, unchanged header belongs to the command in progress
(`HeldInv`), for a STORE the one at `job.pos` (`PlacedInv`). Then `FlagsInv` says of
the headers that are active, or will be when their command has returned
(`Claimed`), that they show what the server has told. For EXPUNGE, `WantInv` says
that a changed or stored header is deleted only if the user wants it; `DoomInv`
why a message may have its mark on the server; and `InactiveInv` the same of
headers that a sync does not look at: without it, one that was left inactive by
an earlier command could be expunged although the user has undeleted it.

**Pop.** `PInv` has the stages of each operation. `NumbersVerified` needs what is
in them: headers being read have the number of the session they were listed in,
and after a reconnection `check_uidl()` has seen all of them. `MarksInv` says
why messages are marked: the user has deleted them, a sync that failed had, or
`pop_fetch_mail()` has saved them; and `TodoInv` that all that is deleted and
not to be marked any more has been marked in this very session. `Held` is the
cache: an entry is a message of the mailbox, under its index.

**Newsrc.** `Fine` says of the ranges in the file and in every session that they
are disjoint, and cover nothing that has neither been shown nor cut off
(`Passed`), nor anything ahead of the server. Closing writes what `GenEntries`
makes of the headers, and that it covers exactly the read and deleted ones
(`FlagsAreKept`) is about a loop, a recursive function of the article number.
The library's induction theorem cannot be used here, so `LoopInv` is proved for
all numbers by supposing a least one of which it does not hold; in the same way
the lengths of disjoint ranges are shown to add up to what they cover
(`UnreadIsCounted`). `NoticedInv` is what a stamp of the file implies, where it
does not deceive (`raced`) and was not taken of a file that could not be read
(`forgotten`).

**Send.** `Stage` says what is around the text in each stage of
`ci_send_message()`, also on the way back from a failure: `Around` and its
inverse take off exactly what was put on, inline signatures excepted; what the
envelope may be in each stage is in `Stage`, too, and `Own` says that it is the
user's own until the first failure. `Copies` counts the places of a
message; every step moves it from one to another, or is named by `doubled` or
`gone`. `Connected` and `DraftConnected` say that a message, or draft, that
answers another still knows so, unless it was recalled elsewhere (`apart`).

Only model-checked: liveness (termination of locking, `Ends` for Pop, `NewMailShown`
for Maildir), which is out of the prover's reach. Every safety property that a
passing run checks is proved.

## 5. What the findings say, and what else was seen

Findings, each with a run that shows it:

* `mx.c:1083` (MboxUnlink): sync removes an emptied folder without a lock, with
  the mail delivered to it since.
* `imap/imap.c:865` (ImapOthers): with an EXPUNGE pending, the ranges of
  `imap_make_msg_set()` are made of headers in the wrong order, and take in a
  message that the user has not deleted; the sync marks it, and CLOSE expunges it.

Seen while modelling; the models have these behaviours and the properties name
them as exceptions, or the instances leave them out:

1. `dotlock.c:660`: the hard limit returns success (`muttng_dotlock -r 10`). In a
   DL_STANDALONE build nobody compares the open file with the name that is
   locked (`mx.c:85`, `dotlock.c:193`): mail may be appended to a folder that has
   been removed since it was opened, and two writers whose fcntl locks are on
   different files are kept apart by the dot lock only. An attempt at an fcntl
   lock is not counted while the file changes its size (`mx.c:218`), so that a
   busy folder may be waited for without end.
2. `mx.c:1044`: the answer no to the purge question leaves `purged` and
   `appended` set; such a message bypasses the trash folder when it is deleted
   later. `trash_append()` copies again after a sync that failed, and the answer
   no leaves in both folders what was moved to $mbox.
3. `mx.c:1360`: a superseded message of the same batch is counted twice.
4. `flags.c:274`: cached search results survive a second change of read or old in
   a header that is marked as changed already (~N), and deletions that a sync has
   taken back before it failed (`mx.c:1045`, ~D).
5. `mbox.c:501`: a folder that has shrunk is read without a lock, possibly in the
   middle of a rewrite. A session that has misread it and finds it of the same
   size later goes on to write: `mbox.c:753` only looks for "From " at the offset
   of its first changed message, and what is behind is lost (`WriteOver`). A folder
   that cannot be locked on opening is read anyway
   (`mbox.c:72`); a change that keeps the size is not noticed (`mbox.c:441`); and
   if the temporary file cannot be opened the lock stays (`mbox.c:741`).
6. Maildir: `ctx->changed++` (`mx.c:948`) wraps in a field of one bit, so two
   changed headers count as none, and a close drops their changes; a message moved
   from new to cur while the
   folder is opened gets two headers; changes within the second of a scan are
   missed; a check inside a sync may take over the T flag of a file and unlink
   it although the answer to purging was no; `h->trash` is set before a rename
   that fails (`mh.c:1372`).
7. IMAP: EXISTS while an EXPUNGE is pending is forgotten (`imap/command.c:340`);
   `imap_fetch_message()` applies the flags of any FETCH to its message;
   headers announced during `imap_read_headers()` are counted twice; unsolicited
   flags end the reading of headers; a refused STORE leaves headers inactive;
   the loop over changed headers skips some when headers are dropped under it;
   a command that is interrupted by a reconnection returns success;
   `imap_cmd_step()` looks for the OK of a command after `imap_cmd_finish()`, which
   may have read new headers into the same buffer, and then takes a command that
   was refused for one that has succeeded (`imap/command.c:147`); ranges made
   with an EXPUNGE pending also leave out messages the user has deleted;
   `ctx->changed++` (`mx.c:948`) after an EXPUNGE makes two changed headers none,
   so that a sync or a close does not save them; and so may the `ctx->changed--` of
   each STORE (`imap/imap.c:944`), if the sync is given up half-way.
8. POP: the cache goes by `h->index` (`pop/pop.c:339`), which two headers have when
   a new message takes the number of one that is gone, as `fetch_uidl()` clears the
   cache only for messages that had a header before: one is then shown with the
   text of the other; a header without a number makes the server refuse DELE, and
   with it every
   later sync; QUIT commits the marks of a sync that failed
   (`pop/pop_lib.c:371`); a check marks vanished messages as deleted without
   counting them.
9. NNTP: `nntp/newsrc.c:591` says missing articles are marked as read, which is
   not so between two unread ones; the count of a renumbered group is taken
   before its ranges are reset; two sessions overwrite each other's changes,
   since each writes the whole file from memory and unlocks before `rename()`;
   `stat()` after it may record another session's file. `slurp_newsrc()` records
   size and time before it opens and locks the file (`nntp/newsrc.c:140`), and its
   callers ignore that it failed (388, 403) after all groups have been cleared
   (379): the session takes the newsrc for read, knows nothing of it, and its next
   update writes its groups without their ranges. Articles that `$nntp_context` cuts off
   (`nntp/nntp.c:926`) become read when the group is closed.
10. Sending: an inline signature is of type text, so that a retry signs it again,
    whatever the comment at `send.c:1670` says; a recalled draft has left the
    postponed folder, so errors and crashes lose it; recalling a reply in another
    mailbox drops its X-Mutt-References; each retry writes the Fcc again;
    `mutt_write_fcc()` commits a message it could not write completely; texts
    keep the parameter x-mutt-noconv after a postponement that failed. After any
    failure Mail-Followup-To is freed, even if the user wrote it
    (`sendlib.c:2217`), and after the final preparation To may be left with the
    group undisclosed-recipients and there is a Message-ID (`sendlib.c:2170`), so
    that the menu does not show quite the envelope the user wrote.

## 6. Not modelled, and the plan

Next, in this order:

1. `Compress`: the real and the temporary file of a compressed folder, with
   failing commands.
2. `Threads`: the tree and the virtual numbers, with `update_index()`.
3. MH folders and writing new messages into Maildir; `buffy.c`.

Left out for good: terminal, colours, key bindings, MIME, character sets and
cryptography (text processing and libraries), sockets, and the configuration
language. mmdf folders differ from mbox only in separators.
