-------------------------------- MODULE Search --------------------------------
(***************************************************************************)
(* mutt_search_command() of pattern.c in an open mailbox.  What a pattern  *)
(* says of a message is cached in its header (searched, matched), and      *)
(* _mutt_set_flag() drops the cached result when it sees that the status   *)
(* of the message has changed.                                             *)
(***************************************************************************)
EXTENDS Context

CONSTANT SearchPatterns   \* what users search for, a subset of AllPatterns

ASSUME SearchAssumption == SearchPatterns \subseteq AllPatterns

VARIABLES
  searchpat,   \* SearchPattern, "none" before the first search
  searched,    \* the headers with a cached result
  matched,     \* those of them for which the result is a match
  invalid,     \* the option OPTSEARCHINVALID: "yes" or "no"
  overlooked   \* history: those searched whose result has been kept although a
               \* flag the pattern looks at has changed

cacheVars == <<searchpat, searched, matched, invalid, overlooked>>

SearchTypeOK ==
  /\ TypeOK
  /\ searchpat \in SearchPatterns \cup {"none"}
  /\ searched \subseteq here /\ matched \subseteq searched /\ overlooked \subseteq searched
  /\ invalid \in {"yes", "no"}

SearchInit ==
  /\ Init
  /\ searchpat = "none" /\ searched = {} /\ matched = {} /\ invalid = "no"
  /\ overlooked = {}

(* Mutant: tags are not looked at. *)
UnnoticedTags(m) ==
  \A b \in {"changed", "deleted", "flagged"} : b \in bits[m] <=> b \in bits'[m]

(* The end of _mutt_set_flag(): h->changed and the counters of deleted,      *)
(* tagged and flagged messages are as before.                                *)
Unnoticed(m) ==
  \A b \in {"changed", "deleted", "tagged", "flagged"} : b \in bits[m] <=> b \in bits'[m]

(* The first change of read or old marks the header as changed, and that is  *)
(* noticed; further ones are not, until the mailbox is saved.                *)
ChangedAgain(m) ==
  "changed" \in bits[m] /\ bits[m] \cap {"read", "old"} # bits'[m] \cap {"read", "old"}

Forget(S) == searched' = searched \ S /\ matched' = matched \ S

(* Steps that set flags with _mutt_set_flag(). *)
FlagStep(C) ==
  /\ \/ \E cmd \in C, m \in visible : Command(cmd, m)
     \/ \E m \in todo : LoopCommand(m) \/ MarkOld(m) \/ MoveMessage(m)
     \/ \E m \in todo, s \in Scores : RescoreMessage(m, s) \/ ParseMessage(m, s)
     \/ \E m \in todo, n \in here \cup todo, s, t \in Scores : ParseSuperseding(m, n, s, t)
  /\ Forget({m \in here : ~Unnoticed(m)})
  /\ overlooked' = searched' \cap
       (overlooked \cup {m \in searched : searchpat = "~N" /\ ChangedAgain(m)})
  /\ UNCHANGED <<searchpat, invalid>>

(* Steps after which all cached results are void: new mail has been read,    *)
(* the mailbox has been saved, or it could not be closed.                    *)
InvalidatingStep ==
  /\ \/ UpdateIndex
     \/ \E ans \in {"yes", "no"} : SyncMailbox(ans)
     \/ MoveFails
     \/ CloseError
  /\ invalid' = "yes"
  /\ Forget(searched \ here')
  /\ overlooked' = overlooked \cap searched'
  /\ UNCHANGED searchpat

(* The headers are freed. *)
ClosingStep ==
  /\ \/ \E ans \in {"yes", "no"} : SyncEmpties(ans)
     \/ CloseUnsaved
     \/ CloseFinish
  /\ Forget(searched)
  /\ overlooked' = {}
  /\ UNCHANGED <<searchpat, invalid>>

(* A sync that does not succeed, but after which messages are no longer      *)
(* deleted, leaves all results as they are.                                  *)
FailedSyncStep ==
  /\ \E ans \in {"yes", "no"} : SyncError(ans)
  /\ overlooked' = overlooked \cup
       {m \in searched : searchpat = "~D" /\ "deleted" \in bits[m] \ bits'[m]}
  /\ UNCHANGED <<searchpat, searched, matched, invalid>>

(* Steps that have nothing to do with the cache. *)
OtherStep(C) ==
  /\ \/ \E a \in Arrivals : Deliver(a)
     \/ \E md \in {"rw", "ro"} : Open(md)
     \/ CheckMailbox
     \/ \E cmd \in C : TagCommand(cmd)
     \/ \E cmd \in C, pat \in Patterns : PatternFunc(cmd, pat)
     \/ Rescore
     \/ \E pat \in Patterns \cup {"all"} : Limit(pat)
     \/ ToggleWrite
     \/ \E ans \in {"yes", "no"}, move \in BOOLEAN : CloseStart(ans, move)
     \/ MarkedOld
  /\ UNCHANGED cacheVars

(* mutt_search_command(): look at the messages V, in the order of the index  *)
(* from the cursor on, up to the first that matches, to the end, or until    *)
(* the user interrupts the search.  A new pattern voids the cached results.  *)
SearchCommand(pat, V) ==
  LET known == IF invalid = "yes" \/ pat # searchpat THEN {} ELSE searched
      Hit(m) == IF m \in known THEN m \in matched ELSE Match(pat, bits[m])
  IN  /\ Idle /\ V # {}
      /\ \A m, n \in V : Hit(m) /\ Hit(n) => m = n
      /\ searchpat' = pat
      /\ searched' = known \cup V
      /\ matched' = (known \cap matched) \cup {m \in V : Hit(m)}
      /\ invalid' = "no"
      /\ overlooked' = overlooked \cap known
      /\ UNCHANGED vars

SearchNextFor(C) ==
  \/ FlagStep(C) \/ InvalidatingStep \/ ClosingStep \/ FailedSyncStep \/ OtherStep(C)
  \/ \E pat \in SearchPatterns, V \in SUBSET visible : SearchCommand(pat, V)

SearchNext == SearchNextFor(Commands)

SearchSpec == SearchInit /\ [][SearchNext]_<<vars, cacheVars>>

-----------------------------------------------------------------------------
(* A search that uses a cached result gets what the pattern would say of the *)
(* message now, but for two kinds of changes that are overlooked: those of   *)
(* read and old (~N) in a header that was marked as changed already, and the *)
(* deletions (~D) a sync has taken back that did not succeed.                *)
SearchCacheFresh ==
  invalid = "no" =>
    \A m \in searched \ overlooked : m \in matched <=> Match(searchpat, bits[m])
=============================================================================
