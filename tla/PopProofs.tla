----------------------------- MODULE PopProofs ------------------------------
(***************************************************************************)
(* Proofs about a POP mailbox, for any number of messages, lost            *)
(* connections and sessions: commands name the messages of their headers,  *)
(* only deleted or saved messages leave the server, a sync leaves none     *)
(* behind, and the cache shows the right texts.                            *)
(***************************************************************************)
EXTENDS Pop, TLAPS, FiniteSetTheorems, WellFoundedInduction

(* The phases of each operation; muttng knows of every session but that of   *)
(* pop_fetch_mail(); a session that is over has no marks.                    *)
SessionInv ==
  /\ job.op \in {"none", "idle"} => job.phase = "-"
  /\ job.op = "open" => job.phase \in {"reconnect", "uidl", "headers"}
  /\ job.op = "fetch" => job.phase \in {"reconnect", "retr"}
  /\ job.op \in {"sync", "close"} => job.phase \in {"reconnect", "dele"}
  /\ job.op = "check" => job.phase \in {"logout", "connect", "uidl", "headers"}
  /\ job.op = "get" => job.phase \in {"retr", "end"}
  /\ alive => connected \/ job.op = "get"
  /\ job.op \in {"none", "get"} => ~connected
  /\ ~alive => marks = {}

(* What the loops still have to go through *)
TodoInv ==
  /\ job.op = "fetch" => job.todo \subseteq hdrs
  /\ job.phase = "dele" => job.todo \subseteq deleted /\ (alive => deleted \ job.todo \subseteq marks)
  /\ job.phase = "headers" /\ alive =>
       \A u \in job.todo : refno[u] = Number(session, Cardinality(session), u)
  /\ job.op = "get" /\ alive => job.todo \subseteq session

(* Why messages are marked *)
MarksInv ==
  marks \subseteq refused \cup (IF job.op \in {"sync", "close"} THEN deleted ELSE {})
                          \cup (IF job.op = "get" THEN spool ELSE {})

(* What is in the cache is a message of the mailbox, under its index. *)
Held ==
  \A i \in DOMAIN cache :
    cache[i].index # -1 => cache[i].uid \in hdrs /\ index[cache[i].uid] = cache[i].index
CacheInv ==
  /\ job.op \in {"none", "open", "get"} => cache = NoCache
  /\ (Phase("check", "headers") /\ clear) \/ Held

PInv == PopTypeOK /\ SessionInv /\ TodoInv /\ MarksInv /\ CacheInv /\ NumbersVerified

(* The type invariant by parts *)
ServerOK ==
  /\ drop \subseteq Uids /\ arrived \in 0..MaxUid /\ session \subseteq Uids
  /\ alive \in BOOLEAN /\ marks \subseteq session
HeadersOK ==
  /\ hdrs \subseteq Uids /\ refno \in [Uids -> 0..MaxUid] /\ index \in [Uids -> 0..MaxUid]
  /\ deleted \subseteq hdrs
  /\ ctx \in [changed : BOOLEAN, deleted : Int]
DataOK == connected \in BOOLEAN /\ cache \in [0..(CacheLen - 1) -> Entry] /\ clear \in BOOLEAN
JobOK == job \in Jobs
BoundsOK ==
  /\ spool \subseteq Uids /\ events \in 0..MaxEvents /\ losses \in 0..MaxLosses
  /\ refused \subseteq Uids

(* The type invariant is its parts. *)
LEMMA TypeParts == PopTypeOK <=> ServerOK /\ HeadersOK /\ DataOK /\ JobOK /\ BoundsOK
  BY DEF PopTypeOK, ServerOK, HeadersOK, DataOK, JobOK, BoundsOK

-----------------------------------------------------------------------------
(* The numbers of messages *)
LEMMA SubFinite ==
  ASSUME NEW S \in SUBSET Uids
  PROVE  IsFiniteSet(S) /\ Cardinality(S) \in 0..MaxUid
<1>1. IsFiniteSet(Uids) /\ Cardinality(Uids) = MaxUid
  BY PopAssumption, FS_Interval DEF Uids
<1>. QED BY <1>1, FS_Subset, FS_CardinalityType, PopAssumption

(* A message's place in a listing is one of its numbers. *)
LEMMA PlaceType ==
  ASSUME NEW S \in SUBSET Uids, NEW u \in S
  PROVE  Place(S, u) \in 1..Cardinality(S) /\ Place(S, u) \in 1..MaxUid
<1> DEFINE L == {v \in S : v <= u}
<1>0. u \in Int /\ u <= u BY DEF Uids
<1>1. u \in L /\ L \subseteq S /\ L \subseteq Uids BY <1>0
<1>2. IsFiniteSet(S) /\ IsFiniteSet(L) /\ Cardinality(L) \in 0..MaxUid /\ Cardinality(S) \in 0..MaxUid
  BY <1>1, SubFinite
<1>3. Cardinality(L) <= Cardinality(S) BY <1>1, <1>2, FS_Subset
<1>4. Cardinality(L) # 0 BY <1>1, <1>2, FS_EmptySet
<1>. QED BY <1>2, <1>3, <1>4, PopAssumption DEF Place

(* Older messages have smaller numbers. *)
LEMMA PlaceLess ==
  ASSUME NEW S \in SUBSET Uids, NEW u \in S, NEW v \in S, u < v
  PROVE  Place(S, u) < Place(S, v)
<1> DEFINE K == {w \in S : w <= u}  L == {w \in S : w <= v}
<1>0. \A w \in S : w \in Int BY DEF Uids
<1>1. K \subseteq L /\ v \in L /\ v \notin K /\ L \subseteq Uids /\ K \subseteq Uids
  BY <1>0
<1>2. IsFiniteSet(L) /\ Cardinality(L) \in Nat /\ Cardinality(K) \in Nat BY <1>1, SubFinite
<1>3. Cardinality(K) <= Cardinality(L) /\ Cardinality(K) # Cardinality(L)
  <2> HIDE DEF K, L
  <2>. QED BY <1>1, <1>2, FS_Subset
<1>. QED BY <1>2, <1>3 DEF Place

(* Two messages never have one number. *)
LEMMA PlaceInjective ==
  ASSUME NEW S \in SUBSET Uids, NEW u \in S, NEW v \in S, Place(S, u) = Place(S, v)
  PROVE  u = v
<1>1. u \in Int /\ v \in Int /\ Place(S, u) \in Int /\ Place(S, v) \in Int
  BY PlaceType DEF Uids
<1>2. ~(u < v) BY <1>1, PlaceLess
<1>3. ~(v < u) BY <1>1, PlaceLess
<1>. QED BY <1>1, <1>2, <1>3

(* The number of a message names it. *)
LEMMA NamedPlace ==
  ASSUME session \subseteq Uids, NEW u \in session
  PROVE  Named(Place(session, u)) = u
<1>1. \A v \in session : Place(session, v) = Place(session, u) => v = u
  BY PlaceInjective
<1>. QED BY <1>1 DEF Named

(* A listing that is read to its end lists every message. *)
LEMMA LinesAll ==
  ASSUME NEW S \in SUBSET Uids
  PROVE  Lines(S, Cardinality(S)) = S
<1>1. \A u \in S : Place(S, u) <= Cardinality(S) BY PlaceType, SubFinite
<1>. QED BY <1>1 DEF Lines

(* A number is 0 or that of a message. *)
LEMMA NumberType ==
  ASSUME NEW S \in SUBSET Uids, NEW n, NEW u
  PROVE  Number(S, n, u) \in 0..MaxUid
<1>1. CASE u \in Lines(S, n)
  <2>1. u \in S BY <1>1 DEF Lines
  <2>. QED BY <1>1, <2>1, PlaceType, PopAssumption DEF Number
<1>2. CASE u \notin Lines(S, n)
  BY <1>2, PopAssumption DEF Number
<1>. QED BY <1>1, <1>2

(* A header's number, if it is one, names its message. *)
LEMMA NumberNames ==
  ASSUME session \subseteq Uids, NEW u, Number(session, Cardinality(session), u) # 0
  PROVE  u \in session /\ Named(Number(session, Cardinality(session), u)) = u
<1>1. u \in session /\ Number(session, Cardinality(session), u) = Place(session, u)
  BY LinesAll DEF Number
<1>. QED BY <1>1, NamedPlace


(* Every set of numbers has a least one. *)
LEMMA LeastNat ==
  ASSUME NEW T \in SUBSET Nat, T # {}
  PROVE  \E x \in T : \A y \in T : x <= y
<1> DEFINE R == {p \in Nat \X Nat : p[1] < p[2]}
<1>1. IsWellFoundedOn(R, Nat) BY NatLessThanWellFounded, Zenon DEF OpToRel
<1>2. PICK x \in T : \A y \in T : ~(<<y, x>> \in R) BY <1>1, WFMin, Zenon
<1>3. \A y \in T : ~(y < x) BY <1>2
<1>. QED BY <1>3

(* The next message that ReadHeader or GetMessage takes is one of the rest. *)
LEMMA NextOfRest ==
  ASSUME NEW T \in SUBSET Uids, T # {}, NEW f \in [Uids -> Nat]
  PROVE  /\ (CHOOSE v \in T : \A w \in T : f[v] <= f[w]) \in T
         /\ (CHOOSE v \in T : \A w \in T : v <= w) \in T
<1>1. \E v \in T : \A w \in T : f[v] <= f[w]
  <2> DEFINE I == {f[v] : v \in T}
  <2>1. I \subseteq Nat /\ I # {} OBVIOUS
  <2> HIDE DEF I
  <2>2. PICK x \in I : \A y \in I : x <= y BY <2>1, LeastNat
  <2>. QED BY <2>2 DEF I
<1>2. \E v \in T : \A w \in T : v <= w
  <2>1. T \subseteq Nat BY DEF Uids
  <2>. QED BY <2>1, LeastNat
<1>. QED BY <1>1, <1>2

(* An empty cache holds nothing. *)
LEMMA NoCacheType ==
  /\ NoCache \in [0..(CacheLen - 1) -> Entry]
  /\ \A i \in DOMAIN NoCache : NoCache[i].index = -1
  BY PopAssumption DEF NoCache, NoEntry, Entry

(* So nothing in it can be wrong. *)
LEMMA NoCacheHeld == ASSUME cache' = NoCache PROVE Held'
  BY NoCacheType DEF Held

(* A message's index has a slot of the cache. *)
LEMMA SlotType == ASSUME HeadersOK, NEW u \in Uids PROVE Slot(u) \in 0..(CacheLen - 1)
<1>1. index[u] \in Nat BY PopAssumption DEF HeadersOK
<1>. QED BY <1>1, PopAssumption DEF Slot

(* After reconnecting, each loop begins again where it must. *)
LEMMA GoOnJob ==
  ASSUME JobOK, HeadersOK, SessionInv, job.phase = "reconnect", GoOn
  PROVE  /\ job' \in Jobs /\ job'.op = job.op
         /\ job.op \in {"open", "fetch", "sync", "close"}
         /\ job.op = "open" => job'.phase = "uidl"
         /\ job.op = "fetch" => job'.phase = "retr" /\ job'.todo = job.todo
         /\ job.op \in {"sync", "close"} => job'.phase = "dele" /\ job'.todo = deleted
<1>1. job.op \in {"open", "fetch", "sync", "close"} /\ job \in Jobs BY DEF JobOK, Jobs, SessionInv
<1>2. deleted \in SUBSET Uids BY DEF HeadersOK
<1>3. CASE job.op = "open"
  <2>1. job' = [job EXCEPT !.phase = "uidl", !.todo = job.todo] BY <1>3 DEF GoOn
  <2>. QED BY <1>1, <1>3, <2>1 DEF Jobs
<1>4. CASE job.op = "fetch"
  <2>1. job' = [job EXCEPT !.phase = "retr", !.todo = job.todo] BY <1>4 DEF GoOn
  <2>. QED BY <1>1, <1>4, <2>1 DEF Jobs
<1>5. CASE job.op \in {"sync", "close"}
  <2>1. job' = [job EXCEPT !.phase = "dele", !.todo = deleted] BY <1>5 DEF GoOn, Todo
  <2>. QED BY <1>1, <1>2, <1>5, <2>1 DEF Jobs
<1>. QED BY <1>1, <1>3, <1>4, <1>5

(* check_uidl() finds the number of every header. *)
LEMMA VerifiedType ==
  ASSUME ServerOK, HeadersOK, NEW n
  PROVE  Verified(n) \in [Uids -> 0..MaxUid] /\ \A u \in hdrs : Verified(n)[u] = Number(drop, n, u)
  BY NumberType DEF ServerOK, HeadersOK, Verified

(* fetch_uidl() sets the numbers of all lines, and unless a header has       *)
(* moved, the indices of headers stay.                                       *)
LEMMA ListedType ==
  ASSUME ServerOK, HeadersOK, NEW n, Listed(n)
  PROVE  /\ refno' \in [Uids -> 0..MaxUid] /\ index' \in [Uids -> 0..MaxUid]
         /\ \A u \in hdrs \cup Lines(session, n) : refno'[u] = Number(session, n, u)
         /\ ~Moved(n) => \A u \in hdrs : index'[u] = index[u]
<1>1. refno' \in [Uids -> 0..MaxUid] BY NumberType DEF ServerOK, HeadersOK, Listed
<1>2. Lines(session, n) \subseteq session /\ session \subseteq Uids /\ hdrs \subseteq Uids
  BY DEF Lines, ServerOK, HeadersOK
<1>3. ASSUME NEW u \in Lines(session, n) PROVE Place(session, u) - 1 \in 0..MaxUid
  <2>1. Place(session, u) \in 1..MaxUid BY <1>2, PlaceType
  <2>. QED BY <2>1, PopAssumption
<1>4. index' \in [Uids -> 0..MaxUid] BY <1>3 DEF HeadersOK, Listed
<1>5. \A u \in hdrs \cup Lines(session, n) : refno'[u] = Number(session, n, u)
  BY <1>2 DEF Listed
<1>6. ASSUME ~Moved(n), NEW u \in hdrs PROVE index'[u] = index[u]
  <2>1. index'[u] = IF u \in Lines(session, n) THEN Place(session, u) - 1 ELSE index[u]
    BY <1>2 DEF Listed
  <2>. QED BY <1>6, <2>1 DEF Moved
<1>. QED BY <1>1, <1>4, <1>5, <1>6

-----------------------------------------------------------------------------
(* Steps *)
LEMMA ArrivePInv ==
  ASSUME PInv, Arrive
  PROVE  PInv'
<1>0. ServerOK /\ HeadersOK /\ DataOK /\ JobOK /\ BoundsOK
  BY TypeParts DEF PInv
<1>a. arrived + 1 \in Uids /\ arrived + 1 \in 0..MaxUid
  BY <1>0, PopAssumption DEF Arrive, ServerOK, Uids
<1>1. PopTypeOK'
  <2>1. ServerOK'
    BY <1>0, <1>a DEF Arrive, ServerOK
  <2>2. HeadersOK'
    BY <1>0, PopAssumption DEF Arrive, Event, headers, pop_data, HeadersOK
  <2>3. DataOK'
    BY <1>0, PopAssumption DEF Arrive, Event, headers, pop_data, DataOK
  <2>4. JobOK'
    BY <1>0, PopAssumption DEF Arrive, Event, headers, pop_data, JobOK, Jobs
  <2>5. BoundsOK'
    BY <1>0, PopAssumption DEF Arrive, Event, headers, pop_data, BoundsOK
  <2>. QED BY <2>1, <2>2, <2>3, <2>4, <2>5 DEF PopTypeOK, ServerOK, HeadersOK, DataOK, JobOK, BoundsOK
<1>2. SessionInv'
  BY DEF PInv, Arrive, Event, headers, pop_data, SessionInv
<1>3. TodoInv'
  BY DEF PInv, Arrive, Event, headers, pop_data, TodoInv, SessionInv
<1>4. MarksInv'
  BY DEF PInv, Arrive, Event, headers, pop_data, MarksInv, SessionInv
<1>5. CacheInv'
  BY DEF PInv, Arrive, Event, Phase, headers, pop_data, CacheInv, Held, SessionInv
<1>6. NumbersVerified'
  BY DEF PInv, Arrive, Event, headers, pop_data, NumbersVerified, SessionInv
<1>. QED BY <1>1, <1>2, <1>3, <1>4, <1>5, <1>6 DEF PInv

(* Nor does what other programs remove between sessions. *)
LEMMA OtherRemovePInv ==
  ASSUME PInv, NEW u \in Uids, OtherRemove(u)
  PROVE  PInv'
<1>1. PopTypeOK'
  BY PopAssumption DEF PInv, OtherRemove, Event, headers, pop_data, PopTypeOK, Jobs
<1>2. SessionInv'
  BY DEF PInv, OtherRemove, Event, headers, pop_data, SessionInv
<1>3. TodoInv'
  BY DEF PInv, OtherRemove, Event, headers, pop_data, TodoInv, SessionInv
<1>4. MarksInv'
  BY DEF PInv, OtherRemove, Event, headers, pop_data, MarksInv, SessionInv
<1>5. CacheInv'
  BY DEF PInv, OtherRemove, Event, Phase, headers, pop_data, CacheInv, Held, SessionInv
<1>6. NumbersVerified'
  BY DEF PInv, OtherRemove, Event, headers, pop_data, NumbersVerified, SessionInv
<1>. QED BY <1>1, <1>2, <1>3, <1>4, <1>5, <1>6 DEF PInv

(* A session that is lost takes its marks with it. *)
LEMMA HangupPInv ==
  ASSUME PInv, Hangup
  PROVE  PInv'
<1>0. ServerOK /\ HeadersOK /\ DataOK /\ JobOK /\ BoundsOK
  BY TypeParts DEF PInv
<1>1. PopTypeOK'
  <2>1. ServerOK'
    BY <1>0, PopAssumption DEF Hangup, headers, pop_data, ServerOK
  <2>2. HeadersOK'
    BY <1>0, PopAssumption DEF Hangup, headers, pop_data, HeadersOK
  <2>3. DataOK'
    BY <1>0, PopAssumption DEF Hangup, headers, pop_data, DataOK
  <2>4. JobOK'
    BY <1>0, PopAssumption DEF Hangup, headers, pop_data, JobOK, Jobs
  <2>5. BoundsOK'
    BY <1>0, PopAssumption DEF Hangup, headers, pop_data, BoundsOK
  <2>. QED BY <2>1, <2>2, <2>3, <2>4, <2>5 DEF PopTypeOK, ServerOK, HeadersOK, DataOK, JobOK, BoundsOK
<1>2. SessionInv'
  BY DEF PInv, Hangup, headers, pop_data, SessionInv
<1>3. TodoInv'
  BY DEF PInv, Hangup, headers, pop_data, TodoInv, SessionInv
<1>4. MarksInv'
  BY DEF PInv, Hangup, headers, pop_data, MarksInv, SessionInv
<1>5. CacheInv'
  BY DEF PInv, Hangup, Phase, headers, pop_data, CacheInv, Held, SessionInv
<1>6. NumbersVerified'
  BY DEF PInv, Hangup, headers, pop_data, NumbersVerified, SessionInv
<1>. QED BY <1>1, <1>2, <1>3, <1>4, <1>5, <1>6 DEF PInv

(* A session that is still there is used as it is. *)
LEMMA StillConnectedPInv ==
  ASSUME PInv, StillConnected
  PROVE  PInv'
<1>0. ServerOK /\ HeadersOK /\ DataOK /\ JobOK /\ BoundsOK
  BY TypeParts DEF PInv
<1>a. job.phase = "reconnect" /\ GoOn /\ SessionInv
  BY DEF StillConnected, PInv
<1>b. /\ job' \in Jobs /\ job'.op = job.op /\ job.op \in {"open", "fetch", "sync", "close"}
      /\ job.op = "open" => job'.phase = "uidl"
      /\ job.op = "fetch" => job'.phase = "retr" /\ job'.todo = job.todo
      /\ job.op \in {"sync", "close"} => job'.phase = "dele" /\ job'.todo = deleted
  BY <1>0, <1>a, GoOnJob
<1>1. PopTypeOK'
  <2>1. ServerOK'
    BY <1>0, PopAssumption DEF StillConnected, GoOn, Todo, server, headers, pop_data, ServerOK
  <2>2. HeadersOK'
    BY <1>0, PopAssumption DEF StillConnected, GoOn, Todo, server, headers, pop_data, HeadersOK
  <2>3. DataOK'
    BY <1>0, PopAssumption DEF StillConnected, GoOn, Todo, server, headers, pop_data, DataOK
  <2>4. JobOK'
    BY <1>b DEF JobOK
  <2>5. BoundsOK'
    BY <1>0, PopAssumption DEF StillConnected, GoOn, Todo, server, headers, pop_data, BoundsOK
  <2>. QED BY <2>1, <2>2, <2>3, <2>4, <2>5 DEF PopTypeOK, ServerOK, HeadersOK, DataOK, JobOK, BoundsOK
<1>2. SessionInv'
  BY <1>a, <1>b DEF StillConnected, SessionInv, server, headers, pop_data
<1>3. TodoInv'
  BY <1>a, <1>b DEF StillConnected, PInv, TodoInv, server, headers, pop_data
<1>4. MarksInv'
  BY <1>b DEF StillConnected, PInv, MarksInv, server, headers, pop_data
<1>5. CacheInv'
  BY <1>a, <1>b DEF StillConnected, PInv, CacheInv, Held, Phase, server, headers, pop_data
<1>6. NumbersVerified'
  BY <1>a, <1>b DEF StillConnected, PInv, NumbersVerified, server, headers, pop_data
<1>. QED BY <1>1, <1>2, <1>3, <1>4, <1>5, <1>6 DEF PInv

(* A new session: all headers' numbers are asked for, and loops begin        *)
(* again.                                                                    *)
LEMMA ReconnectPInv ==
  ASSUME PInv, Reconnect
  PROVE  PInv'
<1>0. ServerOK /\ HeadersOK /\ DataOK /\ JobOK /\ BoundsOK
  BY TypeParts DEF PInv
<1>a. job.phase = "reconnect" /\ GoOn /\ SessionInv
  BY DEF Reconnect, PInv
<1>b. /\ job' \in Jobs /\ job'.op = job.op /\ job.op \in {"open", "fetch", "sync", "close"}
      /\ job.op = "open" => job'.phase = "uidl"
      /\ job.op = "fetch" => job'.phase = "retr" /\ job'.todo = job.todo
      /\ job.op \in {"sync", "close"} => job'.phase = "dele" /\ job'.todo = deleted
  BY <1>0, <1>a, GoOnJob
<1>c. refno' \in [Uids -> 0..MaxUid] /\ \A u \in hdrs : refno'[u] = Number(drop, Cardinality(drop), u)
  BY <1>0, VerifiedType DEF Reconnect
<1>1. PopTypeOK'
  <2>1. ServerOK'
    BY <1>0, PopAssumption DEF Reconnect, GoOn, Todo, Login, Verified, ServerOK
  <2>2. HeadersOK'
    BY <1>0, <1>c DEF Reconnect, HeadersOK
  <2>3. DataOK'
    BY <1>0, PopAssumption DEF Reconnect, GoOn, Todo, Login, Verified, DataOK
  <2>4. JobOK'
    BY <1>b DEF JobOK
  <2>5. BoundsOK'
    BY <1>0, PopAssumption DEF Reconnect, GoOn, Todo, Login, Verified, BoundsOK
  <2>. QED BY <2>1, <2>2, <2>3, <2>4, <2>5 DEF PopTypeOK, ServerOK, HeadersOK, DataOK, JobOK, BoundsOK
<1>2. SessionInv'
  BY <1>a, <1>b DEF Reconnect, Login, SessionInv
<1>3. TodoInv'
  BY <1>a, <1>b DEF Reconnect, Login, PInv, TodoInv
<1>4. MarksInv'
  BY DEF Reconnect, Login, MarksInv
<1>5. CacheInv'
  BY <1>a, <1>b DEF Reconnect, PInv, CacheInv, Held, Phase
<1>6. NumbersVerified'
  BY <1>c DEF Reconnect, Login, NumbersVerified
<1>. QED BY <1>1, <1>2, <1>3, <1>4, <1>5, <1>6 DEF PInv

(* The user gives up; a mailbox that is being opened is closed. *)
LEMMA ReconnectFailsPInv ==
  ASSUME PInv, NEW n \in 0..MaxUid, ReconnectFails(n)
  PROVE  PInv'
<1>0. ServerOK /\ HeadersOK /\ DataOK /\ JobOK /\ BoundsOK
  BY TypeParts DEF PInv
<1>c. refno' \in [Uids -> 0..MaxUid]
  BY <1>0, VerifiedType DEF ReconnectFails
<1>1. PopTypeOK'
  <2>1. ServerOK'
    BY <1>0, PopAssumption DEF ReconnectFails, GiveUp, Fastclose, Idle, Verified, Job, server, ServerOK
  <2>2. HeadersOK'
    <3>0. NoContext \in [changed : BOOLEAN, deleted : Int] BY DEF NoContext
    <3>1. CASE job.op = "open"
      BY <1>0, <1>c, <3>0, <3>1 DEF ReconnectFails, GiveUp, Fastclose, HeadersOK
    <3>2. CASE job.op # "open" BY <1>0, <1>c, <3>2 DEF ReconnectFails, GiveUp, HeadersOK
    <3>. QED BY <3>1, <3>2
  <2>3. DataOK'
    <3>1. CASE job.op = "open"
      BY <1>0, <3>1, NoCacheType DEF ReconnectFails, GiveUp, Fastclose, DataOK
    <3>2. CASE job.op # "open" BY <1>0, <3>2 DEF ReconnectFails, GiveUp, DataOK
    <3>. QED BY <3>1, <3>2
  <2>4. JobOK'
    <3>1. Job("none", "-") \in Jobs /\ Job("idle", "-") \in Jobs BY DEF Job, Jobs
    <3>2. job' = Job("none", "-") \/ job' = Job("idle", "-") BY DEF ReconnectFails, GiveUp, Fastclose, Idle
    <3>. QED BY <3>1, <3>2 DEF JobOK
  <2>5. BoundsOK'
    BY <1>0, PopAssumption DEF ReconnectFails, GiveUp, Fastclose, Idle, Verified, Job, server, BoundsOK
  <2>. QED BY <2>1, <2>2, <2>3, <2>4, <2>5 DEF PopTypeOK, ServerOK, HeadersOK, DataOK, JobOK, BoundsOK
<1>2. SessionInv'
  BY DEF PInv, ReconnectFails, GiveUp, Fastclose, Idle, Verified, Job, server, headers, SessionInv
<1>3. TodoInv'
  BY DEF PInv, ReconnectFails, GiveUp, Fastclose, Idle, Verified, Job, server, headers, TodoInv, SessionInv
<1>4. MarksInv'
  BY DEF PInv, ReconnectFails, GiveUp, Fastclose, Idle, Verified, Job, server, headers, MarksInv, SessionInv
<1>5. CacheInv'
  <2>1. CASE job.op = "open"
    BY <2>1, NoCacheHeld DEF ReconnectFails, GiveUp, Fastclose, Job, CacheInv
  <2>2. CASE job.op # "open"
    BY <2>2 DEF ReconnectFails, GiveUp, Idle, Job, PInv, CacheInv, Held, Phase
  <2>. QED BY <2>1, <2>2
<1>6. NumbersVerified'
  BY DEF PInv, ReconnectFails, GiveUp, Fastclose, Idle, Verified, Job, server, headers, NumbersVerified, SessionInv
<1>. QED BY <1>1, <1>2, <1>3, <1>4, <1>5, <1>6 DEF PInv

(* A mailbox is opened. *)
LEMMA OpenMailboxPInv ==
  ASSUME PInv, OpenMailbox
  PROVE  PInv'
<1>1. PopTypeOK'
  BY PopAssumption DEF PInv, OpenMailbox, Event, Job, server, headers, pop_data, PopTypeOK, Jobs
<1>2. SessionInv'
  BY DEF PInv, OpenMailbox, Event, Job, server, headers, pop_data, SessionInv
<1>3. TodoInv'
  BY DEF PInv, OpenMailbox, Event, Job, server, headers, pop_data, TodoInv, SessionInv
<1>4. MarksInv'
  BY DEF PInv, OpenMailbox, Event, Job, server, headers, pop_data, MarksInv, SessionInv
<1>5. CacheInv'
  BY DEF PInv, OpenMailbox, Event, Phase, Job, server, headers, pop_data, CacheInv, Held, SessionInv
<1>6. NumbersVerified'
  BY DEF PInv, OpenMailbox, Event, Job, server, headers, pop_data, NumbersVerified, SessionInv
<1>. QED BY <1>1, <1>2, <1>3, <1>4, <1>5, <1>6 DEF PInv

(* The listing gives every header its number and finds the new messages. *)
LEMMA UidlPInv ==
  ASSUME PInv, Uidl
  PROVE  PInv'
<1>0. ServerOK /\ HeadersOK /\ DataOK /\ JobOK /\ BoundsOK
  BY TypeParts DEF PInv
<1>c. Lines(session, Cardinality(session)) = session
  BY <1>0, LinesAll DEF ServerOK
<1>d. /\ refno' \in [Uids -> 0..MaxUid] /\ index' \in [Uids -> 0..MaxUid]
      /\ \A u \in hdrs \cup session : refno'[u] = Number(session, Cardinality(session), u)
      /\ ~Moved(Cardinality(session)) => \A u \in hdrs : index'[u] = index[u]
  BY <1>0, <1>c, ListedType DEF Uidl
<1>e. /\ clear' = Moved(Cardinality(session)) /\ clear' \in BOOLEAN
  BY DEF Uidl, Moved
<1>1. PopTypeOK'
  <2>1. ServerOK'
    BY <1>0, PopAssumption DEF Uidl, Listed, server, headers, ServerOK
  <2>2. HeadersOK'
    BY <1>0, <1>d DEF Uidl, HeadersOK
  <2>3. DataOK'
    BY <1>0, <1>e DEF Uidl, DataOK
  <2>4. JobOK'
    <3>1. session \ hdrs \in SUBSET Uids BY <1>0 DEF ServerOK
    <3>. QED BY <1>0, <3>1 DEF Uidl, JobOK, Jobs
  <2>5. BoundsOK'
    BY <1>0, PopAssumption DEF Uidl, Listed, server, headers, BoundsOK
  <2>. QED BY <2>1, <2>2, <2>3, <2>4, <2>5 DEF PopTypeOK, ServerOK, HeadersOK, DataOK, JobOK, BoundsOK
<1>2. SessionInv'
  BY DEF PInv, Uidl, Listed, server, headers, SessionInv
<1>3. TodoInv'
  <2>1. job'.op = job.op /\ job'.phase = "headers" /\ job'.todo = session \ hdrs /\ job.op \in {"open", "check"}
    BY <1>0 DEF Uidl, JobOK, Jobs, PInv, SessionInv
  <2>2. \A u \in job'.todo : refno'[u] = Number(session, Cardinality(session), u) BY <1>d, <2>1
  <2>. QED BY <2>1, <2>2 DEF Uidl, TodoInv, server
<1>4. MarksInv'
  BY DEF PInv, Uidl, Listed, server, headers, MarksInv, SessionInv
<1>5. CacheInv'
  <2>1. job'.op = job.op /\ job'.phase = "headers" /\ job.op \in {"open", "check"} /\ cache' = cache
    BY <1>0 DEF Uidl, JobOK, Jobs, PInv, SessionInv
  <2>2. CASE job.op = "open" BY <2>1, <2>2, NoCacheHeld DEF PInv, CacheInv
  <2>3. CASE job.op = "check" /\ clear' BY <2>1, <2>3 DEF CacheInv, Phase
  <2>4. CASE job.op = "check" /\ ~clear'
    <3>1. Held BY <2>1, <2>4 DEF PInv, CacheInv, Phase, Uidl
    <3>2. hdrs' = hdrs /\ \A u \in hdrs : index'[u] = index[u] BY <1>d, <1>e, <2>4 DEF Uidl
    <3>3. Held' BY <2>1, <3>1, <3>2 DEF Held
    <3>. QED BY <2>1, <2>4, <3>3 DEF CacheInv
  <2>. QED BY <2>1, <2>2, <2>3, <2>4
<1>6. NumbersVerified'
  BY <1>d DEF Uidl, NumbersVerified, server
<1>. QED BY <1>1, <1>2, <1>3, <1>4, <1>5, <1>6 DEF PInv

(* A listing that breaks off leaves no session behind. *)
LEMMA UidlLostPInv ==
  ASSUME PInv, NEW n \in 0..MaxUid, UidlLost(n)
  PROVE  PInv'
<1>0. ServerOK /\ HeadersOK /\ DataOK /\ JobOK /\ BoundsOK
  BY TypeParts DEF PInv
<1>d. /\ refno' \in [Uids -> 0..MaxUid] /\ index' \in [Uids -> 0..MaxUid]
      /\ ~Moved(n) => \A u \in hdrs : index'[u] = index[u]
  BY <1>0, ListedType DEF UidlLost
<1>e. /\ clear' = Moved(n) /\ clear' \in BOOLEAN
  BY DEF UidlLost, Moved
<1>1. PopTypeOK'
  <2>1. ServerOK'
    BY <1>0, PopAssumption DEF UidlLost, Listed, ClearCache, Job, server, ServerOK
  <2>2. HeadersOK'
    BY <1>0, <1>d DEF UidlLost, HeadersOK
  <2>3. DataOK'
    BY <1>0, <1>e, NoCacheType DEF UidlLost, ClearCache, DataOK
  <2>4. JobOK'
    BY <1>0, PopAssumption DEF UidlLost, Listed, ClearCache, Job, server, headers, JobOK, Jobs
  <2>5. BoundsOK'
    BY <1>0, PopAssumption DEF UidlLost, Listed, ClearCache, Job, server, BoundsOK
  <2>. QED BY <2>1, <2>2, <2>3, <2>4, <2>5 DEF PopTypeOK, ServerOK, HeadersOK, DataOK, JobOK, BoundsOK
<1>2. SessionInv'
  BY DEF PInv, UidlLost, Listed, ClearCache, Job, server, headers, SessionInv
<1>3. TodoInv'
  BY DEF PInv, UidlLost, Listed, ClearCache, Job, server, headers, TodoInv, SessionInv
<1>4. MarksInv'
  BY DEF PInv, UidlLost, Listed, ClearCache, Job, server, headers, MarksInv, SessionInv
<1>5. CacheInv'
  <2>1. job.op \in {"open", "check"} /\ hdrs' = hdrs
    BY <1>0 DEF UidlLost, JobOK, Jobs, PInv, SessionInv
  <2>2. CASE job.op = "open"
    BY <2>2, NoCacheHeld DEF UidlLost, ClearCache, Job, PInv, CacheInv
  <2>3. CASE job.op = "check" /\ Moved(n)
    BY <2>3, NoCacheHeld DEF UidlLost, ClearCache, Job, CacheInv
  <2>4. CASE job.op = "check" /\ ~Moved(n)
    <3>1. Held /\ cache' = cache BY <2>4 DEF PInv, CacheInv, Phase, UidlLost, ClearCache
    <3>2. Held' BY <1>d, <2>1, <2>4, <3>1 DEF Held
    <3>. QED BY <2>4, <3>2 DEF CacheInv, UidlLost, Job
  <2>. QED BY <2>1, <2>2, <2>3, <2>4
<1>6. NumbersVerified'
  BY DEF PInv, UidlLost, Listed, ClearCache, Job, server, headers, NumbersVerified, SessionInv
<1>. QED BY <1>1, <1>2, <1>3, <1>4, <1>5, <1>6 DEF PInv

(* A new header has the number that the listing gave it. *)
LEMMA ReadHeaderPInv ==
  ASSUME PInv, ReadHeader
  PROVE  PInv'
<1>0. ServerOK /\ HeadersOK /\ DataOK /\ JobOK /\ BoundsOK
  BY TypeParts DEF PInv
<1>a. \E u \in job.todo : hdrs' = hdrs \cup {u} /\ job' = [job EXCEPT !.todo = @ \ {u}]
  <2>1. job.todo \in SUBSET Uids /\ job.todo # {} /\ refno \in [Uids -> Nat]
    BY <1>0, PopAssumption DEF ReadHeader, JobOK, Jobs, HeadersOK
  <2>2. (CHOOSE v \in job.todo : \A w \in job.todo : refno[v] <= refno[w]) \in job.todo
    BY <2>1, NextOfRest
  <2>. QED BY <2>2 DEF ReadHeader
<1>1. PopTypeOK'
  <2>1. ServerOK'
    BY <1>0, PopAssumption DEF ReadHeader, server, headers, pop_data, ServerOK
  <2>2. HeadersOK'
    <3>1. PICK u \in job.todo : hdrs' = hdrs \cup {u} BY <1>a
    <3>2. u \in Uids BY <1>0 DEF JobOK, Jobs
    <3>. QED BY <1>0, <3>1, <3>2 DEF ReadHeader, HeadersOK
  <2>3. DataOK'
    BY <1>0, PopAssumption DEF ReadHeader, server, headers, pop_data, DataOK
  <2>4. JobOK'
    BY <1>0, PopAssumption DEF ReadHeader, server, headers, pop_data, JobOK, Jobs
  <2>5. BoundsOK'
    BY <1>0, PopAssumption DEF ReadHeader, server, headers, pop_data, BoundsOK
  <2>. QED BY <2>1, <2>2, <2>3, <2>4, <2>5 DEF PopTypeOK, ServerOK, HeadersOK, DataOK, JobOK, BoundsOK
<1>2. SessionInv'
  BY DEF PInv, ReadHeader, server, headers, pop_data, SessionInv
<1>3. TodoInv'
  BY DEF PInv, ReadHeader, server, headers, pop_data, TodoInv, SessionInv
<1>4. MarksInv'
  BY DEF PInv, ReadHeader, server, headers, pop_data, MarksInv, SessionInv
<1>5. CacheInv'
  BY DEF PInv, ReadHeader, Phase, server, headers, pop_data, CacheInv, Held, SessionInv
<1>6. NumbersVerified'
  <2>1. PICK u \in job.todo : hdrs' = hdrs \cup {u} BY <1>a
  <2>2. refno[u] = Number(session, Cardinality(session), u) BY DEF ReadHeader, PInv, TodoInv
  <2>. QED BY <2>1, <2>2 DEF ReadHeader, PInv, NumbersVerified, server, pop_data
<1>. QED BY <1>1, <1>2, <1>3, <1>4, <1>5, <1>6 DEF PInv

(* All headers are read; the cache is cleared if a message has moved. *)
LEMMA HeadersReadPInv ==
  ASSUME PInv, HeadersRead
  PROVE  PInv'
<1>0. ServerOK /\ HeadersOK /\ DataOK /\ JobOK /\ BoundsOK
  BY TypeParts DEF PInv
<1>1. PopTypeOK'
  <2>1. ServerOK'
    BY <1>0, PopAssumption DEF HeadersRead, ClearCache, Idle, Job, server, headers, ServerOK
  <2>2. HeadersOK'
    BY <1>0, PopAssumption DEF HeadersRead, ClearCache, Idle, Job, server, headers, HeadersOK
  <2>3. DataOK'
    BY <1>0, NoCacheType DEF HeadersRead, ClearCache, DataOK, pop_data
  <2>4. JobOK'
    BY <1>0, PopAssumption DEF HeadersRead, ClearCache, Idle, Job, server, headers, JobOK, Jobs
  <2>5. BoundsOK'
    BY <1>0, PopAssumption DEF HeadersRead, ClearCache, Idle, Job, server, headers, BoundsOK
  <2>. QED BY <2>1, <2>2, <2>3, <2>4, <2>5 DEF PopTypeOK, ServerOK, HeadersOK, DataOK, JobOK, BoundsOK
<1>2. SessionInv'
  BY DEF PInv, HeadersRead, ClearCache, Idle, Job, server, headers, SessionInv
<1>3. TodoInv'
  BY DEF PInv, HeadersRead, ClearCache, Idle, Job, server, headers, TodoInv, SessionInv
<1>4. MarksInv'
  BY DEF PInv, HeadersRead, ClearCache, Idle, Job, server, headers, MarksInv, SessionInv
<1>5. CacheInv'
  <2>1. job.op \in {"open", "check"}
    BY <1>0 DEF HeadersRead, JobOK, Jobs, PInv, SessionInv
  <2>2. CASE job.op = "open"
    BY <2>2, NoCacheHeld, NoCacheType DEF HeadersRead, ClearCache, Idle, Job, PInv, CacheInv
  <2>3. CASE job.op = "check" /\ clear
    BY <2>3, NoCacheHeld DEF HeadersRead, ClearCache, Idle, Job, CacheInv
  <2>4. CASE job.op = "check" /\ ~clear
    BY <2>4 DEF HeadersRead, ClearCache, Idle, Job, PInv, CacheInv, Held, Phase, headers
  <2>. QED BY <2>1, <2>2, <2>3, <2>4
<1>6. NumbersVerified'
  BY DEF PInv, HeadersRead, ClearCache, Idle, Job, server, headers, NumbersVerified, SessionInv
<1>. QED BY <1>1, <1>2, <1>3, <1>4, <1>5, <1>6 DEF PInv

(* The session is lost while headers are read. *)
LEMMA HeadersLostPInv ==
  ASSUME PInv, HeadersLost
  PROVE  PInv'
<1>0. ServerOK /\ HeadersOK /\ DataOK /\ JobOK /\ BoundsOK
  BY TypeParts DEF PInv
<1>1. PopTypeOK'
  <2>1. ServerOK'
    BY <1>0, PopAssumption DEF HeadersLost, ClearCache, Job, server, headers, ServerOK
  <2>2. HeadersOK'
    BY <1>0, PopAssumption DEF HeadersLost, ClearCache, Job, server, headers, HeadersOK
  <2>3. DataOK'
    BY <1>0, NoCacheType DEF HeadersLost, ClearCache, DataOK, pop_data
  <2>4. JobOK'
    BY <1>0, PopAssumption DEF HeadersLost, ClearCache, Job, server, headers, JobOK, Jobs
  <2>5. BoundsOK'
    BY <1>0, PopAssumption DEF HeadersLost, ClearCache, Job, server, headers, BoundsOK
  <2>. QED BY <2>1, <2>2, <2>3, <2>4, <2>5 DEF PopTypeOK, ServerOK, HeadersOK, DataOK, JobOK, BoundsOK
<1>2. SessionInv'
  BY DEF PInv, HeadersLost, ClearCache, Job, server, headers, SessionInv
<1>3. TodoInv'
  BY DEF PInv, HeadersLost, ClearCache, Job, server, headers, TodoInv, SessionInv
<1>4. MarksInv'
  BY DEF PInv, HeadersLost, ClearCache, Job, server, headers, MarksInv, SessionInv
<1>5. CacheInv'
  <2>1. job.op \in {"open", "check"}
    BY <1>0 DEF HeadersLost, JobOK, Jobs, PInv, SessionInv
  <2>2. CASE job.op = "open"
    BY <2>2, NoCacheHeld, NoCacheType DEF HeadersLost, ClearCache, Idle, Job, PInv, CacheInv
  <2>3. CASE job.op = "check" /\ clear
    BY <2>3, NoCacheHeld DEF HeadersLost, ClearCache, Idle, Job, CacheInv
  <2>4. CASE job.op = "check" /\ ~clear
    BY <2>4 DEF HeadersLost, ClearCache, Idle, Job, PInv, CacheInv, Held, Phase, headers
  <2>. QED BY <2>1, <2>2, <2>3, <2>4
<1>6. NumbersVerified'
  BY DEF PInv, HeadersLost, ClearCache, Job, server, headers, NumbersVerified, SessionInv
<1>. QED BY <1>1, <1>2, <1>3, <1>4, <1>5, <1>6 DEF PInv

(* The mailbox is checked. *)
LEMMA CheckPInv ==
  ASSUME PInv, Check
  PROVE  PInv'
<1>1. PopTypeOK'
  BY PopAssumption DEF PInv, Check, Event, Job, server, headers, pop_data, PopTypeOK, Jobs
<1>2. SessionInv'
  BY DEF PInv, Check, Event, Job, server, headers, pop_data, SessionInv
<1>3. TodoInv'
  BY DEF PInv, Check, Event, Job, server, headers, pop_data, TodoInv, SessionInv
<1>4. MarksInv'
  BY DEF PInv, Check, Event, Job, server, headers, pop_data, MarksInv, SessionInv
<1>5. CacheInv'
  BY DEF PInv, Check, Event, Phase, Job, server, headers, pop_data, CacheInv, Held, SessionInv
<1>6. NumbersVerified'
  BY DEF PInv, Check, Event, Job, server, headers, pop_data, NumbersVerified, SessionInv
<1>. QED BY <1>1, <1>2, <1>3, <1>4, <1>5, <1>6 DEF PInv

(* The old session ends, which removes what a failed sync has marked. *)
LEMMA CheckLogoutPInv ==
  ASSUME PInv, CheckLogout
  PROVE  PInv'
<1>1. PopTypeOK'
  BY PopAssumption DEF PInv, CheckLogout, Logout, Quit, Phase, headers, PopTypeOK, Jobs
<1>2. SessionInv'
  BY DEF PInv, CheckLogout, Logout, Quit, Phase, headers, SessionInv
<1>3. TodoInv'
  BY DEF PInv, CheckLogout, Logout, Quit, Phase, headers, TodoInv, SessionInv
<1>4. MarksInv'
  BY DEF PInv, CheckLogout, Logout, Quit, Phase, headers, MarksInv, SessionInv
<1>5. CacheInv'
  BY DEF PInv, CheckLogout, Logout, Quit, Phase, headers, CacheInv, Held, SessionInv
<1>6. NumbersVerified'
  BY DEF PInv, CheckLogout, Logout, Quit, Phase, headers, NumbersVerified, SessionInv
<1>. QED BY <1>1, <1>2, <1>3, <1>4, <1>5, <1>6 DEF PInv

(* A new session for the check. *)
LEMMA CheckConnectPInv ==
  ASSUME PInv, CheckConnect
  PROVE  PInv'
<1>1. PopTypeOK'
  BY PopAssumption DEF PInv, CheckConnect, Login, Phase, headers, PopTypeOK, Jobs
<1>2. SessionInv'
  BY DEF PInv, CheckConnect, Login, Phase, headers, SessionInv
<1>3. TodoInv'
  BY DEF PInv, CheckConnect, Login, Phase, headers, TodoInv, SessionInv
<1>4. MarksInv'
  BY DEF PInv, CheckConnect, Login, Phase, headers, MarksInv, SessionInv
<1>5. CacheInv'
  BY DEF PInv, CheckConnect, Login, Phase, headers, CacheInv, Held, SessionInv
<1>6. NumbersVerified'
  BY DEF PInv, CheckConnect, Login, Phase, headers, NumbersVerified, SessionInv
<1>. QED BY <1>1, <1>2, <1>3, <1>4, <1>5, <1>6 DEF PInv

(* There is no new session. *)
LEMMA CheckFailsPInv ==
  ASSUME PInv, CheckFails
  PROVE  PInv'
<1>1. PopTypeOK'
  BY PopAssumption DEF PInv, CheckFails, Idle, Phase, Job, server, headers, pop_data, PopTypeOK, Jobs
<1>2. SessionInv'
  BY DEF PInv, CheckFails, Idle, Phase, Job, server, headers, pop_data, SessionInv
<1>3. TodoInv'
  BY DEF PInv, CheckFails, Idle, Phase, Job, server, headers, pop_data, TodoInv, SessionInv
<1>4. MarksInv'
  BY DEF PInv, CheckFails, Idle, Phase, Job, server, headers, pop_data, MarksInv, SessionInv
<1>5. CacheInv'
  BY DEF PInv, CheckFails, Idle, Phase, Job, server, headers, pop_data, CacheInv, Held, SessionInv
<1>6. NumbersVerified'
  BY DEF PInv, CheckFails, Idle, Phase, Job, server, headers, pop_data, NumbersVerified, SessionInv
<1>. QED BY <1>1, <1>2, <1>3, <1>4, <1>5, <1>6 DEF PInv

(* The user deletes or undeletes a message. *)
LEMMA TogglePInv ==
  ASSUME PInv, NEW u \in Uids, Toggle(u)
  PROVE  PInv'
<1>0. ServerOK /\ HeadersOK /\ DataOK /\ JobOK /\ BoundsOK
  BY TypeParts DEF PInv
<1>1. PopTypeOK'
  <2>1. ServerOK'
    BY <1>0, PopAssumption DEF Toggle, Event, server, pop_data, ServerOK
  <2>2. HeadersOK'
    BY <1>0, PopAssumption DEF Toggle, Event, server, pop_data, HeadersOK
  <2>3. DataOK'
    BY <1>0, PopAssumption DEF Toggle, Event, server, pop_data, DataOK
  <2>4. JobOK'
    BY <1>0, PopAssumption DEF Toggle, Event, server, headers, pop_data, JobOK, Jobs
  <2>5. BoundsOK'
    BY <1>0, PopAssumption DEF Toggle, Event, server, pop_data, BoundsOK
  <2>. QED BY <2>1, <2>2, <2>3, <2>4, <2>5 DEF PopTypeOK, ServerOK, HeadersOK, DataOK, JobOK, BoundsOK
<1>2. SessionInv'
  BY DEF PInv, Toggle, Event, server, headers, pop_data, SessionInv
<1>3. TodoInv'
  BY DEF PInv, Toggle, Event, server, headers, pop_data, TodoInv, SessionInv
<1>4. MarksInv'
  BY DEF PInv, Toggle, Event, server, headers, pop_data, MarksInv, SessionInv
<1>5. CacheInv'
  BY DEF PInv, Toggle, Event, Phase, server, headers, pop_data, CacheInv, Held, SessionInv
<1>6. NumbersVerified'
  BY DEF PInv, Toggle, Event, server, headers, pop_data, NumbersVerified, SessionInv
<1>. QED BY <1>1, <1>2, <1>3, <1>4, <1>5, <1>6 DEF PInv

(* The user changes another flag. *)
LEMMA FlagPInv ==
  ASSUME PInv, Flag
  PROVE  PInv'
<1>0. ServerOK /\ HeadersOK /\ DataOK /\ JobOK /\ BoundsOK
  BY TypeParts DEF PInv
<1>1. PopTypeOK'
  <2>1. ServerOK'
    BY <1>0, PopAssumption DEF Flag, Event, server, pop_data, ServerOK
  <2>2. HeadersOK'
    BY <1>0, PopAssumption DEF Flag, Event, server, pop_data, HeadersOK
  <2>3. DataOK'
    BY <1>0, PopAssumption DEF Flag, Event, server, pop_data, DataOK
  <2>4. JobOK'
    BY <1>0, PopAssumption DEF Flag, Event, server, headers, pop_data, JobOK, Jobs
  <2>5. BoundsOK'
    BY <1>0, PopAssumption DEF Flag, Event, server, pop_data, BoundsOK
  <2>. QED BY <2>1, <2>2, <2>3, <2>4, <2>5 DEF PopTypeOK, ServerOK, HeadersOK, DataOK, JobOK, BoundsOK
<1>2. SessionInv'
  BY DEF PInv, Flag, Event, server, headers, pop_data, SessionInv
<1>3. TodoInv'
  BY DEF PInv, Flag, Event, server, headers, pop_data, TodoInv, SessionInv
<1>4. MarksInv'
  BY DEF PInv, Flag, Event, server, headers, pop_data, MarksInv, SessionInv
<1>5. CacheInv'
  BY DEF PInv, Flag, Event, Phase, server, headers, pop_data, CacheInv, Held, SessionInv
<1>6. NumbersVerified'
  BY DEF PInv, Flag, Event, server, headers, pop_data, NumbersVerified, SessionInv
<1>. QED BY <1>1, <1>2, <1>3, <1>4, <1>5, <1>6 DEF PInv

(* A text that is not in the cache is asked for. *)
LEMMA FetchPInv ==
  ASSUME PInv, NEW u \in Uids, Fetch(u)
  PROVE  PInv'
<1>0. ServerOK /\ HeadersOK /\ DataOK /\ JobOK /\ BoundsOK
  BY TypeParts DEF PInv
<1>1. PopTypeOK'
  <2>1. ServerOK'
    BY <1>0, PopAssumption DEF Fetch, Event, NoEntry, Job, server, headers, ServerOK
  <2>2. HeadersOK'
    BY <1>0, PopAssumption DEF Fetch, Event, NoEntry, Job, server, headers, HeadersOK
  <2>3. DataOK'
    <3>1. Slot(u) \in 0..(CacheLen - 1) /\ NoEntry \in Entry BY <1>0, SlotType, PopAssumption DEF NoEntry, Entry
    <3>. QED BY <1>0, <3>1 DEF Fetch, DataOK
  <2>4. JobOK'
    BY <1>0, PopAssumption DEF Fetch, Event, NoEntry, Job, server, headers, JobOK, Jobs
  <2>5. BoundsOK'
    BY <1>0, PopAssumption DEF Fetch, Event, NoEntry, Job, server, headers, BoundsOK
  <2>. QED BY <2>1, <2>2, <2>3, <2>4, <2>5 DEF PopTypeOK, ServerOK, HeadersOK, DataOK, JobOK, BoundsOK
<1>2. SessionInv'
  BY DEF PInv, Fetch, Event, NoEntry, Job, server, headers, SessionInv
<1>3. TodoInv'
  BY DEF PInv, Fetch, Event, NoEntry, Job, server, headers, TodoInv, SessionInv
<1>4. MarksInv'
  BY DEF PInv, Fetch, Event, NoEntry, Job, server, headers, MarksInv, SessionInv
<1>5. CacheInv'
  BY DEF PInv, Fetch, Event, NoEntry, Phase, Job, server, headers, CacheInv, Held, SessionInv
<1>6. NumbersVerified'
  BY DEF PInv, Fetch, Event, NoEntry, Job, server, headers, NumbersVerified, SessionInv
<1>. QED BY <1>1, <1>2, <1>3, <1>4, <1>5, <1>6 DEF PInv

(* A sync begins. *)
LEMMA SyncPInv ==
  ASSUME PInv, NEW b \in BOOLEAN, Sync(b)
  PROVE  PInv'
<1>0. ServerOK /\ HeadersOK /\ DataOK /\ JobOK /\ BoundsOK
  BY TypeParts DEF PInv
<1>1. PopTypeOK'
  <2>1. ServerOK'
    BY <1>0, PopAssumption DEF Sync, Undelete, Job, server, pop_data, ServerOK
  <2>2. HeadersOK'
    BY <1>0, PopAssumption DEF Sync, Undelete, Job, server, pop_data, HeadersOK
  <2>3. DataOK'
    BY <1>0, PopAssumption DEF Sync, Undelete, Job, server, pop_data, DataOK
  <2>4. JobOK'
    BY <1>0, PopAssumption DEF Sync, Undelete, Job, server, headers, pop_data, JobOK, Jobs
  <2>5. BoundsOK'
    BY <1>0, PopAssumption DEF Sync, Undelete, Job, server, pop_data, BoundsOK
  <2>. QED BY <2>1, <2>2, <2>3, <2>4, <2>5 DEF PopTypeOK, ServerOK, HeadersOK, DataOK, JobOK, BoundsOK
<1>2. SessionInv'
  BY DEF PInv, Sync, Undelete, Job, server, headers, pop_data, SessionInv
<1>3. TodoInv'
  BY DEF PInv, Sync, Undelete, Job, server, headers, pop_data, TodoInv, SessionInv
<1>4. MarksInv'
  BY DEF PInv, Sync, Undelete, Job, server, headers, pop_data, MarksInv, SessionInv
<1>5. CacheInv'
  BY DEF PInv, Sync, Undelete, Phase, Job, server, headers, pop_data, CacheInv, Held, SessionInv
<1>6. NumbersVerified'
  BY DEF PInv, Sync, Undelete, Job, server, headers, pop_data, NumbersVerified, SessionInv
<1>. QED BY <1>1, <1>2, <1>3, <1>4, <1>5, <1>6 DEF PInv

(* So does a sync before the mailbox is closed. *)
LEMMA ClosePInv ==
  ASSUME PInv, NEW b \in BOOLEAN, Close(b)
  PROVE  PInv'
<1>0. ServerOK /\ HeadersOK /\ DataOK /\ JobOK /\ BoundsOK
  BY TypeParts DEF PInv
<1>1. PopTypeOK'
  <2>1. ServerOK'
    BY <1>0, PopAssumption DEF Close, Undelete, Job, server, pop_data, ServerOK
  <2>2. HeadersOK'
    BY <1>0, PopAssumption DEF Close, Undelete, Job, server, pop_data, HeadersOK
  <2>3. DataOK'
    BY <1>0, PopAssumption DEF Close, Undelete, Job, server, pop_data, DataOK
  <2>4. JobOK'
    BY <1>0, PopAssumption DEF Close, Undelete, Job, server, headers, pop_data, JobOK, Jobs
  <2>5. BoundsOK'
    BY <1>0, PopAssumption DEF Close, Undelete, Job, server, pop_data, BoundsOK
  <2>. QED BY <2>1, <2>2, <2>3, <2>4, <2>5 DEF PopTypeOK, ServerOK, HeadersOK, DataOK, JobOK, BoundsOK
<1>2. SessionInv'
  BY DEF PInv, Close, Undelete, Job, server, headers, pop_data, SessionInv
<1>3. TodoInv'
  BY DEF PInv, Close, Undelete, Job, server, headers, pop_data, TodoInv, SessionInv
<1>4. MarksInv'
  BY DEF PInv, Close, Undelete, Job, server, headers, pop_data, MarksInv, SessionInv
<1>5. CacheInv'
  BY DEF PInv, Close, Undelete, Phase, Job, server, headers, pop_data, CacheInv, Held, SessionInv
<1>6. NumbersVerified'
  BY DEF PInv, Close, Undelete, Job, server, headers, pop_data, NumbersVerified, SessionInv
<1>. QED BY <1>1, <1>2, <1>3, <1>4, <1>5, <1>6 DEF PInv

(* QUIT removes what is marked; headers go and the cache is emptied. *)
LEMMA SyncQuitPInv ==
  ASSUME PInv, SyncQuit
  PROVE  PInv'
<1>0. ServerOK /\ HeadersOK /\ DataOK /\ JobOK /\ BoundsOK
  BY TypeParts DEF PInv
<1>1. PopTypeOK'
  <2>1. ServerOK'
    BY <1>0, PopAssumption DEF SyncQuit, Synced, Quit, Purge, Job, ServerOK
  <2>2. HeadersOK'
    BY <1>0, PopAssumption DEF SyncQuit, Synced, Quit, Purge, Job, HeadersOK, NoContext
  <2>3. DataOK'
    BY <1>0, NoCacheType DEF SyncQuit, Purge, DataOK
  <2>4. JobOK'
    BY <1>0, PopAssumption DEF SyncQuit, Synced, Quit, Purge, Job, headers, JobOK, Jobs
  <2>5. BoundsOK'
    BY <1>0, PopAssumption DEF SyncQuit, Synced, Quit, Purge, Job, BoundsOK
  <2>. QED BY <2>1, <2>2, <2>3, <2>4, <2>5 DEF PopTypeOK, ServerOK, HeadersOK, DataOK, JobOK, BoundsOK
<1>2. SessionInv'
  BY DEF PInv, SyncQuit, Synced, Quit, Purge, Job, headers, SessionInv
<1>3. TodoInv'
  BY DEF PInv, SyncQuit, Synced, Quit, Purge, Job, headers, TodoInv, SessionInv
<1>4. MarksInv'
  BY DEF PInv, SyncQuit, Synced, Quit, Purge, Job, headers, MarksInv, SessionInv
<1>5. CacheInv'
  <2>1. cache' = NoCache /\ job'.op \in {"none", "idle"} BY DEF SyncQuit, Purge, Job
  <2>. QED BY <2>1, NoCacheHeld DEF CacheInv
<1>6. NumbersVerified'
  BY DEF PInv, SyncQuit, Synced, Quit, Purge, Job, headers, NumbersVerified, SessionInv
<1>. QED BY <1>1, <1>2, <1>3, <1>4, <1>5, <1>6 DEF PInv

(* QUIT is carried out, but the sync begins again. *)
LEMMA SyncQuitLostPInv ==
  ASSUME PInv, SyncQuitLost
  PROVE  PInv'
<1>0. ServerOK /\ HeadersOK /\ DataOK /\ JobOK /\ BoundsOK
  BY TypeParts DEF PInv
<1>1. PopTypeOK'
  <2>1. ServerOK'
    BY <1>0, PopAssumption DEF SyncQuitLost, Synced, Quit, Lost, headers, ServerOK
  <2>2. HeadersOK'
    BY <1>0, PopAssumption DEF SyncQuitLost, Synced, Quit, Lost, headers, HeadersOK
  <2>3. DataOK'
    BY <1>0, PopAssumption DEF SyncQuitLost, Synced, Quit, Lost, headers, DataOK
  <2>4. JobOK'
    BY <1>0, PopAssumption DEF SyncQuitLost, Synced, Quit, Lost, headers, JobOK, Jobs
  <2>5. BoundsOK'
    BY <1>0, PopAssumption DEF SyncQuitLost, Synced, Quit, Lost, headers, BoundsOK
  <2>. QED BY <2>1, <2>2, <2>3, <2>4, <2>5 DEF PopTypeOK, ServerOK, HeadersOK, DataOK, JobOK, BoundsOK
<1>2. SessionInv'
  BY DEF PInv, SyncQuitLost, Synced, Quit, Lost, headers, SessionInv
<1>3. TodoInv'
  BY DEF PInv, SyncQuitLost, Synced, Quit, Lost, headers, TodoInv, SessionInv
<1>4. MarksInv'
  BY DEF PInv, SyncQuitLost, Synced, Quit, Lost, headers, MarksInv, SessionInv
<1>5. CacheInv'
  BY DEF PInv, SyncQuitLost, Synced, Quit, Lost, Phase, headers, CacheInv, Held, SessionInv
<1>6. NumbersVerified'
  BY DEF PInv, SyncQuitLost, Synced, Quit, Lost, headers, NumbersVerified, SessionInv
<1>. QED BY <1>1, <1>2, <1>3, <1>4, <1>5, <1>6 DEF PInv

(* The session is lost before QUIT. *)
LEMMA SyncLostPInv ==
  ASSUME PInv, SyncLost
  PROVE  PInv'
<1>1. PopTypeOK'
  BY PopAssumption DEF PInv, SyncLost, Synced, Lost, server, headers, PopTypeOK, Jobs
<1>2. SessionInv'
  BY DEF PInv, SyncLost, Synced, Lost, server, headers, SessionInv
<1>3. TodoInv'
  BY DEF PInv, SyncLost, Synced, Lost, server, headers, TodoInv, SessionInv
<1>4. MarksInv'
  BY DEF PInv, SyncLost, Synced, Lost, server, headers, MarksInv, SessionInv
<1>5. CacheInv'
  BY DEF PInv, SyncLost, Synced, Lost, Phase, server, headers, CacheInv, Held, SessionInv
<1>6. NumbersVerified'
  BY DEF PInv, SyncLost, Synced, Lost, server, headers, NumbersVerified, SessionInv
<1>. QED BY <1>1, <1>2, <1>3, <1>4, <1>5, <1>6 DEF PInv

(* The mailbox is left. *)
LEMMA ExitPInv ==
  ASSUME PInv, Exit
  PROVE  PInv'
<1>0. ServerOK /\ HeadersOK /\ DataOK /\ JobOK /\ BoundsOK
  BY TypeParts DEF PInv
<1>1. PopTypeOK'
  <2>1. ServerOK'
    BY <1>0, PopAssumption DEF Exit, Logout, Quit, Fastclose, Job, ServerOK
  <2>2. HeadersOK'
    BY <1>0, PopAssumption DEF Exit, Logout, Quit, Fastclose, Job, HeadersOK, NoContext
  <2>3. DataOK'
    BY <1>0, NoCacheType DEF Exit, Fastclose, Logout, DataOK
  <2>4. JobOK'
    BY <1>0, PopAssumption DEF Exit, Logout, Quit, Fastclose, Job, headers, JobOK, Jobs
  <2>5. BoundsOK'
    BY <1>0, PopAssumption DEF Exit, Logout, Quit, Fastclose, Job, BoundsOK
  <2>. QED BY <2>1, <2>2, <2>3, <2>4, <2>5 DEF PopTypeOK, ServerOK, HeadersOK, DataOK, JobOK, BoundsOK
<1>2. SessionInv'
  BY DEF PInv, Exit, Logout, Quit, Fastclose, Job, headers, SessionInv
<1>3. TodoInv'
  BY DEF PInv, Exit, Logout, Quit, Fastclose, Job, headers, TodoInv, SessionInv
<1>4. MarksInv'
  BY DEF PInv, Exit, Logout, Quit, Fastclose, Job, headers, MarksInv, SessionInv
<1>5. CacheInv'
  <2>1. cache' = NoCache /\ job'.op \in {"none", "idle"} BY DEF Exit, Fastclose, Logout, Job
  <2>. QED BY <2>1, NoCacheHeld DEF CacheInv
<1>6. NumbersVerified'
  BY DEF PInv, Exit, Logout, Quit, Fastclose, Job, headers, NumbersVerified, SessionInv
<1>. QED BY <1>1, <1>2, <1>3, <1>4, <1>5, <1>6 DEF PInv

(* pop_fetch_mail() begins a session of its own. *)
LEMMA GetPInv ==
  ASSUME PInv, NEW b \in BOOLEAN, NEW n \in 0..MaxUid, Get(b, n)
  PROVE  PInv'
<1>0. ServerOK /\ HeadersOK /\ DataOK /\ JobOK /\ BoundsOK
  BY TypeParts DEF PInv
<1>1. PopTypeOK'
  <2>1. ServerOK'
    BY <1>0, PopAssumption DEF Get, Login, Event, Job, headers, pop_data, ServerOK
  <2>2. HeadersOK'
    BY <1>0, PopAssumption DEF Get, Login, Event, Job, headers, pop_data, HeadersOK
  <2>3. DataOK'
    BY <1>0, PopAssumption DEF Get, Login, Event, Job, headers, pop_data, DataOK
  <2>4. JobOK'
    <3>1. drop \ Lines(drop, n) \in SUBSET Uids BY <1>0 DEF ServerOK
    <3>. QED BY <3>1 DEF Get, Job, JobOK, Jobs
  <2>5. BoundsOK'
    BY <1>0, PopAssumption DEF Get, Login, Event, Job, headers, pop_data, BoundsOK
  <2>. QED BY <2>1, <2>2, <2>3, <2>4, <2>5 DEF PopTypeOK, ServerOK, HeadersOK, DataOK, JobOK, BoundsOK
<1>2. SessionInv'
  BY DEF PInv, Get, Login, Event, Job, headers, pop_data, SessionInv
<1>3. TodoInv'
  BY DEF PInv, Get, Login, Event, Job, headers, pop_data, TodoInv, SessionInv
<1>4. MarksInv'
  BY DEF PInv, Get, Login, Event, Job, headers, pop_data, MarksInv, SessionInv
<1>5. CacheInv'
  BY DEF PInv, Get, Login, Event, Phase, Job, headers, pop_data, CacheInv, Held, SessionInv
<1>6. NumbersVerified'
  BY DEF PInv, Get, Login, Event, Job, headers, pop_data, NumbersVerified, SessionInv
<1>. QED BY <1>1, <1>2, <1>3, <1>4, <1>5, <1>6 DEF PInv

(* It saves a message before it marks it. *)
LEMMA GetMessagePInv ==
  ASSUME PInv, GetMessage
  PROVE  PInv'
<1>0. ServerOK /\ HeadersOK /\ DataOK /\ JobOK /\ BoundsOK
  BY TypeParts DEF PInv
<1>a. NextToGet \in job.todo /\ job.todo \subseteq Uids
  <2>1. job.todo \in SUBSET Uids /\ job.todo # {} /\ refno \in [Uids -> Nat]
    BY <1>0, PopAssumption DEF GetMessage, JobOK, Jobs, HeadersOK
  <2>. QED BY <2>1, NextOfRest DEF NextToGet
<1>1. PopTypeOK'
  <2>1. ServerOK'
    BY <1>0, <1>a DEF GetMessage, Phase, PInv, TodoInv, ServerOK
  <2>2. HeadersOK'
    BY <1>0, PopAssumption DEF GetMessage, Phase, headers, pop_data, HeadersOK
  <2>3. DataOK'
    BY <1>0, PopAssumption DEF GetMessage, Phase, headers, pop_data, DataOK
  <2>4. JobOK'
    BY <1>0, PopAssumption DEF GetMessage, Phase, headers, pop_data, JobOK, Jobs
  <2>5. BoundsOK'
    BY <1>0, <1>a DEF GetMessage, BoundsOK
  <2>. QED BY <2>1, <2>2, <2>3, <2>4, <2>5 DEF PopTypeOK, ServerOK, HeadersOK, DataOK, JobOK, BoundsOK
<1>2. SessionInv'
  BY DEF PInv, GetMessage, Phase, headers, pop_data, SessionInv
<1>3. TodoInv'
  BY DEF PInv, GetMessage, Phase, headers, pop_data, TodoInv, SessionInv
<1>4. MarksInv'
  BY DEF PInv, GetMessage, Phase, headers, pop_data, MarksInv, SessionInv
<1>5. CacheInv'
  BY DEF PInv, GetMessage, Phase, headers, pop_data, CacheInv, Held, SessionInv
<1>6. NumbersVerified'
  BY DEF PInv, GetMessage, Phase, headers, pop_data, NumbersVerified, SessionInv
<1>. QED BY <1>1, <1>2, <1>3, <1>4, <1>5, <1>6 DEF PInv

(* The spool file cannot be written. *)
LEMMA GetFailsPInv ==
  ASSUME PInv, NEW b \in BOOLEAN, GetFails(b)
  PROVE  PInv'
<1>1. PopTypeOK'
  BY PopAssumption DEF PInv, GetFails, Phase, server, headers, pop_data, PopTypeOK, Jobs
<1>2. SessionInv'
  BY DEF PInv, GetFails, Phase, server, headers, pop_data, SessionInv
<1>3. TodoInv'
  BY DEF PInv, GetFails, Phase, server, headers, pop_data, TodoInv, SessionInv
<1>4. MarksInv'
  BY DEF PInv, GetFails, Phase, server, headers, pop_data, MarksInv, SessionInv
<1>5. CacheInv'
  BY DEF PInv, GetFails, Phase, server, headers, pop_data, CacheInv, Held, SessionInv
<1>6. NumbersVerified'
  BY DEF PInv, GetFails, Phase, server, headers, pop_data, NumbersVerified, SessionInv
<1>. QED BY <1>1, <1>2, <1>3, <1>4, <1>5, <1>6 DEF PInv

(* Its QUIT removes what it has saved. *)
LEMMA GetEndPInv ==
  ASSUME PInv, GetEnd
  PROVE  PInv'
<1>1. PopTypeOK'
  BY PopAssumption DEF PInv, GetEnd, Job, headers, pop_data, PopTypeOK, Jobs
<1>2. SessionInv'
  BY DEF PInv, GetEnd, Job, headers, pop_data, SessionInv
<1>3. TodoInv'
  BY DEF PInv, GetEnd, Job, headers, pop_data, TodoInv, SessionInv
<1>4. MarksInv'
  BY DEF PInv, GetEnd, Job, headers, pop_data, MarksInv, SessionInv
<1>5. CacheInv'
  BY DEF PInv, GetEnd, Phase, Job, headers, pop_data, CacheInv, Held, SessionInv
<1>6. NumbersVerified'
  BY DEF PInv, GetEnd, Job, headers, pop_data, NumbersVerified, SessionInv
<1>. QED BY <1>1, <1>2, <1>3, <1>4, <1>5, <1>6 DEF PInv

(* Its session is lost. *)
LEMMA GetLostPInv ==
  ASSUME PInv, GetLost
  PROVE  PInv'
<1>1. PopTypeOK'
  BY PopAssumption DEF PInv, GetLost, Job, server, headers, pop_data, PopTypeOK, Jobs
<1>2. SessionInv'
  BY DEF PInv, GetLost, Job, server, headers, pop_data, SessionInv
<1>3. TodoInv'
  BY DEF PInv, GetLost, Job, server, headers, pop_data, TodoInv, SessionInv
<1>4. MarksInv'
  BY DEF PInv, GetLost, Job, server, headers, pop_data, MarksInv, SessionInv
<1>5. CacheInv'
  BY DEF PInv, GetLost, Phase, Job, server, headers, pop_data, CacheInv, Held, SessionInv
<1>6. NumbersVerified'
  BY DEF PInv, GetLost, Job, server, headers, pop_data, NumbersVerified, SessionInv
<1>. QED BY <1>1, <1>2, <1>3, <1>4, <1>5, <1>6 DEF PInv

(* RETR names the message of the header. *)
LEMMA RetrPInv ==
  ASSUME PInv, NEW u \in Uids, Retr(u)
  PROVE  PInv'
<1>0. ServerOK /\ HeadersOK /\ DataOK /\ JobOK /\ BoundsOK /\ SessionInv
  BY TypeParts DEF PInv
<1>1. /\ job.op = "fetch" /\ job.phase = "retr" /\ u \in job.todo /\ u \in hdrs
      /\ UNCHANGED <<server, headers, clear, spool, events, losses, refused>>
  BY DEF Retr, Phase, PInv, TodoInv
<1>2. CASE /\ cache' \in {cache, [cache EXCEPT ![Slot(u)] = [index |-> index[u], uid |-> u]]}
           /\ Idle /\ connected' = connected
  <2>1. Slot(u) \in 0..(CacheLen - 1) /\ index[u] \in 0..MaxUid BY <1>0, SlotType DEF HeadersOK
  <2> DEFINE e == [index |-> index[u], uid |-> u]
  <2>2. e \in Entry /\ e.index = index[u] /\ e.uid = u BY <2>1, PopAssumption DEF Entry, Uids
  <2>3. cache' \in {cache, [cache EXCEPT ![Slot(u)] = e]} BY <1>2
  <2> HIDE DEF e
  <2>4. DataOK' BY <1>0, <1>1, <1>2, <2>1, <2>2, <2>3 DEF DataOK
  <2>5. PopTypeOK'
    BY <1>0, <1>1, <1>2, <2>4 DEF PopTypeOK, ServerOK, HeadersOK, DataOK, JobOK, BoundsOK, Idle, Job, Jobs,
                                server, headers
  <2>6. Held'
    <3>1. Held BY <1>1 DEF PInv, CacheInv, Phase
    <3>. QED BY <1>0, <1>1, <2>1, <2>2, <2>3, <3>1 DEF Held, DataOK, headers
  <2>7. SessionInv' /\ TodoInv' /\ MarksInv' /\ CacheInv' /\ NumbersVerified'
    BY <1>0, <1>1, <1>2, <2>6 DEF PInv, SessionInv, TodoInv, MarksInv, CacheInv, NumbersVerified, Idle, Job,
                                server, headers
  <2>. QED BY <2>5, <2>7 DEF PInv
<1>3. CASE ~alive /\ Lost /\ UNCHANGED cache
  <2>1. PopTypeOK'
    BY <1>0, <1>1, <1>3 DEF PopTypeOK, ServerOK, HeadersOK, DataOK, JobOK, BoundsOK, Lost, Jobs, server, headers
  <2>2. job'.op = "fetch" /\ job'.phase = "reconnect" /\ job'.todo = job.todo
    BY <1>0, <1>1, <1>3 DEF Lost, JobOK, Jobs
  <2>3. SessionInv' /\ TodoInv' /\ MarksInv' /\ NumbersVerified'
    BY <1>0, <1>1, <1>3, <2>2 DEF PInv, SessionInv, TodoInv, MarksInv, NumbersVerified, Lost, server, headers
  <2>4. CacheInv' BY <1>1, <1>3, <2>2 DEF PInv, CacheInv, Held, Phase, headers
  <2>. QED BY <2>1, <2>3, <2>4 DEF PInv
<1>4. \/ ~alive /\ Lost /\ UNCHANGED cache
      \/ /\ cache' \in {cache, [cache EXCEPT ![Slot(u)] = [index |-> index[u], uid |-> u]]}
         /\ Idle /\ connected' = connected
  <2>1. CASE refno[u] # 0 /\ ~alive /\ Lost /\ UNCHANGED cache BY <2>1
  <2>2. CASE /\ refno[u] = 0 \/ alive
             /\ cache' = IF Valid(refno[u])
                         THEN [cache EXCEPT ![Slot(u)] = [index |-> index[u], uid |-> Named(refno[u])]]
                         ELSE cache
             /\ Idle /\ UNCHANGED connected
    <3>1. CASE ~Valid(refno[u]) BY <2>2, <3>1
    <3>2. CASE Valid(refno[u])
      <4>1. refno[u] # 0 BY <3>2 DEF Valid
      <4>2. refno[u] = Number(session, Cardinality(session), u)
        BY <1>0, <1>1, <2>2, <4>1 DEF PInv, NumbersVerified, SessionInv
      <4>3. Named(refno[u]) = u BY <1>0, <4>1, <4>2, NumberNames DEF ServerOK
      <4>. QED BY <2>2, <3>2, <4>3
    <3>. QED BY <3>1, <3>2
  <2>. QED BY <2>1, <2>2 DEF Retr
<1>. QED BY <1>2, <1>3, <1>4

(* DELE marks the message of the header. *)
LEMMA DelePInv ==
  ASSUME PInv, NEW u \in Uids, Dele(u)
  PROVE  PInv'
<1>0. ServerOK /\ HeadersOK /\ DataOK /\ JobOK /\ BoundsOK /\ SessionInv
  BY TypeParts DEF PInv
<1>1. /\ job.op \in {"sync", "close"} /\ job.phase = "dele" /\ u \in job.todo /\ u \in deleted /\ u \in hdrs
      /\ UNCHANGED <<drop, arrived, session, alive, headers, cache, clear, spool, events, losses>>
  BY <1>0 DEF Dele, PInv, TodoInv, HeadersOK
<1>2. CASE /\ alive /\ Valid(refno[u])
           /\ marks' = marks \cup {Named(refno[u])}
           /\ job' = [job EXCEPT !.todo = @ \ {u}]
           /\ UNCHANGED <<connected, refused>>
  <2>1. refno[u] # 0 BY <1>2 DEF Valid
  <2>2. refno[u] = Number(session, Cardinality(session), u)
    BY <1>0, <1>1, <1>2 DEF PInv, NumbersVerified, SessionInv
  <2>3. Named(refno[u]) = u /\ u \in session BY <1>0, <2>1, <2>2, NumberNames DEF ServerOK
  <2>4. marks' = marks \cup {u} BY <1>2, <2>3
  <2>5. job' \in Jobs /\ job'.op = job.op /\ job'.phase = "dele" /\ job'.todo = job.todo \ {u}
    BY <1>0, <1>1, <1>2 DEF JobOK, Jobs
  <2>6. PopTypeOK'
    BY <1>0, <1>1, <1>2, <2>3, <2>4, <2>5 DEF PopTypeOK, ServerOK, HeadersOK, DataOK, JobOK, BoundsOK, headers
  <2>7. SessionInv' BY <1>0, <1>1, <1>2, <2>5 DEF SessionInv
  <2>8. TodoInv' BY <1>1, <1>2, <2>4, <2>5 DEF PInv, TodoInv, headers
  <2>9. MarksInv' BY <1>1, <1>2, <2>4, <2>5 DEF PInv, MarksInv, headers
  <2>10. CacheInv' BY <1>1, <2>5 DEF PInv, CacheInv, Held, Phase, headers
  <2>11. NumbersVerified' BY <1>1, <1>2, <2>5 DEF PInv, NumbersVerified, headers
  <2>. QED BY <2>6, <2>7, <2>8, <2>9, <2>10, <2>11 DEF PInv
<1>3. CASE alive /\ Idle /\ refused' = marks /\ UNCHANGED <<marks, connected>>
  <2>1. job' \in Jobs /\ job'.op = "idle" /\ job'.phase = "-" BY <1>3 DEF Idle, Job, Jobs
  <2>2. PopTypeOK'
    BY <1>0, <1>1, <1>3, <2>1 DEF PopTypeOK, ServerOK, HeadersOK, DataOK, JobOK, BoundsOK, headers
  <2>3. SessionInv' /\ TodoInv' /\ MarksInv'
    BY <1>0, <1>1, <1>3, <2>1 DEF SessionInv, TodoInv, MarksInv
  <2>4. CacheInv' BY <1>1, <2>1 DEF PInv, CacheInv, Held, Phase, headers
  <2>5. NumbersVerified' BY <1>1, <1>3, <2>1 DEF PInv, NumbersVerified, headers
  <2>. QED BY <2>2, <2>3, <2>4, <2>5 DEF PInv
<1>4. CASE ~alive /\ Lost /\ UNCHANGED <<marks, refused>>
  <2>1. job' \in Jobs /\ job'.op = job.op /\ job'.phase = "reconnect" /\ job'.todo = job.todo
    BY <1>0, <1>4 DEF Lost, JobOK, Jobs
  <2>2. PopTypeOK'
    BY <1>0, <1>1, <1>4, <2>1 DEF PopTypeOK, ServerOK, HeadersOK, DataOK, JobOK, BoundsOK, Lost, headers
  <2>3. SessionInv' /\ TodoInv' /\ MarksInv' /\ NumbersVerified'
    BY <1>0, <1>1, <1>4, <2>1 DEF SessionInv, TodoInv, MarksInv, NumbersVerified, Lost
  <2>4. CacheInv' BY <1>1, <1>4, <2>1 DEF PInv, CacheInv, Held, Phase, headers
  <2>. QED BY <2>2, <2>3, <2>4 DEF PInv
<1>5. \/ /\ alive /\ Valid(refno[u])
         /\ marks' = marks \cup {Named(refno[u])}
         /\ job' = [job EXCEPT !.todo = @ \ {u}]
         /\ UNCHANGED <<connected, refused>>
      \/ alive /\ Idle /\ refused' = marks /\ UNCHANGED <<marks, connected>>
      \/ ~alive /\ Lost /\ UNCHANGED <<marks, refused>>
  BY DEF Dele, DeleNumber
<1>. QED BY <1>2, <1>3, <1>4, <1>5

-----------------------------------------------------------------------------
(* What muttng does by itself keeps the invariant. *)
LEMMA StepPInv == ASSUME PInv, Step PROVE PInv'
<1>1. CASE \E n \in 0..MaxUid : UidlLost(n) BY <1>1, UidlLostPInv
<1>2. CASE \E u \in Uids : Retr(u) \/ Dele(u) BY <1>2, RetrPInv, DelePInv
<1>3. CASE \/ StillConnected \/ Reconnect \/ Uidl \/ ReadHeader \/ HeadersRead \/ HeadersLost
           \/ CheckLogout \/ CheckConnect \/ SyncQuit \/ SyncLost
           \/ GetMessage \/ GetEnd \/ GetLost
  BY <1>3, StillConnectedPInv, ReconnectPInv, UidlPInv, ReadHeaderPInv, HeadersReadPInv, HeadersLostPInv,
     CheckLogoutPInv, CheckConnectPInv, SyncQuitPInv, SyncLostPInv, GetMessagePInv, GetEndPInv, GetLostPInv
<1>. QED BY <1>1, <1>2, <1>3 DEF Step

(* Every step does. *)
LEMMA NextPInv == PInv /\ [Next]_vars => PInv'
<1> SUFFICES ASSUME PInv, [Next]_vars PROVE PInv'
  OBVIOUS
<1>1. CASE Step BY <1>1, StepPInv
<1>2. CASE Arrive \/ Hangup \/ CheckFails \/ SyncQuitLost \/ OpenMailbox \/ Check \/ Flag \/ Exit
  BY <1>2, ArrivePInv, HangupPInv, CheckFailsPInv, SyncQuitLostPInv, OpenMailboxPInv, CheckPInv, FlagPInv, ExitPInv
<1>3. CASE \E u \in Uids : OtherRemove(u) \/ Toggle(u) \/ Fetch(u)
  BY <1>3, OtherRemovePInv, TogglePInv, FetchPInv
<1>4. CASE \E n \in 0..MaxUid : ReconnectFails(n) BY <1>4, ReconnectFailsPInv
<1>5. CASE \E b \in BOOLEAN : Sync(b) \/ Close(b) \/ GetFails(b) \/ \E n \in 0..MaxUid : Get(b, n)
  BY <1>5, SyncPInv, ClosePInv, GetFailsPInv, GetPInv
<1>6. CASE UNCHANGED vars
  BY <1>6 DEF vars, server, headers, pop_data, PInv, PopTypeOK, SessionInv, TodoInv, MarksInv, CacheInv, Held,
              NumbersVerified, Phase
<1>. QED BY <1>1, <1>2, <1>3, <1>4, <1>5, <1>6 DEF Next

(* At the beginning there is no session. *)
LEMMA InitPInv == Init => PInv
<1> SUFFICES ASSUME Init PROVE PInv
  OBVIOUS
<1>1. Job("none", "-") \in Jobs BY DEF Job, Jobs
<1>2. drop \subseteq Uids /\ arrived \in 0..MaxUid BY PopAssumption DEF Init, Uids
<1>3. PopTypeOK
  <2>1. ServerOK BY <1>2 DEF Init, ServerOK
  <2>2. NoContext \in [changed : BOOLEAN, deleted : Int] BY DEF NoContext
  <2>3. HeadersOK BY <2>2, PopAssumption DEF Init, HeadersOK
  <2>4. DataOK BY NoCacheType DEF Init, DataOK
  <2>5. BoundsOK BY PopAssumption DEF Init, BoundsOK
  <2>6. JobOK BY <1>1 DEF Init, JobOK
  <2>. QED BY <2>1, <2>3, <2>4, <2>5, <2>6, TypeParts
<1>4. SessionInv /\ TodoInv /\ MarksInv /\ NumbersVerified
  BY DEF Init, Job, SessionInv, TodoInv, MarksInv, NumbersVerified
<1>5. CacheInv BY NoCacheType DEF Init, CacheInv, Held
<1>. QED BY <1>3, <1>4, <1>5 DEF PInv

(* The invariant holds in every behaviour. *)
LEMMA SpecPInv == Spec => []PInv
  BY InitPInv, NextPInv, PTL DEF Spec

(* The type of all variables, in whatever order sessions end and begin. *)
THEOREM PopTypeCorrect == Spec => []PopTypeOK
  BY SpecPInv, PTL DEF PInv

(* Whatever connections were lost and whatever other programs removed, the   *)
(* numbers that DELE and RETR name in a session are those of the headers'    *)
(* messages: pop_reconnect() has asked for all of them by UIDL.              *)
THEOREM NumbersAlwaysVerified == Spec => []NumbersVerified
  BY SpecPInv, PTL DEF PInv

(* The cache of message texts never shows one message for another, but for   *)
(* two headers with one index.                                               *)
THEOREM CacheAlwaysRight == Spec => []CacheRight
<1>1. PInv => CacheRight
  <2> SUFFICES ASSUME PInv, job.op = "idle", NEW u \in hdrs, Cached(u),
                      \A v \in hdrs : index[v] = index[u] => v = u
               PROVE  cache[Slot(u)].uid = u
    BY DEF CacheRight
  <2>1. ServerOK /\ HeadersOK /\ DataOK BY TypeParts DEF PInv
  <2>2. Slot(u) \in DOMAIN cache /\ index[u] \in 0..MaxUid BY <2>1, SlotType DEF HeadersOK, DataOK
  <2>3. cache[Slot(u)].index = index[u] /\ index[u] # -1 BY <2>2 DEF Cached
  <2>4. Held BY DEF PInv, CacheInv, Phase
  <2>. QED BY <2>2, <2>3, <2>4 DEF Held
<1>. QED BY <1>1, SpecPInv, PTL

(* muttng removes only messages that the user has deleted, that it has saved *)
(* in the spool file, or that a sync had marked before it failed: a mark is  *)
(* never made for another message, however often DELE is repeated.           *)
THEOREM OnlyDeletedAreGone == Spec => OnlyDeletedGone
<1>1. PInv /\ [Next]_vars =>
        [\A u \in drop \ drop' : OtherRemove(u) \/ u \in deleted \cup spool \cup refused]_vars
  <2> SUFFICES ASSUME PInv, Next, NEW u \in drop \ drop', ~OtherRemove(u)
               PROVE  u \in deleted \cup spool \cup refused
    OBVIOUS
  <2>1. u \in marks
    BY DEF Next, Step, StillConnected, Reconnect, Uidl, ReadHeader, HeadersRead, HeadersLost, CheckLogout,
           CheckConnect, SyncQuit, SyncLost, GetMessage, GetEnd, GetLost, UidlLost, Retr, Dele, Arrive, Hangup,
           CheckFails, SyncQuitLost, OtherRemove, Toggle, Fetch, ReconnectFails, OpenMailbox, Check, Flag, Exit,
           Sync, Close, GetFails, Get, Quit, Logout, server
  <2>. QED BY <2>1 DEF PInv, MarksInv
<1>. QED BY <1>1, SpecPInv, PTL DEF Spec, OnlyDeletedGone

(* A header that a sync drops stands for a message that is off the server:   *)
(* after every reconnection DELE is sent for all deleted messages again.     *)
THEOREM SyncIsDone == Spec => SyncDone
<1>1. PInv /\ [Next]_vars =>
        [job.op = "sync" /\ job'.op = "idle" => (hdrs \ hdrs') \cap drop' = {}]_vars
  <2> SUFFICES ASSUME PInv, Next, job.op = "sync", job'.op = "idle"
               PROVE  (hdrs \ hdrs') \cap drop' = {}
    OBVIOUS
  <2>1. CASE SyncQuit
    <3>1. deleted \subseteq marks BY <2>1 DEF SyncQuit, Synced, PInv, TodoInv
    <3>. QED BY <2>1, <3>1 DEF SyncQuit, Quit, Purge
  <2>2. CASE ~SyncQuit
    <3>1. hdrs \subseteq hdrs'
      BY <2>2 DEF Next, Step, StillConnected, Reconnect, Uidl, ReadHeader, HeadersRead, HeadersLost, CheckLogout,
           CheckConnect, SyncLost, GetMessage, GetEnd, GetLost, UidlLost, Retr, Dele, Arrive, Hangup,
           CheckFails, SyncQuitLost, OtherRemove, Toggle, Fetch, ReconnectFails, GiveUp, OpenMailbox, Check, Flag,
           Exit, Sync, Close, Undelete, GetFails, Get, headers
    <3>. QED BY <3>1
  <2>. QED BY <2>1, <2>2
<1>. QED BY <1>1, SpecPInv, PTL DEF Spec, SyncDone
=============================================================================
