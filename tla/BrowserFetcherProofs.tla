------------------------ MODULE BrowserFetcherProofs ------------------------
(***************************************************************************)
(* Theorems about BrowserFetcher, for any calls, concurrency and number of *)
(* crashes.                                                                *)
(***************************************************************************)
EXTENDS BrowserFetcher, FiniteSetTheorems, TLAPS

USE DEF Starting, Holding, Locations, Outcomes

Actors == Calls \cup {Lifespan}

In(q, c) == \E i \in 1..Len(q) : q[i] = c

Locked == {"lock"} \cup Starting

-----------------------------------------------------------------------------
(* The inductive invariant.                                                *)

(* A call that wants the lock or a permit is in the queue for it, and one  *)
(* that does the work of start is at the head.                             *)
QueueInv ==
  /\ \A c \in Calls : at[c] \in Locked => In(starters, c)
  /\ \A c \in Calls : at[c] = "queue" => In(waiting, c)
  /\ \A c \in Calls : at[c] \in Starting => Turn(c)

(* While a call does the work of start nothing is connected.  A browser    *)
(* that _browser names is connected or has crashed, until the process is   *)
(* shut down, which happens when no call is under way.                     *)
BrowserInv ==
  /\ OneBrowser
  /\ NeverPulled
  /\ \A c \in Calls :
       /\ at[c] \in Starting => running = {}
       /\ at[c] \in Starting \ {"closing"} => browser = 0
  /\ at[Lifespan] = "away" => browser = 0 \/ browser \in running \cup crashed
  /\ at[Lifespan] # "away" => \A c \in Calls : at[c] \in {"away", "ended"}

IInv == TypeOK /\ QueueInv /\ BrowserInv /\ PermitsKept

-----------------------------------------------------------------------------
(* Queues.                                                                 *)

LEMMA Appending ==
  ASSUME NEW q \in Seq(Calls), NEW c \in Calls
  PROVE  /\ Append(q, c) \in Seq(Calls)
         /\ In(Append(q, c), c)
         /\ \A d : In(q, d) => In(Append(q, c), d)
         /\ q # <<>> => Head(Append(q, c)) = Head(q)
<1> DEFINE r == Append(q, c)
<1>1. /\ r \in Seq(Calls) /\ Len(r) = Len(q) + 1 /\ r[Len(q) + 1] = c
      /\ Len(q) \in Nat
      /\ \A i \in 1..Len(q) : r[i] = q[i]
  OBVIOUS
<1>2. Len(q) + 1 \in 1..Len(r) /\ \A i \in 1..Len(q) : i \in 1..Len(r)
  BY <1>1
<1>3. q # <<>> => Head(r) = Head(q)
  OBVIOUS
<1> QED BY <1>1, <1>2, <1>3 DEF In

LEMMA Taking ==
  ASSUME NEW q \in Seq(Calls), q # <<>>
  PROVE  /\ Tail(q) \in Seq(Calls)
         /\ \A d : d # Head(q) /\ In(q, d) => In(Tail(q), d)
<1>1. Tail(q) \in Seq(Calls) /\ Len(Tail(q)) = Len(q) - 1 /\ Len(q) \in Nat
  OBVIOUS
<1>2. ASSUME NEW d, d # Head(q), NEW i \in 1..Len(q), q[i] = d
      PROVE  In(Tail(q), d)
  <2>1. i # 1
    BY <1>2
  <2>2. i - 1 \in 1..Len(Tail(q))
    BY <2>1, <1>1
  <2>3. Tail(q)[i - 1] = q[i]
    BY <2>2, <1>1
  <2> QED BY <1>2, <2>2, <2>3 DEF In
<1> QED BY <1>1, <1>2 DEF In

LEMMA Member ==
  ASSUME NEW q \in Seq(Calls), NEW c, In(q, c)
  PROVE  q # <<>>
BY DEF In

(* What the queues of a call that waits in them are.                       *)
LEMMA Queues ==
  ASSUME TypeOK, QueueInv, NEW c \in Calls
  PROVE  /\ starters \in Seq(Calls) /\ waiting \in Seq(Calls)
         /\ at[c] \in Locked => starters # <<>>
         /\ at[c] = "queue" => waiting # <<>>
BY Member DEF TypeOK, QueueInv

-----------------------------------------------------------------------------
(* How the moves of one call treat the queues.                             *)

(* The queue for the lock as a call moves from where it is to l.           *)
LockKept(c, l) ==
  /\ starters' = starters
  /\ l \in Locked => at[c] \in Locked
  /\ l \in Starting => at[c] \in Starting \/ Turn(c)

LockLeft(c, l) == starters' = Tail(starters) /\ at[c] \in Locked /\ Turn(c) /\ l \notin Locked

LockAsked(c, l) == starters' = Append(starters, c) /\ at[c] \notin Locked /\ l = "lock"

(* The queue for a permit.                                                 *)
PermitKept(c, l) == waiting' = waiting /\ (l = "queue" => at[c] = "queue")

PermitLeft(c, l) == waiting' = Tail(waiting) /\ at[c] = "queue" /\ Head(waiting) = c /\ l # "queue"

PermitAsked(c, l) == waiting' = Append(waiting, c) /\ l = "queue"

LEMMA QueueMove ==
  ASSUME TypeOK, QueueInv, NEW c \in Calls, NEW l \in Locations, Goto(c, l),
         LockKept(c, l) \/ LockLeft(c, l) \/ LockAsked(c, l),
         PermitKept(c, l) \/ PermitLeft(c, l) \/ PermitAsked(c, l)
  PROVE  QueueInv' /\ starters' \in Seq(Calls) /\ waiting' \in Seq(Calls)
<1>1. \A d \in Calls : at'[d] = IF d = c THEN l ELSE at[d]
  BY DEF TypeOK, Goto
<1>2. starters \in Seq(Calls) /\ waiting \in Seq(Calls)
  BY DEF TypeOK
<1>3. /\ starters' \in Seq(Calls)
      /\ \A d \in Calls : at'[d] \in Locked => In(starters', d)
      /\ \A d \in Calls : at'[d] \in Starting => Head(starters') = d
  <2>1. CASE LockKept(c, l)
    BY <1>1, <1>2, <2>1 DEF LockKept, QueueInv, Turn, Locked
  <2>2. CASE LockLeft(c, l)
    <3>1. starters # <<>> /\ Head(starters) = c
      BY <2>2, Queues DEF LockLeft, Turn
    <3>2. /\ Tail(starters) \in Seq(Calls)
          /\ \A d : d # c /\ In(starters, d) => In(Tail(starters), d)
      BY <3>1, <1>2, Taking
    <3>3. \A d \in Calls : at'[d] \in Locked => d # c /\ at[d] \in Locked
      BY <1>1, <2>2 DEF LockLeft
    <3>4. \A d \in Calls : at'[d] \notin Starting
      BY <1>1, <2>2, <3>1 DEF LockLeft, QueueInv, Turn, Locked
    <3> QED BY <2>2, <3>2, <3>3, <3>4 DEF LockLeft, QueueInv
  <2>3. CASE LockAsked(c, l)
    <3>1. /\ starters' \in Seq(Calls)
          /\ In(starters', c)
          /\ \A d : In(starters, d) => In(starters', d)
          /\ starters # <<>> => Head(starters') = Head(starters)
      BY <2>3, <1>2, Appending DEF LockAsked
    <3>2. \A d \in Calls : at'[d] \in Starting => at[d] \in Starting /\ starters # <<>>
      BY <1>1, <2>3, Queues DEF LockAsked, Locked
    <3>3. \A d \in Calls : at'[d] \in Locked => d = c \/ at[d] \in Locked
      BY <1>1
    <3> QED BY <3>1, <3>2, <3>3 DEF QueueInv, Turn
  <2> QED BY <2>1, <2>2, <2>3
<1>4. /\ waiting' \in Seq(Calls)
      /\ \A d \in Calls : at'[d] = "queue" => In(waiting', d)
  <2>1. CASE PermitKept(c, l)
    BY <1>1, <1>2, <2>1 DEF PermitKept, QueueInv
  <2>2. CASE PermitLeft(c, l)
    <3>1. waiting # <<>> /\ Head(waiting) = c
      BY <2>2, Queues DEF PermitLeft
    <3>2. /\ Tail(waiting) \in Seq(Calls)
          /\ \A d : d # c /\ In(waiting, d) => In(Tail(waiting), d)
      BY <3>1, <1>2, Taking
    <3> QED BY <1>1, <2>2, <3>2 DEF PermitLeft, QueueInv
  <2>3. CASE PermitAsked(c, l)
    <3>1. /\ waiting' \in Seq(Calls)
          /\ In(waiting', c)
          /\ \A d : In(waiting, d) => In(waiting', d)
      BY <2>3, <1>2, Appending DEF PermitAsked
    <3> QED BY <1>1, <3>1 DEF QueueInv
  <2> QED BY <2>1, <2>2, <2>3
<1> QED BY <1>3, <1>4 DEF QueueInv, Turn

-----------------------------------------------------------------------------
(* Permits.                                                                *)

LEMMA HoldersFinite ==
  ASSUME TypeOK
  PROVE  IsFiniteSet(Holders) /\ Cardinality(Holders) \in Nat
BY BrowserAssumption, FS_Subset, FS_CardinalityType DEF BrowserAssumption, Holders

(* A call moves: it takes a permit, gives one back, or does neither.       *)
LEMMA PermitMove ==
  ASSUME TypeOK, PermitsKept, NEW c \in Calls, NEW l \in Locations, Goto(c, l),
         \/ permits' = permits /\ (l \in Holding <=> at[c] \in Holding)
         \/ permits' = permits - 1 /\ permits > 0 /\ l \in Holding /\ at[c] \notin Holding
         \/ permits' = permits + 1 /\ l \notin Holding /\ at[c] \in Holding
  PROVE  PermitsKept' /\ permits' \in Nat
<1>1. \A d \in Calls : at'[d] = IF d = c THEN l ELSE at[d]
  BY DEF TypeOK, Goto
<1>2. IsFiniteSet(Holders) /\ Cardinality(Holders) \in Nat /\ permits \in Nat
      /\ Concurrency \in Nat /\ permits + Cardinality(Holders) = Concurrency
  BY HoldersFinite, BrowserAssumption DEF TypeOK, PermitsKept, BrowserAssumption
<1>3. CASE permits' = permits /\ (l \in Holding <=> at[c] \in Holding)
  <2>1. Holders' = Holders
    BY <1>1, <1>3 DEF Holders
  <2> QED BY <2>1, <1>2, <1>3 DEF PermitsKept
<1>4. CASE permits' = permits - 1 /\ permits > 0 /\ l \in Holding /\ at[c] \notin Holding
  <2>1. Holders' = Holders \cup {c} /\ c \notin Holders
    BY <1>1, <1>4 DEF Holders
  <2>2. Cardinality(Holders') = Cardinality(Holders) + 1
    BY <2>1, <1>2, FS_AddElement, Zenon
  <2> QED BY <2>2, <1>2, <1>4 DEF PermitsKept
<1>5. CASE permits' = permits + 1 /\ l \notin Holding /\ at[c] \in Holding
  <2>1. Holders' = Holders \ {c} /\ c \in Holders
    BY <1>1, <1>5 DEF Holders
  <2>2. Cardinality(Holders') = Cardinality(Holders) - 1
    BY <2>1, <1>2, FS_RemoveElement, Zenon
  <2> QED BY <2>2, <1>2, <1>5 DEF PermitsKept
<1> QED BY <1>3, <1>4, <1>5

-----------------------------------------------------------------------------
(* The browser, as one call moves.                                         *)

(* A call under way, or about to be: the process is not shut down.         *)
LEMMA Serving ==
  ASSUME IInv, NEW c \in Calls, at[c] \notin {"away", "ended"}
  PROVE  at[Lifespan] = "away"
BY DEF IInv, BrowserInv

(* Only one call does the work of start.                                   *)
LEMMA OneStarts ==
  ASSUME IInv, NEW c \in Calls, NEW d \in Calls, at[c] \in Starting, at[d] \in Starting
  PROVE  c = d
BY DEF IInv, QueueInv, Turn

(* A call moves and the handles and processes stay.                        *)
LEMMA BrowserKept ==
  ASSUME IInv, NEW c \in Calls, NEW l \in Locations, Goto(c, l),
         at[Lifespan] = "away", UNCHANGED <<browser, running, crashed>>,
         \A d \in Calls : d # c => context'[d] = context[d],
         l \in Starting => running = {},
         l \in Starting \ {"closing"} => browser = 0,
         l \in Holding => context'[c] \in running \cup crashed
  PROVE  BrowserInv'
<1>1. /\ \A d \in Calls : at'[d] = IF d = c THEN l ELSE at[d]
      /\ at'[Lifespan] = at[Lifespan]
  BY BrowserAssumption DEF IInv, TypeOK, Goto, BrowserAssumption
<1>2. OneBrowser'
  BY DEF IInv, BrowserInv, OneBrowser
<1>3. NeverPulled'
  BY <1>1 DEF IInv, BrowserInv, NeverPulled, Holders
<1>4. \A d \in Calls : /\ at'[d] \in Starting => running' = {}
                       /\ at'[d] \in Starting \ {"closing"} => browser' = 0
  BY <1>1 DEF IInv, BrowserInv
<1> QED BY <1>1, <1>2, <1>3, <1>4 DEF IInv, BrowserInv

(* The call that does the work of start moves: nothing was connected, and  *)
(* at most the browser it has launched is.                                 *)
LEMMA BrowserChanged ==
  ASSUME IInv, NEW c \in Calls, NEW l \in Locations, Goto(c, l),
         at[c] \in Starting, crashed' = crashed,
         \/ browser' = 0 /\ running' = {}
         \/ browser' # 0 /\ running' = {browser'} /\ l \notin Starting,
         \A d \in Calls : d # c => context'[d] = context[d],
         l \in Holding => context'[c] \in running' \cup crashed'
  PROVE  BrowserInv'
<1>1. /\ \A d \in Calls : at'[d] = IF d = c THEN l ELSE at[d]
      /\ at'[Lifespan] = at[Lifespan]
  BY BrowserAssumption DEF IInv, TypeOK, Goto, BrowserAssumption
<1>2. at[Lifespan] = "away" /\ running = {}
  BY Serving DEF IInv, BrowserInv
<1>3. OneBrowser'
  BY DEF OneBrowser
<1>4. NeverPulled'
  BY <1>1, <1>2 DEF IInv, BrowserInv, NeverPulled, Holders
<1>5. \A d \in Calls : at'[d] \in Starting => d = c
  BY <1>1, OneStarts
<1> QED BY <1>1, <1>2, <1>3, <1>4, <1>5 DEF BrowserInv

-----------------------------------------------------------------------------
(* One call moves: what is left to look at is the types.                   *)
LEMMA Moved ==
  ASSUME IInv, NEW c \in Calls, NEW l \in Locations, Goto(c, l),
         LockKept(c, l) \/ LockLeft(c, l) \/ LockAsked(c, l),
         PermitKept(c, l) \/ PermitLeft(c, l) \/ PermitAsked(c, l),
         \/ permits' = permits /\ (l \in Holding <=> at[c] \in Holding)
         \/ permits' = permits - 1 /\ permits > 0 /\ l \in Holding /\ at[c] \notin Holding
         \/ permits' = permits + 1 /\ l \notin Holding /\ at[c] \in Holding,
         BrowserInv',
         NEW o \in Outcomes, outcome' = [outcome EXCEPT ![c] = o] \/ outcome' = outcome,
         playwright' \in BOOLEAN, launched' \in Nat, launched <= launched',
         browser' \in 0..launched', running' \subseteq 1..launched', crashed' = crashed,
         NEW b \in 0..launched', context' = [context EXCEPT ![c] = b] \/ (context' = context /\ b = context[c]),
         b # 0 <=> l \in Holding
  PROVE  IInv'
<1> USE DEF IInv
<1>1. QueueInv' /\ starters' \in Seq(Calls) /\ waiting' \in Seq(Calls)
  BY QueueMove
<1>2. PermitsKept' /\ permits' \in Nat
  BY PermitMove
<1>3. /\ at' \in [Actors -> Locations]
      /\ \A d \in Calls : at'[d] = IF d = c THEN l ELSE at[d]
  BY DEF TypeOK, Goto, Actors
<1>4. outcome' \in [Calls -> Outcomes]
  BY DEF TypeOK
<1>5. /\ context' \in [Calls -> 0..launched']
      /\ \A d \in Calls : context'[d] = IF d = c THEN b ELSE context[d]
  <2>1. context \in [Calls -> 0..launched'] /\ launched \in Nat
    BY DEF TypeOK
  <2> QED BY <2>1
<1>6. \A d \in Calls : context'[d] # 0 <=> d \in Holders'
  BY <1>3, <1>5 DEF TypeOK, Holders
<1>7. crashed' \subseteq 1..launched'
  BY DEF TypeOK
<1>8. TypeOK'
  BY <1>1, <1>2, <1>3, <1>4, <1>5, <1>6, <1>7 DEF TypeOK, Actors
<1> QED BY <1>1, <1>2, <1>8

LEMMA NoContext ==
  ASSUME IInv, NEW c \in Calls
  PROVE  (at[c] \in Holding <=> context[c] # 0) /\ context[c] \in 0..launched
BY DEF IInv, TypeOK, Holders

(* The same for a call that neither has a permit nor takes one.            *)
LEMMA MovedWithout ==
  ASSUME IInv, NEW c \in Calls, NEW l \in Locations, Goto(c, l),
         LockKept(c, l) \/ LockLeft(c, l) \/ LockAsked(c, l),
         PermitKept(c, l) \/ PermitLeft(c, l) \/ PermitAsked(c, l),
         permits' = permits, context' = context, l \notin Holding, at[c] \notin Holding,
         BrowserInv',
         NEW o \in Outcomes, outcome' = [outcome EXCEPT ![c] = o] \/ outcome' = outcome,
         playwright' \in BOOLEAN, launched' \in Nat, launched <= launched',
         browser' \in 0..launched', running' \subseteq 1..launched', crashed' = crashed
  PROVE  IInv'
<1> DEFINE b == context[c]
<1>1. b = 0 /\ launched \in Nat
  BY NoContext DEF IInv, TypeOK
<1>2. b \in 0..launched' /\ (b # 0 <=> l \in Holding) /\ context' = context /\ b = context[c]
  BY <1>1
<1>3. permits' = permits /\ (l \in Holding <=> at[c] \in Holding)
  OBVIOUS
<1> HIDE DEF b
<1> QED BY <1>2, <1>3, Moved

-----------------------------------------------------------------------------
(* Each action.                                                            *)

LEMMA InvInit == Init => IInv
<1> SUFFICES ASSUME Init PROVE IInv
  OBVIOUS
<1> USE BrowserAssumption DEF Init, BrowserAssumption
<1>1. \A a \in Actors : at[a] = "away"
  BY DEF Actors
<1>2. Holders = {}
  BY <1>1 DEF Holders, Actors
<1>3. TypeOK
  <2>1. at \in [Actors -> Locations] /\ outcome \in [Calls -> Outcomes] /\ permits \in Nat
    BY DEF Actors
  <2>2. starters \in Seq(Calls) /\ waiting \in Seq(Calls)
    OBVIOUS
  <2>3. context \in [Calls -> 0..launched] /\ launched \in Nat /\ browser \in 0..launched
    OBVIOUS
  <2>4. \A c \in Calls : context[c] # 0 <=> c \in Holders
    BY <1>2
  <2> QED BY <2>1, <2>2, <2>3, <2>4 DEF TypeOK, Actors
<1>4. QueueInv
  BY <1>1 DEF QueueInv, Locked, Actors
<1>5. BrowserInv
  BY <1>1, <1>2 DEF BrowserInv, OneBrowser, NeverPulled, Actors
<1>6. PermitsKept
  BY <1>2, FS_EmptySet DEF PermitsKept
<1> QED BY <1>3, <1>4, <1>5, <1>6 DEF IInv

(* start returns with a browser that is there: the same in Enter and in    *)
(* Launch.                                                                 *)
LEMMA PassedInv ==
  ASSUME IInv, NEW c \in Calls, NEW b \in Nat \ {0}, Passed(c, b),
         at[c] \in Locked, Turn(c), UNCHANGED <<playwright, crashed>>,
         \/ b = browser /\ browser \in running /\ UNCHANGED <<browser, running, launched>>
         \/ /\ at[c] = "launching" /\ b = launched + 1 /\ running = {}
            /\ browser' = b /\ launched' = b /\ running' = running \cup {b}
  PROVE  IInv'
<1>1. /\ launched \in Nat /\ launched' \in Nat /\ launched <= launched'
      /\ browser' \in 0..launched' /\ running' \subseteq 1..launched'
      /\ b \in 0..launched' /\ playwright' \in BOOLEAN
      /\ context \in [Calls -> 0..launched]
  <2>1. /\ launched \in Nat /\ browser \in 0..launched /\ running \subseteq 1..launched
        /\ playwright \in BOOLEAN /\ context \in [Calls -> 0..launched]
    BY DEF IInv, TypeOK
  <2>2. CASE b = browser /\ UNCHANGED <<browser, running, launched>>
    BY <2>1, <2>2
  <2>3. CASE b = launched + 1 /\ running = {} /\ browser' = b /\ launched' = b /\ running' = running \cup {b}
    <3>1. running' = {b} /\ b \in 1..b
      BY <2>1, <2>3
    <3> QED BY <3>1, <2>1, <2>3
  <2> QED BY <2>2, <2>3
<1>2. context[c] = 0 /\ context[c] \in 0..launched'
  BY <1>1, NoContext DEF Locked
<1>3. ASSUME NEW l \in {"ended", "queue", "opening"}, Goto(c, l),
             \A d \in Calls : d # c => context'[d] = context[d],
             l = "opening" => context'[c] = b
      PROVE  BrowserInv'
  <2>1. CASE browser \in running /\ UNCHANGED <<browser, running>> /\ b = browser
    BY <1>3, <2>1, Serving, BrowserKept DEF Locked
  <2>2. CASE at[c] = "launching" /\ running = {} /\ browser' = b /\ running' = running \cup {b}
    BY <1>3, <2>2, BrowserChanged
  <2> QED BY <2>1, <2>2
<1>4. CASE c \in Checks
  <2>1. Goto(c, "ended") /\ outcome' = [outcome EXCEPT ![c] = "ready"]
        /\ starters' = Tail(starters) /\ UNCHANGED <<waiting, permits, context>>
    BY <1>4 DEF Passed, End
  <2>2. BrowserInv'
    BY <1>3, <2>1
  <2>3. LockLeft(c, "ended") /\ PermitKept(c, "ended")
    BY <2>1 DEF LockLeft, PermitKept, Locked
  <2> QED BY <2>1, <2>2, <2>3, <1>1, <1>2, MovedWithout DEF Locked
<1>5. CASE c \notin Checks /\ MayOpen
  <2>1. Goto(c, "opening") /\ permits' = permits - 1 /\ context' = [context EXCEPT ![c] = b]
        /\ starters' = Tail(starters) /\ UNCHANGED <<outcome, waiting>> /\ permits > 0
    BY <1>5 DEF Passed, OpenOn, MayOpen
  <2>2. BrowserInv'
    BY <1>3, <2>1, <1>1
  <2>3. LockLeft(c, "opening") /\ PermitKept(c, "opening")
    BY <2>1 DEF LockLeft, PermitKept, Locked
  <2> QED BY <2>1, <2>2, <2>3, <1>1, <1>2, Moved DEF Locked
<1>6. CASE c \notin Checks /\ ~MayOpen
  <2>1. Goto(c, "queue") /\ waiting' = Append(waiting, c)
        /\ starters' = Tail(starters) /\ UNCHANGED <<outcome, permits, context>>
    BY <1>6 DEF Passed
  <2>2. BrowserInv'
    BY <1>3, <2>1
  <2>3. LockLeft(c, "queue") /\ PermitAsked(c, "queue")
    BY <2>1 DEF LockLeft, PermitAsked, Locked
  <2> QED BY <2>1, <2>2, <2>3, <1>1, <1>2, MovedWithout DEF Locked
<1> QED BY <1>4, <1>5, <1>6

(* start raises with nothing connected.                                    *)
LEMMA RaisesInv ==
  ASSUME IInv, NEW c \in Calls, NEW o \in {"untyped", "unavailable"}, StartRaises(c, o),
         at[c] \in Starting, UNCHANGED <<browser, launched, crashed>>,
         playwright' \in BOOLEAN,
         running' = running \/ (running' = {} /\ browser = 0)
  PROVE  IInv'
<1> DEFINE e == IF c \in Checks /\ o # "untyped" THEN "not_ready" ELSE o
<1>1. Goto(c, "ended") /\ outcome' = [outcome EXCEPT ![c] = e] /\ e \in Outcomes
      /\ starters' = Tail(starters) /\ UNCHANGED <<waiting, permits, context>>
  BY DEF StartRaises, End, FreeLock
<1>2. running = {} /\ Turn(c) /\ at[Lifespan] = "away"
  BY Serving DEF IInv, BrowserInv, QueueInv
<1>3. running' = running
  BY <1>2
<1>4. BrowserInv'
  BY <1>1, <1>2, <1>3, BrowserKept
<1>5. LockLeft(c, "ended") /\ PermitKept(c, "ended")
  BY <1>1, <1>2 DEF LockLeft, PermitKept, Locked
<1>6. /\ launched \in Nat /\ browser' \in 0..launched' /\ running' \subseteq 1..launched'
      /\ launched' \in Nat /\ launched <= launched'
      /\ context[c] \in 0..launched' /\ context[c] = 0
  <2>1. /\ launched \in Nat /\ browser \in 0..launched /\ running \subseteq 1..launched
        /\ context \in [Calls -> 0..launched]
    BY DEF IInv, TypeOK
  <2>2. context[c] = 0
    BY NoContext
  <2> QED BY <2>1, <2>2, <1>3
<1> QED BY <1>1, <1>4, <1>5, <1>6, MovedWithout

(* A call moves, and nothing but its place, its outcome and the queues     *)
(* changes.                                                                *)
LEMMA QuietMove ==
  ASSUME IInv, NEW c \in Calls, NEW l \in Locations, Goto(c, l),
         LockKept(c, l) \/ LockLeft(c, l) \/ LockAsked(c, l),
         PermitKept(c, l) \/ PermitLeft(c, l) \/ PermitAsked(c, l),
         UNCHANGED <<permits, context, handles, processes>>,
         at[Lifespan] = "away", l \in Holding <=> at[c] \in Holding,
         l \in Starting => running = {},
         l \in Starting \ {"closing"} => browser = 0,
         NEW o \in Outcomes, outcome' = [outcome EXCEPT ![c] = o] \/ outcome' = outcome
  PROVE  IInv'
<1> DEFINE b == context[c]
<1>1. /\ playwright' \in BOOLEAN /\ launched' \in Nat /\ launched <= launched'
      /\ browser' \in 0..launched' /\ running' \subseteq 1..launched' /\ crashed' = crashed
  BY DEF IInv, TypeOK, handles, processes
<1>2. b \in 0..launched' /\ (b # 0 <=> l \in Holding) /\ context' = context /\ b = context[c]
  BY NoContext DEF processes
<1>3. l \in Holding => context'[c] \in running \cup crashed
  BY DEF IInv, BrowserInv, NeverPulled, Holders
<1>4. BrowserInv'
  BY <1>3, BrowserKept DEF handles, processes
<1>5. permits' = permits /\ (l \in Holding <=> at[c] \in Holding)
  OBVIOUS
<1> HIDE DEF b
<1> QED BY <1>1, <1>2, <1>4, <1>5, Moved

LEMMA AskInv ==
  ASSUME IInv, NEW c \in Calls
  PROVE  (Begin(c) \/ Refuse(c) \/ Join(c)) => IInv'
<1>1. CASE Begin(c)
  <2>1. at[c] = "away" /\ at[Lifespan] = "away"
        /\ UNCHANGED <<outcome, waiting, permits, handles, context, processes>>
    BY <1>1 DEF Begin
  <2>2. CASE c \in Checks
    <3>1. Goto(c, "lock") /\ LockAsked(c, "lock") /\ PermitKept(c, "lock")
      BY <1>1, <2>1, <2>2 DEF Begin, AskLock, LockAsked, PermitKept, Locked
    <3> QED BY <2>1, <3>1, QuietMove
  <2>3. CASE c \notin Checks
    <3>1. Goto(c, "guard") /\ LockKept(c, "guard") /\ PermitKept(c, "guard")
      BY <1>1, <2>1, <2>3 DEF Begin, LockKept, PermitKept, Locked
    <3> QED BY <2>1, <3>1, QuietMove
  <2> QED BY <2>2, <2>3
<1>2. CASE Refuse(c)
  <2>1. at[c] = "guard" /\ Goto(c, "ended") /\ outcome' = [outcome EXCEPT ![c] = "refused"]
        /\ UNCHANGED <<permits, handles, context, processes>>
    BY <1>2 DEF Refuse, End
  <2>2. LockKept(c, "ended") /\ PermitKept(c, "ended") /\ at[Lifespan] = "away"
    BY <1>2, <2>1, Serving DEF Refuse, LockKept, PermitKept, Locked
  <2> QED BY <2>1, <2>2, QuietMove
<1>3. CASE Join(c)
  <2>1. at[c] = "guard" /\ Goto(c, "lock")
        /\ UNCHANGED <<outcome, permits, handles, context, processes>>
    BY <1>3 DEF Join, AskLock
  <2>2. LockAsked(c, "lock") /\ PermitKept(c, "lock") /\ at[Lifespan] = "away"
    BY <1>3, <2>1, Serving DEF Join, AskLock, LockAsked, PermitKept, Locked
  <2> QED BY <2>1, <2>2, QuietMove
<1> QED BY <1>1, <1>2, <1>3

LEMMA EnterInv ==
  ASSUME IInv, NEW c \in Calls, Enter(c)
  PROVE  IInv'
<1>1. at[c] = "lock" /\ Turn(c) /\ UNCHANGED <<handles, processes>>
  BY DEF Enter
<1>2. CASE Connected
  <2>1. Passed(c, browser)
    BY <1>2 DEF Enter
  <2>2. browser \in Nat \ {0} /\ browser \in running
    BY <1>2 DEF Connected, IInv, TypeOK
  <2> QED BY <1>1, <2>1, <2>2, PassedInv DEF Locked, handles, processes
<1>3. CASE ~Connected
  <2> DEFINE l == CloseFrom("starting")
  <2>1. Goto(c, l) /\ UNCHANGED <<outcome, starters, waiting, permits, context>>
    BY <1>3 DEF Enter
  <2>2. running = {}
    BY <1>3 DEF Connected, IInv, BrowserInv, OneBrowser, TypeOK
  <2>3. l \in {"closing", "stopping", "starting"} /\ (l # "closing" => browser = 0)
    BY DEF CloseFrom
  <2> HIDE DEF l
  <2>4. LockKept(c, l) /\ PermitKept(c, l) /\ at[Lifespan] = "away"
    BY <1>1, <2>1, <2>3, Serving DEF LockKept, PermitKept, Locked
  <2> QED BY <1>1, <2>1, <2>2, <2>3, <2>4, QuietMove
<1> QED BY <1>2, <1>3

(* The call at the head of the lock queue goes on in start, or leaves it.  *)
LEMMA StartInv ==
  ASSUME IInv, NEW c \in Calls, StartStep(c)
  PROVE  IInv'
<1>1. ASSUME at[c] \in Starting
      PROVE  Turn(c) /\ running = {} /\ at[Lifespan] = "away" /\ c # Lifespan
             /\ (at[c] # "closing" => browser = 0)
  BY <1>1, Serving, BrowserAssumption DEF IInv, BrowserInv, QueueInv, BrowserAssumption
<1>2. /\ playwright \in BOOLEAN /\ launched \in Nat /\ launched <= launched /\ 0 \in 0..launched
      /\ browser \in 0..launched /\ running \subseteq 1..launched
  BY DEF IInv, TypeOK
<1>3. ASSUME NEW l \in Starting, Goto(c, l), at[c] \in Starting, browser' = 0, running' = {},
             UNCHANGED <<outcome, starters, waiting, permits, context, launched, crashed>>,
             playwright' \in BOOLEAN
      PROVE  IInv'
  <2>1. LockKept(c, l) /\ PermitKept(c, l)
    BY <1>3 DEF LockKept, PermitKept, Locked
  <2>2. BrowserInv'
    BY <1>3, BrowserChanged
  <2> QED BY <1>2, <1>3, <2>1, <2>2, MovedWithout
<1>4. CASE Enter(c)
  BY <1>4, EnterInv
<1>5. CASE CloseBrowser(c)
  <2> DEFINE l == IF playwright THEN "stopping" ELSE "starting"
  <2>1. at[c] \in Starting /\ Goto(c, l) /\ l \in Starting /\ browser' = 0 /\ playwright' = playwright
        /\ UNCHANGED <<outcome, starters, waiting, permits, context, launched, crashed>>
    BY <1>1, <1>5 DEF CloseBrowser
  <2>2. running' = {}
    BY <1>1, <1>5, <2>1 DEF CloseBrowser
  <2> HIDE DEF l
  <2> QED BY <1>2, <1>3, <2>1, <2>2
<1>6. CASE StopPlaywright(c)
  <2>1. at[c] \in Starting /\ Goto(c, "starting") /\ browser' = 0 /\ playwright' = FALSE /\ running' = {}
        /\ UNCHANGED <<outcome, starters, waiting, permits, context, launched, crashed>>
    BY <1>1, <1>6 DEF StopPlaywright
  <2> QED BY <1>3, <2>1
<1>7. CASE CloseRaises(c)
  BY <1>2, <1>7, RaisesInv DEF CloseRaises, handles, processes
<1>8. CASE StartPlaywright(c)
  <2>1. at[c] \in Starting /\ Goto(c, "launching") /\ browser' = 0 /\ playwright' = TRUE /\ running' = {}
        /\ UNCHANGED <<outcome, starters, waiting, permits, context, launched, crashed>>
    BY <1>1, <1>8 DEF StartPlaywright, processes
  <2> QED BY <1>3, <2>1
<1>9. CASE StartFails(c)
  BY <1>2, <1>9, RaisesInv DEF StartFails, handles, processes
<1>10. CASE Launch(c)
  <2>1. launched + 1 \in Nat \ {0}
    BY <1>2
  <2> QED BY <1>1, <1>10, <2>1, PassedInv DEF Launch, Locked
<1>11. CASE LaunchFails(c)
  <2>1. at[c] \in Starting /\ Goto(c, "undoing") /\ browser' = 0 /\ playwright' = playwright /\ running' = {}
        /\ UNCHANGED <<outcome, starters, waiting, permits, context, launched, crashed>>
    BY <1>1, <1>11 DEF LaunchFails, handles, processes
  <2> QED BY <1>2, <1>3, <2>1
<1>12. CASE Undo(c)
  BY <1>1, <1>12, RaisesInv DEF Undo
<1> QED BY <1>4, <1>5, <1>6, <1>7, <1>8, <1>9, <1>10, <1>11, <1>12 DEF StartStep

(* A call leaves the semaphore.                                            *)
LEMMA LeaveInv ==
  ASSUME IInv, NEW c \in Calls, NEW o \in Outcomes, at[c] \in Holding, LeaveWith(c, o)
  PROVE  IInv'
<1>1. /\ Goto(c, "ended") /\ outcome' = [outcome EXCEPT ![c] = o]
      /\ permits' = permits + 1 /\ context' = [context EXCEPT ![c] = 0]
      /\ UNCHANGED <<starters, waiting, handles, processes>>
  BY DEF LeaveWith, End, Vacate
<1>2. LockKept(c, "ended") /\ PermitKept(c, "ended") /\ at[Lifespan] = "away"
  BY <1>1, Serving DEF LockKept, PermitKept, Locked
<1>3. /\ playwright' \in BOOLEAN /\ launched' \in Nat /\ launched <= launched' /\ 0 \in 0..launched'
      /\ browser' \in 0..launched' /\ running' \subseteq 1..launched' /\ crashed' = crashed
  BY <1>1 DEF IInv, TypeOK, handles, processes
<1>4. \A d \in Calls : d # c => context'[d] = context[d]
  BY <1>1 DEF IInv, TypeOK
<1>5. BrowserInv'
  BY <1>1, <1>2, <1>4, BrowserKept DEF handles, processes
<1>6. (0 # 0 <=> "ended" \in Holding) /\ "ended" \notin Holding /\ "ended" \in Locations
  OBVIOUS
<1> HIDE DEF Holding, Locations, Outcomes
<1> QED BY <1>1, <1>2, <1>3, <1>5, <1>6, Moved

LEMMA AdmitInv ==
  ASSUME IInv, NEW c \in Calls, Admit(c)
  PROVE  IInv'
<1>1. /\ at[c] = "queue" /\ Head(waiting) = c /\ permits > 0 /\ waiting' = Tail(waiting)
      /\ UNCHANGED <<starters, handles, processes>> /\ at[Lifespan] = "away"
  BY Serving DEF Admit
<1>2. CASE browser = 0
  <2>1. Goto(c, "ended") /\ outcome' = [outcome EXCEPT ![c] = "failed"] /\ UNCHANGED <<permits, context>>
    BY <1>2 DEF Admit, End
  <2>2. LockKept(c, "ended") /\ PermitLeft(c, "ended")
    BY <1>1 DEF LockKept, PermitLeft, Locked
  <2> QED BY <1>1, <2>1, <2>2, QuietMove
<1>3. CASE browser # 0
  <2>1. Goto(c, "opening") /\ permits' = permits - 1 /\ context' = [context EXCEPT ![c] = browser]
        /\ outcome' = outcome
    BY <1>3 DEF Admit, OpenOn
  <2>2. LockKept(c, "opening") /\ PermitLeft(c, "opening")
    BY <1>1 DEF LockKept, PermitLeft, Locked
  <2>3. /\ playwright' \in BOOLEAN /\ launched' \in Nat /\ launched <= launched'
        /\ browser' \in 0..launched' /\ running' \subseteq 1..launched' /\ crashed' = crashed
        /\ browser \in 0..launched'
    BY <1>1 DEF IInv, TypeOK, handles, processes
  <2>4. \A d \in Calls : context'[d] = IF d = c THEN browser ELSE context[d]
    BY <2>1 DEF IInv, TypeOK
  <2>5. BrowserInv'
    BY <1>1, <1>3, <2>1, <2>4, BrowserKept DEF handles, processes, IInv, BrowserInv
  <2>6. browser # 0 <=> "opening" \in Holding
    BY <1>3
  <2>7. "none" \in Outcomes
    OBVIOUS
  <2> QED BY <1>1, <2>1, <2>2, <2>3, <2>5, <2>6, <2>7, Moved
<1> QED BY <1>2, <1>3

LEMMA PageInv ==
  ASSUME IInv, NEW c \in Calls, PageStep(c)
  PROVE  IInv'
<1>1. CASE Admit(c)
  BY <1>1, AdmitInv
<1>2. CASE OpenContext(c)
  <2>1. at[c] = "opening" /\ Goto(c, "browsing")
        /\ UNCHANGED <<outcome, starters, waiting, permits, handles, context, processes>>
    BY <1>2 DEF OpenContext
  <2>2. LockKept(c, "browsing") /\ PermitKept(c, "browsing") /\ at[Lifespan] = "away"
    BY <2>1, Serving DEF LockKept, PermitKept, Locked
  <2> QED BY <2>1, <2>2, QuietMove
<1>3. CASE OpenFails(c)
  BY <1>3, LeaveInv DEF OpenFails
<1>4. CASE BrowsePage(c)
  <2>1. PICK o \in {"page", "refused", "failed"} : outcome' = [outcome EXCEPT ![c] = o]
    BY <1>4 DEF BrowsePage
  <2>2. at[c] = "browsing" /\ Goto(c, "leaving")
        /\ UNCHANGED <<starters, waiting, permits, handles, context, processes>>
    BY <1>4 DEF BrowsePage
  <2>3. LockKept(c, "leaving") /\ PermitKept(c, "leaving") /\ at[Lifespan] = "away"
    BY <2>2, Serving DEF LockKept, PermitKept, Locked
  <2> QED BY <2>1, <2>2, <2>3, QuietMove
<1>5. CASE CloseContext(c)
  BY <1>5, LeaveInv DEF CloseContext, IInv, TypeOK
<1>6. CASE CloseContextRaises(c)
  BY <1>6, LeaveInv DEF CloseContextRaises
<1> QED BY <1>1, <1>2, <1>3, <1>4, <1>5, <1>6 DEF PageStep

(* Steps of the environment and of the lifespan.                           *)
LEMMA DieInv ==
  ASSUME IInv, NEW b \in running, Die(b)
  PROVE  IInv'
<1> USE DEF IInv, Die, handles
<1>1. TypeOK'
  BY DEF TypeOK, Holders
<1>2. QueueInv'
  BY DEF QueueInv, Turn
<1>3. BrowserInv'
  BY DEF BrowserInv, OneBrowser, NeverPulled, Holders
<1>4. PermitsKept'
  BY DEF PermitsKept, Holders
<1> QED BY <1>1, <1>2, <1>3, <1>4

(* The lifespan moves; no call is under way.                               *)
LEMMA LifespanInv ==
  ASSUME IInv, NEW l \in {"closing", "stopping", "ended"}, Goto(Lifespan, l),
         \A c \in Calls : at[c] \in {"away", "ended"},
         UNCHANGED <<outcome, starters, waiting, permits, context, launched, crashed>>,
         playwright' \in BOOLEAN,
         \/ UNCHANGED <<browser, running>>
         \/ running' = {} /\ browser' \in {0, browser}
  PROVE  IInv'
<1>1. /\ \A c \in Calls : at'[c] = at[c] /\ at'[c] \notin Starting \cup Holding
      /\ at' \in [Actors -> Locations] /\ at'[Lifespan] = l
  BY BrowserAssumption DEF IInv, TypeOK, Goto, BrowserAssumption, Actors
<1>2. Holders' = Holders /\ Holders' = {}
  BY <1>1 DEF Holders
<1>3. TypeOK'
  <2>1. browser' \in 0..launched' /\ running' \subseteq 1..launched' /\ context' \in [Calls -> 0..launched']
    <3>1. /\ browser \in 0..launched /\ 0 \in 0..launched /\ running \subseteq 1..launched
          /\ context \in [Calls -> 0..launched]
      BY DEF IInv, TypeOK
    <3>2. browser' \in {0, browser} /\ (running' = {} \/ running' = running) /\ context' = context
      OBVIOUS
    <3> QED BY <3>1, <3>2
  <2>2. \A c \in Calls : context'[c] # 0 <=> c \in Holders'
    <3>1. \A c \in Calls : context[c] # 0 <=> at[c] \in Holding
      BY DEF IInv, TypeOK, Holders
    <3>2. \A c \in Calls : context'[c] = context[c] /\ at'[c] = at[c]
      BY <1>1
    <3> QED BY <3>1, <3>2 DEF Holders
  <2> QED BY <1>1, <2>1, <2>2 DEF IInv, TypeOK, Actors
<1>4. QueueInv'
  BY <1>1 DEF IInv, QueueInv, Turn
<1>5. BrowserInv'
  BY <1>1, <1>2 DEF IInv, BrowserInv, OneBrowser, NeverPulled
<1>6. PermitsKept'
  BY <1>2 DEF IInv, PermitsKept
<1> QED BY <1>3, <1>4, <1>5, <1>6 DEF IInv

LEMMA ClosingInv ==
  ASSUME IInv, Shutdown \/ CloseBrowser(Lifespan) \/ StopPlaywright(Lifespan) \/ ShutdownRaises
  PROVE  IInv'
<1>1. playwright \in BOOLEAN
  BY DEF IInv, TypeOK
<1>2. at[Lifespan] # "away" => \A c \in Calls : at[c] \in {"away", "ended"}
  BY DEF IInv, BrowserInv
<1>3. CASE Shutdown
  <2>1. CloseFrom("ended") \in {"closing", "stopping", "ended"}
    BY DEF CloseFrom
  <2> QED BY <1>1, <1>3, <2>1, LifespanInv DEF Shutdown, handles, processes
<1>4. CASE CloseBrowser(Lifespan)
  <2>1. running \ {browser} = {}
    BY DEF IInv, BrowserInv, OneBrowser
  <2> DEFINE l == IF playwright THEN "stopping" ELSE "ended"
  <2>2. l \in {"closing", "stopping", "ended"} /\ Goto(Lifespan, l) /\ browser' = 0 /\ running' = {}
        /\ at[Lifespan] # "away" /\ playwright' = playwright
        /\ UNCHANGED <<outcome, starters, waiting, permits, context, launched, crashed>>
    BY <1>4, <2>1 DEF CloseBrowser
  <2> HIDE DEF l
  <2> QED BY <1>1, <1>2, <2>2, LifespanInv
<1>5. CASE StopPlaywright(Lifespan)
  BY <1>2, <1>5, LifespanInv DEF StopPlaywright
<1>6. CASE ShutdownRaises
  BY <1>1, <1>2, <1>6, LifespanInv DEF ShutdownRaises, handles, processes
<1> QED BY <1>3, <1>4, <1>5, <1>6

LEMMA InvNext == IInv /\ [Next]_vars => IInv'
<1> SUFFICES ASSUME IInv, [Next]_vars PROVE IInv'
  OBVIOUS
<1>1. ASSUME NEW c \in Calls, Begin(c) \/ CallStep(c)
      PROVE  IInv'
  BY <1>1, AskInv, StartInv, PageInv DEF CallStep
<1>2. ASSUME NEW b \in running, Die(b)
      PROVE  IInv'
  BY <1>2, DieInv
<1>3. CASE Shutdown \/ CloseBrowser(Lifespan) \/ StopPlaywright(Lifespan) \/ ShutdownRaises
  BY <1>3, ClosingInv
<1>4. CASE UNCHANGED vars
  BY <1>4 DEF vars, IInv, TypeOK, Holders, QueueInv, Turn, BrowserInv, OneBrowser, NeverPulled, PermitsKept
<1> QED BY <1>1, <1>2, <1>3, <1>4 DEF Next

THEOREM Invariance == Spec => []IInv
<1>1. Init => IInv
  BY InvInit
<1>2. IInv /\ [Next]_vars => IInv'
  BY InvNext
<1> QED BY <1>1, <1>2, PTL DEF Spec

(* Locations, outcomes, queues, handles and contexts keep their types, and *)
(* a call has a context iff it has a permit (BrowserFetcher.fetch).        *)
THEOREM TypeCorrect == Spec => []TypeOK
<1>1. IInv => TypeOK
  BY DEF IInv
<1> QED BY <1>1, Invariance, PTL

(* No Chromium runs that _browser does not name, however many calls find   *)
(* it missing at once and whatever fails in start or close.                *)
THEOREM OneBrowserHolds == Spec => []OneBrowser
<1>1. IInv => OneBrowser
  BY DEF IInv, BrowserInv
<1> QED BY <1>1, Invariance, PTL

(* The browser of a call that has a context goes only by its own death,    *)
(* whatever other calls and the shutdown do.                               *)
THEOREM NeverPulledHolds == Spec => []NeverPulled
<1>1. IInv => NeverPulled
  BY DEF IInv, BrowserInv
<1> QED BY <1>1, Invariance, PTL

(* Contexts and free permits add up to the concurrency, however calls end. *)
THEOREM PermitsKeptHolds == Spec => []PermitsKept
<1>1. IInv => PermitsKept
  BY DEF IInv
<1> QED BY <1>1, Invariance, PTL

-----------------------------------------------------------------------------
(* Nobody waits for a call that is over: the safety part of CallsEnd.      *)

(* The calls of queue q, each there once, are at l, as at is f.            *)
Located(f, q, l) ==
  /\ \A i \in 1..Len(q) : f[q[i]] \in l
  /\ \A i, j \in 1..Len(q) : q[i] = q[j] => i = j

(* How a step that makes f into g may treat the queue of the calls at l.   *)
Others(f, g, c) == \A d \in Calls : d # c => g[d] = f[d]

Stays(f, g, q, r, l) == r = q /\ \A c \in Calls : f[c] \in l => g[c] \in l

Asks(f, g, q, r, l) ==
  \E c \in Calls : r = Append(q, c) /\ f[c] \notin l /\ g[c] \in l /\ Others(f, g, c)

Leaves(f, g, q, r) ==
  \E c \in Calls : q # <<>> /\ c = Head(q) /\ r = Tail(q) /\ Others(f, g, c)

Treats(f, g, q, r, l) == Stays(f, g, q, r, l) \/ Asks(f, g, q, r, l) \/ Leaves(f, g, q, r)

LEMMA StillLocated ==
  ASSUME NEW f, NEW g, NEW q \in Seq(Calls), NEW r, NEW l,
         Located(f, q, l), Treats(f, g, q, r, l)
  PROVE  Located(g, r, l)
<1>1. Len(q) \in Nat /\ \A i \in 1..Len(q) : q[i] \in Calls
  OBVIOUS
<1>2. CASE Stays(f, g, q, r, l)
  BY <1>1, <1>2 DEF Stays, Located
<1>3. CASE Asks(f, g, q, r, l)
  <2>1. PICK c \in Calls : r = Append(q, c) /\ f[c] \notin l /\ g[c] \in l /\ Others(f, g, c)
    BY <1>3 DEF Asks
  <2>2. \A i \in 1..Len(q) : q[i] \in Calls /\ q[i] # c
    BY <1>1, <2>1 DEF Located
  <2>3. /\ Len(r) = Len(q) + 1 /\ r[Len(q) + 1] = c
        /\ \A i \in 1..Len(q) : r[i] = q[i]
    BY <2>1
  <2>4. \A i \in 1..Len(r) : i \in 1..Len(q) \/ i = Len(q) + 1
    BY <1>1, <2>3
  <2>5. ASSUME NEW i \in 1..Len(r) PROVE g[r[i]] \in l
    BY <2>1, <2>2, <2>3, <2>4 DEF Located, Others
  <2>6. ASSUME NEW i \in 1..Len(r), NEW j \in 1..Len(r), r[i] = r[j] PROVE i = j
    BY <2>2, <2>3, <2>4, <2>6 DEF Located
  <2> QED BY <2>5, <2>6 DEF Located
<1>4. CASE Leaves(f, g, q, r)
  <2>1. PICK c \in Calls : q # <<>> /\ c = Head(q) /\ r = Tail(q) /\ Others(f, g, c)
    BY <1>4 DEF Leaves
  <2>2. /\ Len(r) = Len(q) - 1 /\ Len(q) # 0 /\ q[1] = c
        /\ \A i \in 1..Len(r) : r[i] = q[i + 1]
    BY <2>1
  <2>3. \A i \in 1..Len(r) : i \in Nat /\ i + 1 \in 1..Len(q) /\ i + 1 # 1 /\ 1 \in 1..Len(q)
    BY <1>1, <2>2
  <2>4. ASSUME NEW i \in 1..Len(r) PROVE g[r[i]] \in l
    <3>1. q[i + 1] \in Calls /\ q[i + 1] # c
      BY <1>1, <2>2, <2>3 DEF Located
    <3> QED BY <2>1, <2>2, <2>3, <3>1 DEF Located, Others
  <2>5. ASSUME NEW i \in 1..Len(r), NEW j \in 1..Len(r), r[i] = r[j] PROVE i = j
    <3>1. i + 1 = j + 1
      BY <2>2, <2>3, <2>5 DEF Located
    <3> QED BY <2>3, <3>1
  <2> QED BY <2>4, <2>5 DEF Located
<1> QED BY <1>2, <1>3, <1>4 DEF Treats

(* A move of call c, for the lock and for the semaphore.                   *)
LEMMA LockTreated ==
  ASSUME IInv, NEW c \in Calls, NEW l \in Locations, Goto(c, l),
         \/ starters' = starters /\ (at[c] \in Locked => l \in Locked)
         \/ starters' = Append(starters, c) /\ at[c] \notin Locked /\ l \in Locked
         \/ starters' = Tail(starters) /\ at[c] \in Locked /\ Turn(c)
  PROVE  Treats(at, at', starters, starters', Locked)
<1>1. Others(at, at', c) /\ at'[c] = l
  BY DEF Others, Goto, IInv, TypeOK
<1>2. at[c] \in Locked => starters # <<>>
  BY Queues DEF IInv
<1>3. CASE starters' = starters /\ (at[c] \in Locked => l \in Locked)
  BY <1>1, <1>3 DEF Treats, Stays, Others
<1>4. CASE starters' = Append(starters, c) /\ at[c] \notin Locked /\ l \in Locked
  BY <1>1, <1>4 DEF Treats, Asks
<1>5. CASE starters' = Tail(starters) /\ at[c] \in Locked /\ Turn(c)
  BY <1>1, <1>2, <1>5 DEF Treats, Leaves, Turn
<1> QED BY <1>3, <1>4, <1>5

LEMMA SemaphoreTreated ==
  ASSUME IInv, NEW c \in Calls, NEW l \in Locations, Goto(c, l),
         \/ waiting' = waiting /\ (at[c] = "queue" => l = "queue")
         \/ waiting' = Append(waiting, c) /\ at[c] # "queue" /\ l = "queue"
         \/ waiting' = Tail(waiting) /\ at[c] = "queue" /\ Head(waiting) = c
  PROVE  Treats(at, at', waiting, waiting', {"queue"})
<1>1. Others(at, at', c) /\ at'[c] = l
  BY DEF Others, Goto, IInv, TypeOK
<1>2. at[c] = "queue" => waiting # <<>>
  BY Queues DEF IInv
<1>3. CASE waiting' = waiting /\ (at[c] = "queue" => l = "queue")
  BY <1>1, <1>3 DEF Treats, Stays, Others
<1>4. CASE waiting' = Append(waiting, c) /\ at[c] # "queue" /\ l = "queue"
  BY <1>1, <1>4 DEF Treats, Asks
<1>5. CASE waiting' = Tail(waiting) /\ at[c] = "queue" /\ Head(waiting) = c
  BY <1>1, <1>2, <1>5 DEF Treats, Leaves
<1> QED BY <1>3, <1>4, <1>5

BothTreated ==
  /\ Treats(at, at', starters, starters', Locked)
  /\ Treats(at, at', waiting, waiting', {"queue"})

LEMMA CallTreats ==
  ASSUME IInv, NEW c \in Calls, Begin(c) \/ CallStep(c)
  PROVE  BothTreated
<1>0. \A d \in Calls : at[d] \in Starting => Turn(d)
  BY DEF IInv, QueueInv
<1>1. ASSUME NEW l \in Locations \ (Locked \cup {"queue"}), Goto(c, l), waiting' = waiting,
             at[c] \notin Locked \cup {"queue"}, starters' = starters
      PROVE  BothTreated
  BY <1>1, LockTreated, SemaphoreTreated DEF BothTreated
<1>2. ASSUME at[c] \in {"away", "guard"}, AskLock(c), waiting' = waiting
      PROVE  BothTreated
  BY <1>2, LockTreated, SemaphoreTreated DEF BothTreated, AskLock, Locked
<1>3. ASSUME NEW l \in Starting, at[c] \in Locked, Goto(c, l),
             starters' = starters, waiting' = waiting
      PROVE  BothTreated
  BY <1>3, LockTreated, SemaphoreTreated DEF BothTreated, Locked
<1>4. ASSUME NEW error \in Outcomes, at[c] \in Starting, StartRaises(c, error)
      PROVE  BothTreated
  BY <1>0, <1>4, LockTreated, SemaphoreTreated DEF BothTreated, StartRaises, End, FreeLock, Locked
<1>5. ASSUME NEW b, at[c] \in Locked, Turn(c), Passed(c, b)
      PROVE  BothTreated
  BY <1>5, LockTreated, SemaphoreTreated DEF BothTreated, Passed, OpenOn, End, Locked
<1>6. ASSUME Admit(c)
      PROVE  BothTreated
  BY <1>6, LockTreated, SemaphoreTreated DEF BothTreated, Admit, OpenOn, End, Locked
<1>7. CASE Begin(c) \/ Refuse(c) \/ Join(c)
  BY <1>1, <1>2, <1>7 DEF Begin, Refuse, Join, End, Locked
<1>8. CASE StartStep(c)
  <2>1. CASE Enter(c)
    BY <1>3, <1>5, <2>1 DEF Enter, CloseFrom, Locked
  <2>2. CASE CloseBrowser(c) \/ StopPlaywright(c)
    <3>1. c # Lifespan
      BY BrowserAssumption DEF BrowserAssumption
    <3> QED BY <1>3, <2>2, <3>1 DEF CloseBrowser, StopPlaywright, Locked
  <2>3. CASE CloseRaises(c) \/ StartFails(c) \/ Undo(c)
    BY <1>4, <2>3 DEF CloseRaises, StartFails, Undo
  <2>4. CASE StartPlaywright(c) \/ LaunchFails(c)
    BY <1>3, <2>4 DEF StartPlaywright, LaunchFails, Locked
  <2>5. CASE Launch(c)
    BY <1>0, <1>5, <2>5 DEF Launch, Locked
  <2> QED BY <1>8, <2>1, <2>2, <2>3, <2>4, <2>5 DEF StartStep
<1>9. CASE PageStep(c)
  <2>1. CASE OpenContext(c) \/ BrowsePage(c)
    BY <1>1, <2>1 DEF OpenContext, BrowsePage, Locked
  <2>2. CASE OpenFails(c) \/ CloseContext(c) \/ CloseContextRaises(c)
    BY <1>1, <2>2 DEF OpenFails, CloseContext, CloseContextRaises, LeaveWith, End, Locked
  <2> QED BY <1>6, <1>9, <2>1, <2>2 DEF PageStep
<1> QED BY <1>7, <1>8, <1>9 DEF CallStep

LEMMA NextTreats ==
  ASSUME IInv, [Next]_vars
  PROVE  BothTreated
<1>1. ASSUME \A c \in Calls : at'[c] = at[c], UNCHANGED <<starters, waiting>>
      PROVE  BothTreated
  BY <1>1 DEF BothTreated, Treats, Stays
<1>2. CASE \E c \in Calls : Begin(c) \/ CallStep(c)
  BY <1>2, CallTreats
<1>3. CASE \E b \in running : Die(b)
  BY <1>1, <1>3 DEF Die
<1>4. CASE Shutdown \/ CloseBrowser(Lifespan) \/ StopPlaywright(Lifespan) \/ ShutdownRaises
  <2>1. \A c \in Calls : c # Lifespan
    BY BrowserAssumption DEF BrowserAssumption
  <2> QED BY <1>1, <1>4, <2>1 DEF Shutdown, CloseBrowser, StopPlaywright, ShutdownRaises,
                                  Goto, IInv, TypeOK
<1>5. CASE UNCHANGED vars
  BY <1>1, <1>5 DEF vars
<1> QED BY <1>2, <1>3, <1>4, <1>5 DEF Next

(* Whoever waits for the lock or a permit is in the queue for it.  The lock *)
(* is with a call that still wants it or does the work of start; the first *)
(* waiter for a permit waits, and one is free or with a call in its page.  *)
QueuesAttended ==
  /\ \A c \in Calls : /\ at[c] \in Locked => In(starters, c)
                      /\ at[c] = "queue" => In(waiting, c)
  /\ starters # <<>> => at[Head(starters)] \in Locked
  /\ waiting # <<>> => at[Head(waiting)] = "queue" /\ (permits > 0 \/ Holders # {})

(* No error of start, of a page or of closing one leaves the lock or the   *)
(* permits with calls that are over: what CallsEnd needs of every state    *)
(* (fetch/browser.py:28-49 and 71-116).                                    *)
THEOREM QueuesAreAttended == Spec => []QueuesAttended
<1> DEFINE All == Located(at, starters, Locked) /\ Located(at, waiting, {"queue"})
<1>1. Init => All
  BY DEF Init, Located
<1>2. IInv /\ All /\ [Next]_vars => All'
  <2> SUFFICES ASSUME IInv, All, [Next]_vars PROVE All'
    OBVIOUS
  <2>1. starters \in Seq(Calls) /\ waiting \in Seq(Calls)
    BY DEF IInv, TypeOK
  <2>2. /\ Treats(at, at', starters, starters', Locked)
        /\ Treats(at, at', waiting, waiting', {"queue"})
    BY NextTreats DEF BothTreated
  <2>3. Located(at', starters', Locked) /\ Located(at', waiting', {"queue"})
    BY <2>1, <2>2, StillLocated
  <2> QED BY <2>3 DEF Located, Locked
<1>3. IInv /\ All => QueuesAttended
  <2> SUFFICES ASSUME IInv, All PROVE QueuesAttended
    OBVIOUS
  <2>1. starters \in Seq(Calls) /\ waiting \in Seq(Calls)
    BY DEF IInv, TypeOK
  <2>2. permits > 0 \/ Holders # {}
    <3>1. Holders = {} => Cardinality(Holders) = 0
      BY FS_EmptySet, Zenon
    <3> QED BY <3>1, BrowserAssumption DEF IInv, TypeOK, PermitsKept, BrowserAssumption
  <2>3. ASSUME NEW q \in Seq(Calls), q # <<>> PROVE Head(q) = q[1] /\ 1 \in 1..Len(q)
    BY <2>3
  <2> QED BY <2>1, <2>2, <2>3 DEF Located, QueuesAttended, IInv, QueueInv
<1> HIDE DEF All
<1> QED BY <1>1, <1>2, <1>3, Invariance, PTL DEF Spec
=============================================================================
