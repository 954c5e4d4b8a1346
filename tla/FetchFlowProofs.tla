--------------------------- MODULE FetchFlowProofs ---------------------------
(***************************************************************************)
(* Theorems about FetchFlow, for any number of processes, callers, keys    *)
(* and caches, any requests and any pages.                                 *)
(***************************************************************************)
EXTENDS FetchFlow, FiniteSetTheorems, TLAPS

USE DEF Modes, Strategies, Tristate, PageKinds, Successful, Upstream, Inside, Ended, Locations

Locked == {"wait"} \cup Inside

-----------------------------------------------------------------------------
(* The locks.  A caller that waits for a lock or holds it is in the queue  *)
(* of its key, and one past the second look at the cache is its head.      *)

LockType ==
  /\ pc \in [Callers -> Locations]
  /\ queue \in [Processes -> [Keys -> Seq(Callers)]]

Waits == \A c \in Callers : pc[c] \in Locked => \E i \in 1..Len(Queue(c)) : Queue(c)[i] = c

Held == \A c \in Callers : pc[c] \in Inside => Turn(c)

LockInv == LockType /\ Waits /\ Held

LEMMA KeyType ==
  /\ \A c \in Callers : Key(c) \in Keys /\ ProcOf[c] \in Processes /\ Req[c] \in Request
  /\ \A c \in Callers : StoreOf[ProcOf[c]] \in Stores
BY ConstantsAssumption DEF ConstantsAssumption, Keys

(* A caller that waits has a lock queue with something in it.              *)
LEMMA QueueType ==
  ASSUME LockInv, NEW c \in Callers
  PROVE  /\ Queue(c) \in Seq(Callers)
         /\ pc[c] \in Locked => Queue(c) # <<>>
BY KeyType DEF LockInv, LockType, Waits, Queue

(* Appending keeps the members and the head of a queue that had one.       *)
LEMMA Appending ==
  ASSUME NEW q \in Seq(Callers), NEW c \in Callers
  PROVE  /\ Append(q, c) \in Seq(Callers)
         /\ \E i \in 1..Len(Append(q, c)) : Append(q, c)[i] = c
         /\ \A d : (\E i \in 1..Len(q) : q[i] = d) => \E i \in 1..Len(Append(q, c)) : Append(q, c)[i] = d
         /\ q # <<>> => Head(Append(q, c)) = Head(q)
<1> DEFINE r == Append(q, c)
<1>1. /\ r \in Seq(Callers) /\ Len(r) = Len(q) + 1 /\ r[Len(q) + 1] = c
      /\ Len(q) \in Nat
      /\ \A i \in 1..Len(q) : r[i] = q[i]
  OBVIOUS
<1>2. \A i \in 1..Len(q) : i \in 1..Len(r)
  BY <1>1
<1>3. Len(q) + 1 \in 1..Len(r)
  BY <1>1
<1>4. q # <<>> => Head(r) = Head(q)
  OBVIOUS
<1> QED BY <1>1, <1>2, <1>3, <1>4

(* Taking the head away keeps every other member.                          *)
LEMMA Taking ==
  ASSUME NEW q \in Seq(Callers), q # <<>>
  PROVE  /\ Tail(q) \in Seq(Callers)
         /\ \A d : d # Head(q) /\ (\E i \in 1..Len(q) : q[i] = d) => \E i \in 1..Len(Tail(q)) : Tail(q)[i] = d
<1>1. Tail(q) \in Seq(Callers) /\ Len(Tail(q)) = Len(q) - 1 /\ Len(q) \in Nat
  OBVIOUS
<1>2. ASSUME NEW d, d # Head(q), NEW i \in 1..Len(q), q[i] = d
      PROVE  \E j \in 1..Len(Tail(q)) : Tail(q)[j] = d
  <2>1. i # 1
    BY <1>2
  <2>2. i - 1 \in 1..Len(Tail(q))
    BY <2>1, <1>1
  <2>3. Tail(q)[i - 1] = q[i]
    BY <2>2, <1>1
  <2> QED BY <1>2, <2>2, <2>3
<1> QED BY <1>1, <1>2

(* A caller goes on without touching its lock, and gets inside only from   *)
(* inside or when its turn has come.                                       *)
LEMMA LockMove ==
  ASSUME LockInv, NEW c \in Callers, NEW l \in Locations,
         pc' = [pc EXCEPT ![c] = l], queue' = queue, l # "wait",
         l \in Inside => pc[c] \in Inside \/ (pc[c] = "wait" /\ Turn(c))
  PROVE  LockInv'
<1>1. LockType'
  BY DEF LockInv, LockType
<1>2. \A d \in Callers : pc'[d] = IF d = c THEN l ELSE pc[d]
  BY DEF LockInv, LockType
<1>3. Waits'
  BY <1>2 DEF LockInv, Waits, Queue, Locked
<1>4. Held'
  BY <1>2 DEF LockInv, Held, Turn, Queue
<1> QED BY <1>1, <1>3, <1>4 DEF LockInv

(* The holder releases the lock: nobody else was inside.                   *)
LEMMA LockRelease ==
  ASSUME LockInv, NEW c \in Callers, NEW l \in Locations,
         pc' = [pc EXCEPT ![c] = l], Release(c), l \notin Locked,
         pc[c] \in Inside \/ (pc[c] = "wait" /\ Turn(c))
  PROVE  LockInv'
<1> DEFINE p == ProcOf[c]
           k == Key(c)
<1>1. Turn(c) /\ pc[c] \in Locked
  BY DEF LockInv, Held, Locked
<1>2. Queue(c) \in Seq(Callers) /\ Queue(c) # <<>>
  BY <1>1, QueueType
<1>3. p \in Processes /\ k \in Keys
  BY KeyType
<1>4. LockType'
  <2>1. Tail(queue[p][k]) \in Seq(Callers)
    BY <1>2, Taking DEF Queue
  <2> QED BY <1>3, <2>1 DEF Release, LockInv, LockType
<1>5. \A d \in Callers : pc'[d] = IF d = c THEN l ELSE pc[d]
  BY DEF LockInv, LockType
<1>6. ASSUME NEW d \in Callers
      PROVE  Queue(d)' = IF ProcOf[d] = p /\ Key(d) = k THEN Tail(Queue(c)) ELSE Queue(d)
  <2>1. ProcOf[d] \in Processes /\ Key(d) \in Keys
    BY KeyType
  <2> QED BY <1>3, <2>1 DEF Release, Queue, LockInv, LockType
<1>7. Waits'
  <2> SUFFICES ASSUME NEW d \in Callers, pc'[d] \in Locked
               PROVE  \E i \in 1..Len(Queue(d)') : Queue(d)'[i] = d
    BY DEF Waits, Queue
  <2>1. d # c /\ pc[d] \in Locked
    BY <1>5
  <2>2. \E i \in 1..Len(Queue(d)) : Queue(d)[i] = d
    BY <2>1 DEF LockInv, Waits
  <2>3. CASE ProcOf[d] = p /\ Key(d) = k
    <3>1. Queue(d) = Queue(c) /\ Queue(d)' = Tail(Queue(c))
      BY <2>3, <1>6 DEF Queue
    <3>2. d # Head(Queue(c))
      BY <1>1, <2>1 DEF Turn
    <3>3. \E i \in 1..Len(Tail(Queue(c))) : Tail(Queue(c))[i] = d
      <4> DEFINE q == Queue(c)
      <4>1. q \in Seq(Callers) /\ q # <<>> /\ d # Head(q) /\ \E i \in 1..Len(q) : q[i] = d
        BY <2>2, <3>1, <3>2, <1>2
      <4> HIDE DEF q
      <4>2. \E i \in 1..Len(Tail(q)) : Tail(q)[i] = d
        BY <4>1, Taking
      <4> QED BY <4>2 DEF q
    <3> QED BY <3>1, <3>3
  <2>4. CASE ~(ProcOf[d] = p /\ Key(d) = k)
    BY <2>4, <1>6, <2>2
  <2> QED BY <2>3, <2>4
<1>8. Held'
  <2> SUFFICES ASSUME NEW d \in Callers, pc'[d] \in Inside
               PROVE  Head(Queue(d)') = d
    BY DEF Held, Turn, Queue
  <2>1. d # c /\ pc[d] \in Inside
    BY <1>5 DEF Locked
  <2>2. Head(Queue(d)) = d
    BY <2>1 DEF LockInv, Held, Turn
  <2>3. ~(ProcOf[d] = p /\ Key(d) = k)
    BY <2>1, <2>2, <1>1 DEF Turn, Queue
  <2> QED BY <2>2, <2>3, <1>6
<1> QED BY <1>4, <1>7, <1>8 DEF LockInv

(* A caller joins the queue of its key, behind whoever is inside.          *)
LEMMA LockJoin ==
  ASSUME LockInv, NEW c \in Callers, Join(c)
  PROVE  LockInv'
<1> DEFINE p == ProcOf[c]
           k == Key(c)
<1>1. Queue(c) \in Seq(Callers)
  BY QueueType
<1>2. p \in Processes /\ k \in Keys
  BY KeyType
<1>3. LockType'
  <2>1. Append(queue[p][k], c) \in Seq(Callers)
    BY <1>1, Appending DEF Queue
  <2> QED BY <1>2, <2>1 DEF Join, Goto, LockInv, LockType
<1>4. \A d \in Callers : pc'[d] = IF d = c THEN "wait" ELSE pc[d]
  BY DEF LockInv, LockType, Join, Goto
<1>5. ASSUME NEW d \in Callers
      PROVE  Queue(d)' = IF ProcOf[d] = p /\ Key(d) = k THEN Append(Queue(c), c) ELSE Queue(d)
  <2>1. ProcOf[d] \in Processes /\ Key(d) \in Keys
    BY KeyType
  <2> QED BY <1>2, <2>1 DEF Join, Queue, LockInv, LockType
<1>6. Waits'
  <2> SUFFICES ASSUME NEW d \in Callers, pc'[d] \in Locked
               PROVE  \E i \in 1..Len(Queue(d)') : Queue(d)'[i] = d
    BY DEF Waits, Queue
  <2>1. CASE d = c
    BY <2>1, <1>1, <1>5, Appending
  <2>2. CASE d # c
    <3>1. \E i \in 1..Len(Queue(d)) : Queue(d)[i] = d
      BY <2>2, <1>4 DEF LockInv, Waits
    <3>2. CASE ProcOf[d] = p /\ Key(d) = k
      <4>1. Queue(d) = Queue(c) /\ Queue(d)' = Append(Queue(c), c)
        BY <3>2, <1>5 DEF Queue
      <4> QED BY <3>1, <4>1, <1>1, Appending
    <3> QED BY <3>1, <3>2, <1>5
  <2> QED BY <2>1, <2>2
<1>7. Held'
  <2> SUFFICES ASSUME NEW d \in Callers, pc'[d] \in Inside
               PROVE  Head(Queue(d)') = d
    BY DEF Held, Turn, Queue
  <2>1. d # c /\ pc[d] \in Inside
    BY <1>4
  <2>2. Head(Queue(d)) = d /\ Queue(d) # <<>>
    BY <2>1, QueueType DEF LockInv, Held, Turn, Locked
  <2>3. CASE ProcOf[d] = p /\ Key(d) = k
    <3>1. Queue(d) = Queue(c) /\ Queue(d)' = Append(Queue(c), c)
      BY <2>3, <1>5 DEF Queue
    <3> QED BY <2>2, <3>1, <1>1, Appending
  <2> QED BY <2>2, <2>3, <1>5
<1> QED BY <1>3, <1>6, <1>7 DEF LockInv

(* A crash empties the locks of one process and ends its calls.            *)
LEMMA LockCrash ==
  ASSUME LockInv, NEW p \in Processes, Crash(p)
  PROVE  LockInv'
<1>1. LockType'
  BY DEF Crash, LockInv, LockType
<1>2. ASSUME NEW d \in Callers, pc'[d] \in Locked
      PROVE  ProcOf[d] # p /\ pc[d] = pc'[d] /\ Queue(d)' = Queue(d)
  <2>1. ProcOf[d] # p /\ pc[d] = pc'[d]
    BY <1>2 DEF Crash, Locked, LockInv, LockType
  <2>2. ProcOf[d] \in Processes /\ Key(d) \in Keys
    BY KeyType
  <2> QED BY <2>1, <2>2 DEF Crash, Queue, LockInv, LockType
<1>3. Waits'
  BY <1>2 DEF Waits, LockInv, Queue
<1>4. Held'
  BY <1>2 DEF Held, Turn, LockInv, Queue, Locked
<1> QED BY <1>1, <1>3, <1>4 DEF LockInv

LEMMA LockInit == Init => LockInv
BY DEF Init, LockInv, LockType, Waits, Held, Locked

-----------------------------------------------------------------------------
(* What a caller carries at each await.  This is the strengthening that    *)
(* CachedIsGood and AnswersFit need.                                       *)

DataType ==
  /\ got \in [Callers -> {NULL} \cup Results]
  /\ cached \in [Callers -> BOOLEAN]
  /\ cache \in [Stores -> [Keys -> {NULL} \cup Results]]
  /\ lost \in [Stores -> [Keys -> Nat]]
  /\ \A c \in Callers : got[c] # NULL <=> pc[c] \in {"save", "store", "done"}

(* On its way to an answer: what is fetched so far fits the request.       *)
Carries(c) ==
  /\ pc[c] = "look" => Reads(c)
  /\ pc[c] = "browser" => Req[c].mode # "http"
  /\ pc[c] \in {"save", "store"} =>
       /\ ~IsBlocked(got[c].page)
       /\ Req[c].mode = "http" => got[c].strategy = "http"
  /\ pc[c] = "store" => got[c].artifact = Saves(Req[c].save)
  /\ cached[c] => pc[c] = "done"

(* At its end: the answer fits the request.                                *)
Fits(c) ==
  pc[c] = "done" =>
    /\ ~IsBlocked(got[c].page)
    /\ got[c].artifact = Saves(Req[c].save)
    /\ Req[c].mode = "http" => got[c].strategy = "http"
    /\ cached[c] => Reads(c) /\ got[c].page \in Successful

CallerInv == \A c \in Callers : Carries(c) /\ Fits(c)

IInv == LockInv /\ DataType /\ CallerInv /\ CachedIsGood

LEMMA InvInit == Init => IInv
<1> SUFFICES ASSUME Init PROVE IInv
  OBVIOUS
<1>1. DataType
  BY DEF Init, DataType
<1>2. CallerInv
  BY DEF Init, CallerInv, Carries, Fits
<1>3. CachedIsGood
  BY DEF Init, CachedIsGood
<1> QED BY <1>1, <1>2, <1>3, LockInit DEF IInv

(* Steps that move one caller and leave cache and answers alone: only the  *)
(* mover has to be looked at.                                              *)
LEMMA DataMove ==
  ASSUME IInv, NEW c \in Callers, NEW l \in Locations, NEW g \in {NULL} \cup Results,
         pc' = [pc EXCEPT ![c] = l], got' = [got EXCEPT ![c] = g],
         UNCHANGED <<cached, cache, lost>>,
         g # NULL <=> l \in {"save", "store", "done"},
         (Carries(c) /\ Fits(c))'
  PROVE  (DataType /\ CallerInv /\ CachedIsGood)'
<1>1. \A d \in Callers : d # c => pc'[d] = pc[d] /\ got'[d] = got[d]
  BY DEF IInv, LockInv, LockType, DataType
<1>2. pc'[c] = l /\ got'[c] = g
  BY DEF IInv, LockInv, LockType, DataType
<1>3. DataType'
  BY <1>1, <1>2 DEF IInv, DataType
<1>4. CallerInv'
  <2> SUFFICES ASSUME NEW d \in Callers, d # c PROVE (Carries(d) /\ Fits(d))'
    BY DEF CallerInv
  <2> QED BY <1>1 DEF IInv, CallerInv, Carries, Fits
<1>5. CachedIsGood'
  BY DEF IInv, CachedIsGood
<1> QED BY <1>3, <1>4, <1>5

(* The key of a request says whether it wants an artifact and its mode.    *)
LEMMA KeyFields ==
  \A c \in Callers : Key(c).save = Req[c].save /\ Key(c).mode = Req[c].mode
BY DEF Key, FetchKey

LEMMA RaiseInv ==
  ASSUME IInv, NEW c \in Callers, Raise(c),
         pc[c] \in Inside \/ (pc[c] = "wait" /\ Turn(c))
  PROVE  IInv'
<1>1. pc' = [pc EXCEPT ![c] = "failed"] /\ got' = [got EXCEPT ![c] = NULL]
  BY DEF Raise, Goto
<1>2. LockInv'
  BY <1>1, LockRelease DEF Raise, IInv, Locked
<1>3. pc'[c] = "failed"
  BY <1>1 DEF IInv, LockInv, LockType
<1>4. ~cached[c]
  BY DEF IInv, CallerInv, Carries
<1>5. (Carries(c) /\ Fits(c))'
  BY <1>3, <1>4 DEF Raise, Carries, Fits
<1> QED BY <1>1, <1>2, <1>5, DataMove DEF Raise, IInv

(* An entry found under the request's key fits the request.                *)
LEMMA AnswerInv ==
  ASSUME IInv, NEW c \in Callers, AnswerFromCache(c), Reads(c), Entry(c) # NULL
  PROVE  (DataType /\ CallerInv /\ CachedIsGood)'
<1> DEFINE e == Entry(c)
<1>1. /\ e \in Results
      /\ e.page \in Successful /\ e.artifact = Saves(Req[c].save)
      /\ Req[c].mode = "http" => e.strategy = "http"
  BY KeyType, KeyFields DEF Entry, IInv, DataType, CachedIsGood
<1>2. pc'[c] = "done" /\ got'[c] = e /\ cached'[c] = TRUE
  BY DEF AnswerFromCache, Goto, IInv, LockInv, LockType, DataType
<1>3. \A d \in Callers : d # c => pc'[d] = pc[d] /\ got'[d] = got[d] /\ cached'[d] = cached[d]
  BY DEF AnswerFromCache, Goto, IInv, LockInv, LockType, DataType
<1>4. DataType'
  BY <1>1, <1>2, <1>3 DEF AnswerFromCache, Goto, IInv, DataType
<1>5. (Carries(c) /\ Fits(c))'
  BY <1>1, <1>2 DEF Carries, Fits, IsBlocked, Reads
<1>6. ASSUME NEW d \in Callers, d # c PROVE (Carries(d) /\ Fits(d))'
  BY <1>3, <1>6 DEF IInv, CallerInv, Carries, Fits, Reads
<1>7. CachedIsGood'
  BY DEF AnswerFromCache, IInv, CachedIsGood
<1> QED BY <1>4, <1>5, <1>6, <1>7 DEF CallerInv

LEMMA LookInv ==
  ASSUME IInv, NEW c \in Callers, Look(c)
  PROVE  IInv'
<1>1. Reads(c)
  BY DEF Look, IInv, CallerInv, Carries
<1>2. CASE Entry(c) # NULL /\ AnswerFromCache(c)
  <2>1. LockInv'
    BY <1>2, LockMove DEF Look, AnswerFromCache, Goto, IInv
  <2> QED BY <1>1, <1>2, <2>1, AnswerInv DEF IInv
<1>3. CASE Goto(c, "join") /\ UNCHANGED <<got, cached, cache, lost>>
  <2>1. LockInv'
    BY <1>3, LockMove DEF Look, Goto, IInv
  <2>2. pc'[c] = "join"
    BY <1>3 DEF Goto, IInv, LockInv, LockType
  <2>3. got[c] = NULL /\ ~cached[c]
    BY DEF Look, IInv, DataType, CallerInv, Carries
  <2>4. got' = [got EXCEPT ![c] = NULL]
    BY <1>3, <2>3 DEF IInv, DataType
  <2>5. (Carries(c) /\ Fits(c))'
    BY <1>3, <2>2, <2>3 DEF Carries, Fits
  <2> QED BY <1>3, <2>1, <2>4, <2>5, DataMove DEF Goto, IInv
<1> QED BY <1>2, <1>3 DEF Look

(* Moves of a caller that has no result yet.                               *)
LEMMA EmptyMove ==
  ASSUME IInv, NEW c \in Callers, NEW l \in Locations \ {"save", "store", "done"},
         pc[c] \notin {"save", "store", "done"},
         pc' = [pc EXCEPT ![c] = l], UNCHANGED <<got, cached, cache, lost>>,
         l = "look" => Reads(c),
         l = "browser" => Req[c].mode # "http"
  PROVE  (DataType /\ CallerInv /\ CachedIsGood)'
<1>1. pc'[c] = l
  BY DEF IInv, LockInv, LockType
<1>2. got[c] = NULL /\ ~cached[c]
  BY DEF IInv, DataType, CallerInv, Carries
<1>3. got' = [got EXCEPT ![c] = NULL]
  BY <1>2 DEF IInv, DataType
<1>4. (Carries(c) /\ Fits(c))'
  BY <1>1, <1>2 DEF Carries, Fits, Reads
<1> QED BY <1>3, <1>4, DataMove

LEMMA ComingInv ==
  ASSUME IInv, NEW c \in Callers, Arrive(c) \/ LookError(c) \/ Join(c)
  PROVE  IInv'
<1>1. CASE Arrive(c)
  <2> DEFINE l == IF ~Req[c].valid THEN "failed" ELSE IF Reads(c) THEN "look" ELSE "join"
  <2>1. l \in {"failed", "look", "join"} /\ (l = "look" => Reads(c))
    OBVIOUS
  <2>2. pc' = [pc EXCEPT ![c] = l] /\ pc[c] = "new" /\ UNCHANGED <<got, cached, queue, cache, lost>>
    BY <1>1 DEF Arrive, Goto
  <2> HIDE DEF l
  <2>3. LockInv'
    BY <2>1, <2>2, LockMove DEF IInv
  <2>4. (DataType /\ CallerInv /\ CachedIsGood)'
    BY <2>1, <2>2, EmptyMove
  <2> QED BY <2>3, <2>4 DEF IInv
<1>2. CASE LookError(c) /\ pc[c] = "look"
  <2>1. pc' = [pc EXCEPT ![c] = "failed"] /\ UNCHANGED <<got, cached, queue, cache, lost>>
    BY <1>2 DEF LookError, Goto
  <2>2. LockInv'
    BY <2>1, LockMove DEF IInv
  <2>3. (DataType /\ CallerInv /\ CachedIsGood)'
    BY <1>2, <2>1, EmptyMove
  <2> QED BY <2>2, <2>3 DEF IInv
<1>3. CASE LookError(c) /\ pc[c] # "look"
  BY <1>3, RaiseInv DEF LookError
<1>4. CASE Join(c)
  <2>1. LockInv'
    BY <1>4, LockJoin DEF IInv
  <2>2. (DataType /\ CallerInv /\ CachedIsGood)'
    BY <1>4, EmptyMove DEF Join, Goto
  <2> QED BY <2>1, <2>2 DEF IInv
<1> QED BY <1>1, <1>2, <1>3, <1>4

LEMMA EnterInv ==
  ASSUME IInv, NEW c \in Callers, EnterHit(c) \/ EnterMiss(c)
  PROVE  IInv'
<1>1. CASE EnterHit(c)
  <2>1. LockInv'
    BY <1>1, LockRelease DEF EnterHit, AnswerFromCache, Goto, IInv, Locked
  <2>2. Reads(c) /\ Entry(c) # NULL /\ AnswerFromCache(c)
    BY <1>1 DEF EnterHit, Hit
  <2> QED BY <2>1, <2>2, AnswerInv DEF IInv
<1>2. CASE EnterMiss(c)
  <2> DEFINE l == IF Req[c].mode = "browser" THEN "browser" ELSE "http"
  <2>1. l \in {"browser", "http"} /\ (l = "browser" => Req[c].mode # "http")
    OBVIOUS
  <2>2. /\ pc' = [pc EXCEPT ![c] = l] /\ pc[c] = "wait" /\ Turn(c)
        /\ UNCHANGED <<got, cached, queue, cache, lost>>
    BY <1>2 DEF EnterMiss, Goto
  <2> HIDE DEF l
  <2>3. LockInv'
    BY <2>1, <2>2, LockMove DEF IInv
  <2>4. (DataType /\ CallerInv /\ CachedIsGood)'
    BY <2>1, <2>2, EmptyMove
  <2> QED BY <2>3, <2>4 DEF IInv
<1> QED BY <1>1, <1>2

(* A page is kept only if it is not blocked.                               *)
LEMMA KeepInv ==
  ASSUME IInv, NEW c \in Callers, NEW page \in Pages, NEW strategy \in Strategies,
         Keep(c, page, strategy), pc[c] \in Inside,
         Req[c].mode = "http" => strategy = "http"
  PROVE  IInv'
<1> DEFINE g == [page |-> page, strategy |-> strategy, artifact |-> FALSE]
<1>1. CASE IsBlocked(page)
  BY <1>1, RaiseInv DEF Keep
<1>2. CASE ~IsBlocked(page)
  <2>1. /\ pc' = [pc EXCEPT ![c] = "save"] /\ got' = [got EXCEPT ![c] = g]
        /\ UNCHANGED <<cached, queue, cache, lost>>
    BY <1>2 DEF Keep, Goto
  <2>2. g \in Results /\ g # NULL
    <3>1. page \in PageKinds
      BY ConstantsAssumption DEF ConstantsAssumption
    <3>2. g \in Results
      BY <3>1 DEF Results
    <3>3. NULL \notin Results
      BY ConstantsAssumption DEF ConstantsAssumption, Results
    <3> QED BY <3>2, <3>3
  <2>3. LockInv'
    BY <2>1, LockMove DEF IInv
  <2>4. pc'[c] = "save" /\ got'[c] = g /\ ~cached'[c]
    BY <2>1, <2>2 DEF IInv, LockInv, LockType, DataType, CallerInv, Carries
  <2>5. (Carries(c) /\ Fits(c))'
    BY <1>2, <2>4 DEF Carries, Fits
  <2>6. (DataType /\ CallerInv /\ CachedIsGood)'
    BY <2>1, <2>2, <2>5, DataMove
  <2> QED BY <2>3, <2>6 DEF IInv
<1> QED BY <1>1, <1>2

LEMMA UpstreamInv ==
  ASSUME IInv, NEW c \in Callers,
         HttpPage(c) \/ BrowserPage(c) \/ BrowserFallback(c) \/ FetchError(c)
  PROVE  IInv'
<1>1. ASSUME pc[c] = "http", NEW l \in {"browser", "http"}, Req[c].mode # "http",
             pc' = [pc EXCEPT ![c] = l], UNCHANGED <<got, cached, queue, cache, lost>>
      PROVE  IInv'
  BY <1>1, LockMove, EmptyMove DEF IInv
<1>2. CASE HttpPage(c)
  <2> PICK page \in Pages :
        IF Req[c].mode = "auto" /\ Upgrades(Req[c], page)
        THEN Goto(c, "browser") /\ UNCHANGED <<got, cached, queue, cache, lost>>
        ELSE Keep(c, page, "http")
    BY <1>2 DEF HttpPage
  <2>1. CASE Req[c].mode = "auto" /\ Upgrades(Req[c], page)
    BY <1>1, <1>2, <2>1 DEF HttpPage, Goto
  <2>2. CASE ~(Req[c].mode = "auto" /\ Upgrades(Req[c], page))
    BY <1>2, <2>2, KeepInv DEF HttpPage
  <2> QED BY <2>1, <2>2
<1>3. CASE BrowserPage(c)
  <2>1. Req[c].mode # "http"
    BY <1>3 DEF BrowserPage, IInv, CallerInv, Carries
  <2> QED BY <1>3, <2>1, KeepInv DEF BrowserPage
<1>4. CASE BrowserFallback(c)
  <2>1. pc' = [pc EXCEPT ![c] = "http"] /\ UNCHANGED <<got, cached, queue, cache, lost>>
    BY <1>4 DEF BrowserFallback, Goto
  <2>2. pc[c] = "browser"
    BY <1>4 DEF BrowserFallback
  <2> QED BY <2>1, <2>2, LockMove, EmptyMove DEF IInv
<1>5. CASE FetchError(c)
  BY <1>5, RaiseInv DEF FetchError
<1> QED BY <1>2, <1>3, <1>4, <1>5

LEMMA SaveInv ==
  ASSUME IInv, NEW c \in Callers, Save(c) \/ SaveError(c)
  PROVE  IInv'
<1>1. CASE Save(c)
  <2> DEFINE g == [got[c] EXCEPT !.artifact = Saves(Req[c].save)]
  <2>1. got[c] \in Results /\ got[c] # NULL
    BY <1>1 DEF Save, IInv, DataType
  <2>2. g \in Results /\ g.page = got[c].page /\ g.strategy = got[c].strategy
        /\ g.artifact = Saves(Req[c].save)
    <3>1. Saves(Req[c].save) \in BOOLEAN
      BY ConstantsAssumption DEF Saves, ConstantsAssumption
    <3> QED BY <2>1, <3>1 DEF Results
  <2>3. g # NULL
    BY <2>2, ConstantsAssumption DEF ConstantsAssumption, Results
  <2>4. got' = [got EXCEPT ![c] = g] /\ pc' = [pc EXCEPT ![c] = "store"]
        /\ UNCHANGED <<cached, queue, cache, lost>>
    BY <1>1 DEF Save, Goto
  <2> HIDE DEF g
  <2>5. LockInv'
    BY <1>1, <2>4, LockMove DEF Save, IInv
  <2>6. pc'[c] = "store" /\ got'[c] = g /\ ~cached'[c]
    BY <1>1, <2>2, <2>4 DEF Save, IInv, LockInv, LockType, DataType, CallerInv, Carries
  <2>7. ~IsBlocked(g.page) /\ (Req[c].mode = "http" => g.strategy = "http")
    BY <1>1, <2>2 DEF Save, IInv, CallerInv, Carries
  <2>8. (Carries(c) /\ Fits(c))'
    BY <2>2, <2>6, <2>7 DEF Carries, Fits
  <2>9. (DataType /\ CallerInv /\ CachedIsGood)'
    BY <2>2, <2>3, <2>4, <2>8, DataMove
  <2> QED BY <2>5, <2>9 DEF IInv
<1>2. CASE SaveError(c)
  BY <1>2, RaiseInv DEF SaveError
<1> QED BY <1>1, <1>2

(* A stored result is what every request with the key may be given.        *)
LEMMA StoreInv ==
  ASSUME IInv, NEW c \in Callers, Store(c) \/ StoreError(c)
  PROVE  IInv'
<1>1. CASE Store(c)
  <2>1. /\ pc[c] = "store" /\ pc' = [pc EXCEPT ![c] = "done"]
        /\ UNCHANGED <<got, cached, lost>>
    BY <1>1 DEF Store, Goto
  <2>2. LockInv'
    BY <1>1, <2>1, LockRelease DEF Store, IInv, Locked
  <2>3. got[c] \in Results /\ ~IsBlocked(got[c].page) /\ got[c].artifact = Saves(Req[c].save)
        /\ (Req[c].mode = "http" => got[c].strategy = "http") /\ ~cached[c]
    BY <2>1 DEF IInv, DataType, CallerInv, Carries
  <2>4. \A d \in Callers : pc'[d] = IF d = c THEN "done" ELSE pc[d]
    BY <2>1 DEF IInv, LockInv, LockType
  <2>5. cache' \in [Stores -> [Keys -> {NULL} \cup Results]]
    BY <1>1, <2>3, KeyType DEF Store, IInv, DataType
  <2>6. DataType'
    BY <2>1, <2>4, <2>5 DEF IInv, DataType
  <2>7. CallerInv'
    BY <2>1, <2>3, <2>4 DEF IInv, CallerInv, Carries, Fits, Reads
  <2>8. CachedIsGood'
    <3> SUFFICES ASSUME NEW s \in Stores, NEW k \in Keys, cache'[s][k] # cache[s][k]
                 PROVE  /\ cache'[s][k].page \in Successful
                        /\ cache'[s][k].artifact = Saves(k.save)
                        /\ k.mode = "http" => cache'[s][k].strategy = "http"
      BY DEF CachedIsGood, IInv
    <3>1. s = StoreOf[ProcOf[c]] /\ k = Key(c) /\ cache'[s][k] = got[c] /\ Cacheable(c)
      BY <1>1, KeyType DEF Store, IInv, DataType
    <3> QED BY <3>1, <2>3, KeyFields DEF Cacheable
  <2> QED BY <2>2, <2>6, <2>7, <2>8 DEF IInv
<1>2. CASE StoreError(c)
  BY <1>2, RaiseInv DEF StoreError
<1> QED BY <1>1, <1>2

LEMMA ExpireInv ==
  ASSUME IInv, NEW s \in Stores, NEW k \in Keys, Expire(s, k)
  PROVE  IInv'
<1>1. LockInv'
  BY DEF Expire, IInv, LockInv, LockType, Waits, Held, Turn, Queue
<1>2. DataType'
  BY DEF Expire, IInv, DataType
<1>3. CallerInv'
  BY DEF Expire, IInv, CallerInv, Carries, Fits
<1>4. \A t \in Stores, l \in Keys : cache'[t][l] # NULL => cache'[t][l] = cache[t][l]
  BY DEF Expire, IInv, DataType
<1>5. CachedIsGood'
  BY <1>4 DEF IInv, CachedIsGood
<1> QED BY <1>1, <1>2, <1>3, <1>5 DEF IInv

LEMMA CrashInv ==
  ASSUME IInv, NEW p \in Processes, Crash(p)
  PROVE  IInv'
<1>1. LockInv'
  BY LockCrash DEF IInv
<1>2. ASSUME NEW c \in Callers
      PROVE  \/ pc'[c] = "lost" /\ got'[c] = NULL /\ ~cached[c]
             \/ pc'[c] = pc[c] /\ pc[c] # "lost" /\ got'[c] = got[c]
  BY DEF Crash, IInv, LockInv, LockType, DataType, CallerInv, Carries
<1>3. \A t \in Stores, l \in Keys : cache'[t][l] = NULL \/ cache'[t][l] = cache[t][l]
  BY DEF Crash, IInv, DataType
<1>4. DataType'
  <2>1. got' \in [Callers -> {NULL} \cup Results]
    BY DEF Crash, IInv, DataType
  <2>2. cache' \in [Stores -> [Keys -> {NULL} \cup Results]]
    BY DEF Crash, IInv, DataType
  <2>3. lost' \in [Stores -> [Keys -> Nat]]
    BY DEF Crash, IInv, DataType
  <2>4. \A c \in Callers : got'[c] # NULL <=> pc'[c] \in {"save", "store", "done"}
    BY <1>2 DEF IInv, DataType
  <2> QED BY <2>1, <2>2, <2>3, <2>4 DEF Crash, IInv, DataType
<1>5. CallerInv'
  BY <1>2 DEF Crash, IInv, CallerInv, Carries, Fits, Reads
<1>6. CachedIsGood'
  BY <1>3 DEF IInv, CachedIsGood
<1> QED BY <1>1, <1>4, <1>5, <1>6 DEF IInv

LEMMA InvStep == IInv /\ [Next]_vars => IInv'
<1> SUFFICES ASSUME IInv, [Next]_vars PROVE IInv'
  OBVIOUS
<1>1. ASSUME NEW c \in Callers, Arrive(c) \/ Step(c) PROVE IInv'
  BY <1>1, ComingInv, LookInv, EnterInv, UpstreamInv, SaveInv, StoreInv DEF Step
<1>2. ASSUME NEW s \in Stores, NEW k \in Keys, Expire(s, k) PROVE IInv'
  BY <1>2, ExpireInv
<1>3. ASSUME NEW p \in Processes, Crash(p) PROVE IInv'
  BY <1>3, CrashInv
<1>4. CASE UNCHANGED vars
  BY <1>4 DEF vars, IInv, LockInv, LockType, Waits, Held, Turn, Queue, DataType,
              CallerInv, Carries, Fits, CachedIsGood
<1> QED BY <1>1, <1>2, <1>3, <1>4 DEF Next

LEMMA Invariance == Spec => []IInv
BY InvInit, InvStep, PTL DEF Spec

-----------------------------------------------------------------------------
(* Callers, results, locks and entries keep their types.                   *)
THEOREM TypeCorrect == Spec => []TypeOK
<1>1. IInv => TypeOK
  BY DEF IInv, LockInv, LockType, DataType, TypeOK
<1> QED BY <1>1, Invariance, PTL

(* In a process at most one call per fetch key is past the second look at  *)
(* the cache, whatever fails and crashes (FetchService.fetch).             *)
THEOREM OneUpstreamHolds == Spec => []OneUpstream
<1>1. IInv => OneUpstream
  BY DEF IInv, LockInv, Held, Turn, Queue, OneUpstream
<1> QED BY <1>1, Invariance, PTL

(* Only successes that fit their key are ever cached.                      *)
THEOREM CachedIsGoodHolds == Spec => []CachedIsGood
<1>1. IInv => CachedIsGood
  BY DEF IInv
<1> QED BY <1>1, Invariance, PTL

(* Every answer, fetched or cached, fits the request it is given to.       *)
THEOREM AnswersFitHolds == Spec => []AnswersFit
<1>1. IInv => AnswersFit
  BY DEF IInv, CallerInv, Fits, AnswersFit
<1> QED BY <1>1, Invariance, PTL

-----------------------------------------------------------------------------
(* Coalesced calls.  Who has fetched a page that the cache took owes it to *)
(* an entry that was missing: it found none under the lock, nobody else of *)
(* its process was past that look, and its own entry is there when the     *)
(* lock is free again.                                                     *)

Fresh(p, k) == {c \in Callers : /\ ProcOf[c] = p /\ Key(c) = k /\ Reads(c)
                                /\ pc[c] = "done" /\ ~cached[c]
                                /\ got[c].page \in Successful}

Missing(p, k) == cache[StoreOf[p]][k] = NULL

AtWork(p, k) == \E c \in Callers : /\ ProcOf[c] = p /\ Key(c) = k /\ Reads(c)
                                   /\ pc[c] \in Inside

Owed(p, k) ==
  /\ IsFiniteSet(Fresh(p, k))
  /\ Cardinality(Fresh(p, k)) <= 1 + lost[StoreOf[p]][k]
  /\ Missing(p, k) \/ AtWork(p, k) =>
       Cardinality(Fresh(p, k)) <= lost[StoreOf[p]][k]

(* A call that is over stays as it is, and one ends with a page of its own *)
(* at cache.set only.                                                      *)
LEMMA EndSteps ==
  ASSUME IInv, [Next]_vars, NEW c \in Callers
  PROVE  \/ pc'[c] = pc[c] /\ got'[c] = got[c] /\ cached'[c] = cached[c]
         \/ pc[c] # "done" /\ (pc'[c] # "done" \/ cached'[c])
         \/ Store(c)
<1>0. LockType /\ DataType
  BY DEF IInv, LockInv
<1>1. ASSUME NEW d \in Callers, Arrive(d) \/ Join(d) \/ EnterMiss(d) \/ BrowserFallback(d)
      PROVE  \/ pc'[c] = pc[c] /\ got'[c] = got[c] /\ cached'[c] = cached[c]
             \/ pc[c] # "done" /\ pc'[c] # "done"
  BY <1>0, <1>1 DEF Arrive, Join, EnterMiss, BrowserFallback, Goto, LockType
<1>2. ASSUME NEW d \in Callers, pc[d] # "done", Raise(d)
      PROVE  \/ pc'[c] = pc[c] /\ got'[c] = got[c] /\ cached'[c] = cached[c]
             \/ pc[c] # "done" /\ pc'[c] # "done"
  BY <1>0, <1>2 DEF Raise, Goto, LockType, DataType
<1>3. ASSUME NEW d \in Callers, pc[d] # "done", AnswerFromCache(d)
      PROVE  \/ pc'[c] = pc[c] /\ got'[c] = got[c] /\ cached'[c] = cached[c]
             \/ pc[c] # "done" /\ cached'[c]
  BY <1>0, <1>3 DEF AnswerFromCache, Goto, LockType, DataType
<1>4. ASSUME NEW d \in Callers, Look(d) \/ LookError(d) \/ EnterHit(d)
      PROVE  \/ pc'[c] = pc[c] /\ got'[c] = got[c] /\ cached'[c] = cached[c]
             \/ pc[c] # "done" /\ (pc'[c] # "done" \/ cached'[c])
  <2>1. pc[d] # "done"
    BY <1>4 DEF Look, LookError, EnterHit
  <2>2. \/ Raise(d) \/ AnswerFromCache(d)
        \/ \E l \in {"join", "failed"} : Goto(d, l) /\ UNCHANGED <<got, cached>>
    BY <1>4 DEF Look, LookError, EnterHit
  <2> QED BY <1>0, <1>2, <1>3, <2>1, <2>2 DEF Goto, LockType
<1>5. ASSUME NEW d \in Callers, pc[d] # "done",
             NEW page \in Pages, NEW strategy \in Strategies, Keep(d, page, strategy)
      PROVE  \/ pc'[c] = pc[c] /\ got'[c] = got[c] /\ cached'[c] = cached[c]
             \/ pc[c] # "done" /\ pc'[c] # "done"
  BY <1>0, <1>2, <1>5 DEF Keep, Goto, LockType, DataType
<1>6. ASSUME NEW d \in Callers, HttpPage(d) \/ BrowserPage(d)
      PROVE  \/ pc'[c] = pc[c] /\ got'[c] = got[c] /\ cached'[c] = cached[c]
             \/ pc[c] # "done" /\ pc'[c] # "done"
  <2>1. pc[d] # "done"
    BY <1>6 DEF HttpPage, BrowserPage
  <2>2. \/ \E page \in Pages, strategy \in Strategies : Keep(d, page, strategy)
        \/ Goto(d, "browser") /\ UNCHANGED <<got, cached>>
    BY <1>6 DEF HttpPage, BrowserPage
  <2> QED BY <1>0, <1>5, <2>1, <2>2 DEF Goto, LockType
<1>7. ASSUME NEW d \in Callers, FetchError(d) \/ SaveError(d) \/ StoreError(d)
      PROVE  pc[d] # "done" /\ Raise(d)
  BY <1>7 DEF FetchError, SaveError, StoreError
<1>8. ASSUME NEW d \in Callers, Save(d)
      PROVE  \/ pc'[c] = pc[c] /\ got'[c] = got[c] /\ cached'[c] = cached[c]
             \/ pc[c] # "done" /\ pc'[c] # "done"
  BY <1>0, <1>8 DEF Save, Goto, LockType, DataType
<1>9. ASSUME NEW d \in Callers, d # c, Store(d)
      PROVE  pc'[c] = pc[c] /\ got'[c] = got[c] /\ cached'[c] = cached[c]
  BY <1>0, <1>9 DEF Store, Goto, LockType
<1>10. ASSUME NEW p \in Processes, Crash(p)
       PROVE  \/ pc'[c] = pc[c] /\ got'[c] = got[c] /\ cached'[c] = cached[c]
              \/ pc[c] # "done" /\ pc'[c] # "done"
  <2>1. pc'[c] = IF ProcOf[c] = p /\ pc[c] \notin {"new"} \cup Ended
                 THEN "lost" ELSE pc[c]
    BY <1>10 DEF Crash
  <2>2. pc[c] = "lost" => got[c] = NULL
    BY <1>0 DEF DataType
  <2>3. cached'[c] = cached[c] /\ (pc'[c] # "lost" => got'[c] = got[c])
    BY <1>10 DEF Crash
  <2>4. pc[c] = "lost" => got'[c] = got[c]
    BY <1>10, <2>1, <2>2 DEF Crash
  <2>5. CASE pc'[c] = pc[c]
    BY <2>3, <2>4, <2>5
  <2>6. CASE pc'[c] # pc[c]
    BY <2>1, <2>6
  <2> QED BY <2>5, <2>6
<1>11. CASE UNCHANGED <<pc, got, cached>>
  BY <1>11
<1> QED BY <1>1, <1>2, <1>4, <1>6, <1>7, <1>8, <1>9, <1>10, <1>11
        DEF Next, Step, Expire, vars

(* A caller gets inside by EnterMiss only, and one that may use the cache  *)
(* then finds no entry.                                                    *)
LEMMA WorkSteps ==
  ASSUME IInv, [Next]_vars, NEW p \in Processes, NEW k \in Keys, AtWork(p, k)'
  PROVE  AtWork(p, k) \/ Missing(p, k)
<1>0. LockType
  BY DEF IInv, LockInv
<1>1. PICK c \in Callers : ProcOf[c] = p /\ Key(c) = k /\ Reads(c) /\ pc'[c] \in Inside
  BY DEF AtWork, Key, Reads
<1>2. CASE pc[c] \in Inside
  BY <1>1, <1>2 DEF AtWork
<1>3. CASE EnterMiss(c)
  BY <1>1, <1>3 DEF EnterMiss, Hit, Entry, Missing
<1>4. CASE pc[c] \notin Inside /\ ~EnterMiss(c)
  <2>1. ASSUME NEW d \in Callers, Arrive(d) \/ Step(d) PROVE FALSE
    <3>1. \E l \in Locations : pc' = [pc EXCEPT ![d] = l]
      BY <2>1 DEF Arrive, Step, Look, LookError, Join, EnterHit, EnterMiss, HttpPage,
                  BrowserPage, BrowserFallback, FetchError, Save, SaveError, Store,
                  StoreError, Keep, Raise, AnswerFromCache, Goto
    <3>2. d = c
      BY <1>0, <1>1, <1>4, <3>1 DEF LockType
    <3>3. CASE Arrive(c) \/ Join(c) \/ Look(c) \/ LookError(c) \/ EnterHit(c)
      BY <1>0, <1>1, <3>3 DEF Arrive, Join, Look, LookError, EnterHit, Raise,
                              AnswerFromCache, Goto, LockType
    <3> QED BY <1>4, <2>1, <3>2, <3>3
            DEF Step, HttpPage, BrowserPage, BrowserFallback, FetchError, Save,
                SaveError, Store, StoreError
  <2>2. ASSUME NEW q \in Processes, Crash(q) PROVE FALSE
    BY <1>0, <1>1, <1>4, <2>2 DEF Crash, LockType
  <2> QED BY <1>1, <1>4, <2>1, <2>2 DEF Next, Expire, vars
<1> QED BY <1>2, <1>3, <1>4

(* An entry that goes is counted as lost.                                  *)
LEMMA EntrySteps ==
  ASSUME IInv, [Next]_vars, NEW s \in Stores, NEW k \in Keys
  PROVE  /\ lost[s][k] \in Nat /\ lost'[s][k] \in Nat /\ lost[s][k] <= lost'[s][k]
         /\ cache'[s][k] = NULL => \/ cache[s][k] = NULL
                                   \/ lost'[s][k] = lost[s][k] + 1
<1>0. lost[s][k] \in Nat
  BY DEF IInv, DataType
<1>1. ASSUME NEW c \in Callers, Store(c)
      PROVE  lost' = lost /\ (cache'[s][k] = NULL => cache[s][k] = NULL)
  <2>1. got[c] # NULL
    BY <1>1 DEF Store, IInv, DataType
  <2> QED BY <1>1, <2>1, KeyType DEF Store, IInv, DataType
<1>2. ASSUME NEW t \in Stores, NEW l \in Keys, Expire(t, l)
      PROVE  \/ lost'[s][k] = lost[s][k] /\ cache'[s][k] = cache[s][k]
             \/ lost'[s][k] = lost[s][k] + 1
  BY <1>2 DEF Expire, IInv, DataType
<1>3. ASSUME NEW p \in Processes, Crash(p)
      PROVE  \/ /\ lost'[s][k] = lost[s][k]
                /\ cache'[s][k] = NULL => cache[s][k] = NULL
             \/ lost'[s][k] = lost[s][k] + 1
  BY <1>3 DEF Crash, IInv, DataType
<1>4. CASE UNCHANGED <<cache, lost>>
  BY <1>0, <1>4
<1>5. \/ UNCHANGED <<cache, lost>> \/ \E c \in Callers : Store(c)
      \/ \E t \in Stores, l \in Keys : Expire(t, l)
      \/ \E p \in Processes : Crash(p)
  BY DEF Next, Arrive, Step, Look, LookError, Join, EnterHit, EnterMiss, HttpPage,
         BrowserPage, BrowserFallback, FetchError, Save, SaveError, StoreError, Keep,
         Raise, AnswerFromCache, vars
<1> QED BY <1>0, <1>1, <1>2, <1>3, <1>4, <1>5

(* Only cache.set adds to the calls that fetched for themselves.           *)
LEMMA FreshSteps ==
  ASSUME IInv, [Next]_vars, NEW p \in Processes, NEW k \in Keys
  PROVE  \/ Fresh(p, k)' = Fresh(p, k)
         \/ \E c \in Callers : /\ Store(c) /\ ProcOf[c] = p /\ Key(c) = k /\ Reads(c)
                               /\ got[c].page \in Successful
                               /\ c \notin Fresh(p, k)
                               /\ Fresh(p, k)' = Fresh(p, k) \cup {c}
<1> DEFINE In(c) == ProcOf[c] = p /\ Key(c) = k /\ Reads(c)
<1>1. ASSUME NEW c \in Callers, ~Store(c) PROVE c \in Fresh(p, k)' <=> c \in Fresh(p, k)
  BY <1>1, EndSteps DEF Fresh, Key, Reads
<1>2. CASE \E c \in Callers : Store(c)
  <2>1. PICK c \in Callers : Store(c)
    BY <1>2
  <2>2. pc[c] = "store" /\ pc'[c] = "done" /\ got' = got /\ cached' = cached /\ ~cached[c]
    BY <2>1 DEF Store, Goto, IInv, LockInv, LockType, CallerInv, Carries
  <2>3. ASSUME NEW d \in Callers, d # c PROVE d \in Fresh(p, k)' <=> d \in Fresh(p, k)
    BY <2>1, <2>2, <2>3 DEF Store, Goto, IInv, LockInv, LockType, Fresh, Key, Reads
  <2>4. c \notin Fresh(p, k)
    BY <2>2 DEF Fresh
  <2>5. c \in Fresh(p, k)' <=> In(c) /\ got[c].page \in Successful
    BY <2>2 DEF Fresh, Key, Reads
  <2>6. Fresh(p, k) \subseteq Callers /\ Fresh(p, k)' \subseteq Callers
    BY DEF Fresh
  <2> QED BY <2>1, <2>3, <2>4, <2>5, <2>6
<1>3. CASE ~\E c \in Callers : Store(c)
  <2>1. Fresh(p, k) \subseteq Callers /\ Fresh(p, k)' \subseteq Callers
    BY DEF Fresh
  <2> QED BY <1>1, <1>3, <2>1
<1> QED BY <1>2, <1>3

LEMMA OwedNext ==
  ASSUME IInv, IInv', [Next]_vars, NEW p \in Processes, NEW k \in Keys, Owed(p, k)
  PROVE  Owed(p, k)'
<1> DEFINE n == Cardinality(Fresh(p, k))
           s == StoreOf[p]
<1>0. n \in Nat /\ s \in Stores
  BY FS_CardinalityType, ConstantsAssumption DEF Owed, ConstantsAssumption
<1>1. /\ lost[s][k] \in Nat /\ lost'[s][k] \in Nat /\ lost[s][k] <= lost'[s][k]
      /\ Missing(p, k)' => Missing(p, k) \/ lost'[s][k] = lost[s][k] + 1
  BY <1>0, EntrySteps DEF Missing
<1>2. CASE Fresh(p, k)' = Fresh(p, k)
  <2>1. n <= 1 + lost'[s][k]
    BY <1>0, <1>1 DEF Owed
  <2>2. Missing(p, k)' \/ AtWork(p, k)' => n <= lost'[s][k]
    BY <1>0, <1>1, WorkSteps DEF Owed
  <2> QED BY <1>2, <2>1, <2>2 DEF Owed
<1>3. ASSUME NEW c \in Callers, Store(c), ProcOf[c] = p, Key(c) = k, Reads(c),
             got[c].page \in Successful, c \notin Fresh(p, k),
             Fresh(p, k)' = Fresh(p, k) \cup {c}
      PROVE  Owed(p, k)'
  <2>1. pc[c] = "store" /\ pc'[c] = "done" /\ lost' = lost
    BY <1>3 DEF Store, Goto, IInv, LockInv, LockType
  <2>2. n <= lost[s][k]
    BY <1>3, <2>1 DEF Owed, AtWork
  <2>3. /\ IsFiniteSet(Fresh(p, k) \cup {c})
        /\ Cardinality(Fresh(p, k) \cup {c}) = n + 1
    BY <1>3, FS_AddElement DEF Owed
  <2>4. ~Missing(p, k)'
    <3>1. cache'[s][k] = got[c] /\ got[c] # NULL
      BY <1>0, <1>3, <2>1 DEF Store, Cacheable, Reads, IInv, DataType
    <3> QED BY <3>1 DEF Missing
  <2>5. ASSUME NEW d \in Callers, ProcOf[d] = p, Key(d) = k, pc'[d] \in Inside
        PROVE  FALSE
    <3>1. d # c /\ pc'[d] = pc[d]
      BY <1>3, <2>1, <2>5 DEF Store, Goto, IInv, LockInv, LockType
    <3>2. Turn(d) /\ Turn(c)
      BY <2>1, <2>5, <3>1 DEF IInv, LockInv, Held
    <3> QED BY <1>3, <2>5, <3>1, <3>2 DEF Turn, Queue
  <2>6. ~AtWork(p, k)'
    BY <2>5 DEF AtWork, Key, Reads
  <2> QED BY <1>0, <1>1, <1>3, <2>1, <2>2, <2>3, <2>4, <2>6 DEF Owed
<1> QED BY <1>2, <1>3, FreshSteps

LEMMA OwedInit == Init => \A p \in Processes, k \in Keys : Owed(p, k)
<1> SUFFICES ASSUME Init, NEW p \in Processes, NEW k \in Keys PROVE Owed(p, k)
  OBVIOUS
<1>1. Fresh(p, k) = {}
  BY DEF Init, Fresh
<1>2. StoreOf[p] \in Stores
  BY ConstantsAssumption DEF ConstantsAssumption
<1> QED BY <1>1, <1>2, FS_EmptySet DEF Init, Owed

(* Calls that may use the cache fetch a page once for each time the cache  *)
(* loses it, however many of them wait for the lock and whatever fails     *)
(* (fetch_service.py:53-76, 138-146).                                      *)
THEOREM CoalescedHolds == Spec => []Coalesced
<1> DEFINE Owing == \A p \in Processes, k \in Keys : Owed(p, k)
<1>1. Init => Owing
  BY OwedInit
<1>2. IInv /\ IInv' /\ Owing /\ [Next]_vars => Owing'
  <2> SUFFICES ASSUME IInv, IInv', Owing, [Next]_vars,
                      NEW p \in Processes, NEW k \in Keys
               PROVE  Owed(p, k)'
    BY DEF Keys, Key
  <2> QED BY OwedNext
<1>3. Owing => Coalesced
  BY DEF Owed, Fresh, Coalesced
<1> HIDE DEF Owing
<1> QED BY <1>1, <1>2, <1>3, Invariance, PTL DEF Spec

-----------------------------------------------------------------------------
(* Who is at the head of a lock's queue.  No call that is over, or that    *)
(* waits for another lock, can be in it: every way out of the lock takes   *)
(* the caller out, and nobody is in a queue twice.                         *)

Members(p, k) ==
  /\ \A i \in 1..Len(queue[p][k]) : LET c == queue[p][k][i] IN
       ProcOf[c] = p /\ Key(c) = k /\ pc[c] \in Locked
  /\ \A i, j \in 1..Len(queue[p][k]) : queue[p][k][i] = queue[p][k][j] => i = j

(* How a step treats the queues: nobody in them leaves the lock, a caller  *)
(* joins, a head leaves, or a process dies.                                *)
LEMMA QueueSteps ==
  ASSUME IInv, [Next]_vars
  PROVE  \/ queue' = queue /\ \A c \in Callers : pc[c] \in Locked => pc'[c] \in Locked
         \/ \E c \in Callers : Join(c)
         \/ \E c \in Callers : /\ Release(c) /\ pc[c] \in Locked /\ Turn(c)
                               /\ \A d \in Callers : d # c => pc'[d] = pc[d]
         \/ \E p \in Processes : Crash(p)
<1>0. pc \in [Callers -> Locations] /\ \A c \in Callers : pc[c] \in Inside => Turn(c)
  BY DEF IInv, LockInv, LockType, Held
<1> DEFINE Stay == queue' = queue /\ \A c \in Callers : pc[c] \in Locked => pc'[c] \in Locked
           Out(c) == /\ Release(c) /\ pc[c] \in Locked /\ Turn(c)
                     /\ \A d \in Callers : d # c => pc'[d] = pc[d]
<1>1. ASSUME NEW c \in Callers,
             Arrive(c) \/ Look(c) \/ EnterMiss(c) \/ BrowserFallback(c) \/ Save(c)
      PROVE  Stay
  BY <1>0, <1>1 DEF Arrive, Look, EnterMiss, BrowserFallback, Save, Goto, Locked,
                    AnswerFromCache
<1>2. ASSUME NEW c \in Callers, pc[c] \in Locked, Turn(c), Raise(c) PROVE Out(c)
  BY <1>0, <1>2 DEF Raise, Goto
<1>3. ASSUME NEW c \in Callers, LookError(c) PROVE Stay \/ Out(c)
  <2>1. CASE pc[c] = "look"
    BY <1>0, <1>3, <2>1 DEF LookError, Goto, Locked
  <2>2. CASE pc[c] # "look"
    BY <1>2, <1>3, <2>2 DEF LookError, Locked
  <2> QED BY <2>1, <2>2
<1>4. ASSUME NEW c \in Callers, EnterHit(c) PROVE Out(c)
  BY <1>0, <1>4 DEF EnterHit, AnswerFromCache, Goto, Locked
<1>5. ASSUME NEW c \in Callers, NEW page \in Pages, NEW strategy \in Strategies,
             pc[c] \in Inside, Keep(c, page, strategy)
      PROVE  Stay \/ Out(c)
  BY <1>0, <1>2, <1>5 DEF Keep, Goto, Locked
<1>6. ASSUME NEW c \in Callers, HttpPage(c) \/ BrowserPage(c) PROVE Stay \/ Out(c)
  <2>1. pc[c] \in Inside
    BY <1>6 DEF HttpPage, BrowserPage
  <2>2. \/ \E page \in Pages, strategy \in Strategies : Keep(c, page, strategy)
        \/ Goto(c, "browser") /\ queue' = queue
    BY <1>6 DEF HttpPage, BrowserPage
  <2> QED BY <1>0, <1>5, <2>1, <2>2 DEF Goto, Locked
<1>7. ASSUME NEW c \in Callers, FetchError(c) \/ SaveError(c) \/ StoreError(c) PROVE Out(c)
  <2>1. pc[c] \in Inside /\ Raise(c)
    BY <1>7 DEF FetchError, SaveError, StoreError
  <2> QED BY <1>0, <1>2, <2>1 DEF Locked
<1>8. ASSUME NEW c \in Callers, Store(c) PROVE Out(c)
  BY <1>0, <1>8 DEF Store, Goto, Locked
<1>9. CASE UNCHANGED <<pc, queue>>
  BY <1>9
<1> QED BY <1>1, <1>3, <1>4, <1>6, <1>7, <1>8, <1>9 DEF Next, Step, Expire, vars

LEMMA MembersJoin ==
  ASSUME IInv, NEW c \in Callers, Join(c), NEW p \in Processes, NEW k \in Keys, Members(p, k)
  PROVE  Members(p, k)'
<1>1. pc[c] = "join" /\ \A d \in Callers : pc'[d] = IF d = c THEN "wait" ELSE pc[d]
  BY DEF Join, Goto, IInv, LockInv, LockType
<1>2. queue[p][k] \in Seq(Callers)
  BY DEF IInv, LockInv, LockType
<1>3. \A i \in 1..Len(queue[p][k]) : queue[p][k][i] \in Callers \ {c}
  BY <1>1, <1>2 DEF Members, Locked
<1>4. CASE ProcOf[c] = p /\ Key(c) = k
  <2> DEFINE q == queue[p][k]
             r == Append(q, c)
  <2>1. queue'[p][k] = r
    BY <1>4 DEF Join, IInv, LockInv, LockType
  <2>2. /\ Len(r) = Len(q) + 1 /\ r[Len(q) + 1] = c /\ Len(q) \in Nat
        /\ \A i \in 1..Len(q) : r[i] = q[i]
    BY <1>2
  <2>3. \A i \in 1..Len(r) : i \in 1..Len(q) \/ i = Len(q) + 1
    BY <2>2
  <2>4. ASSUME NEW i \in 1..Len(r)
        PROVE  ProcOf[r[i]] = p /\ Key(r[i]) = k /\ pc'[r[i]] \in Locked
    BY <1>1, <1>3, <1>4, <2>2, <2>3 DEF Members, Locked
  <2>5. ASSUME NEW i \in 1..Len(r), NEW j \in 1..Len(r), r[i] = r[j] PROVE i = j
    BY <1>3, <2>2, <2>3, <2>5 DEF Members
  <2> QED BY <2>1, <2>4, <2>5 DEF Members, Key
<1>5. CASE ~(ProcOf[c] = p /\ Key(c) = k)
  <2>1. queue'[p][k] = queue[p][k]
    BY <1>5, KeyType DEF Join, IInv, LockInv, LockType
  <2> QED BY <1>1, <1>3, <2>1 DEF Members, Key
<1> QED BY <1>4, <1>5

LEMMA MembersLeave ==
  ASSUME IInv, NEW c \in Callers, Release(c), pc[c] \in Locked, Turn(c),
         \A d \in Callers : d # c => pc'[d] = pc[d],
         NEW p \in Processes, NEW k \in Keys, Members(p, k)
  PROVE  Members(p, k)'
<1> DEFINE q == queue[p][k]
<1>1. q \in Seq(Callers)
  BY DEF IInv, LockInv, LockType
<1>2. CASE ProcOf[c] = p /\ Key(c) = k
  <2>1. queue'[p][k] = Tail(q)
    BY <1>2 DEF Release, IInv, LockInv, LockType
  <2>2. q # <<>> /\ Head(q) = c
    BY <1>2, QueueType DEF Queue, Turn, IInv
  <2>3. /\ Len(Tail(q)) = Len(q) - 1 /\ Len(q) \in Nat /\ Len(q) # 0 /\ q[1] = c
        /\ \A i \in 1..Len(Tail(q)) : Tail(q)[i] = q[i + 1]
    BY <1>1, <2>2
  <2>4. \A i \in 1..Len(Tail(q)) : i + 1 \in 1..Len(q) /\ i + 1 # 1
    BY <2>3
  <2>5. \A i \in 1..Len(Tail(q)) : q[i + 1] \in Callers \ {c}
    BY <1>1, <2>3, <2>4 DEF Members
  <2>6. ASSUME NEW i \in 1..Len(Tail(q))
        PROVE  LET d == Tail(q)[i] IN ProcOf[d] = p /\ Key(d) = k /\ pc'[d] \in Locked
    BY <2>3, <2>4, <2>5 DEF Members
  <2>7. ASSUME NEW i \in 1..Len(Tail(q)), NEW j \in 1..Len(Tail(q)), Tail(q)[i] = Tail(q)[j]
        PROVE  i = j
    <3>1. i + 1 = j + 1
      BY <2>3, <2>4, <2>7 DEF Members
    <3> QED BY <3>1
  <2> QED BY <2>1, <2>6, <2>7 DEF Members, Key
<1>3. CASE ~(ProcOf[c] = p /\ Key(c) = k)
  <2>1. queue'[p][k] = q
    BY <1>3, KeyType DEF Release, IInv, LockInv, LockType
  <2>2. \A i \in 1..Len(q) : q[i] \in Callers \ {c}
    BY <1>1, <1>3 DEF Members
  <2> QED BY <2>1, <2>2 DEF Members, Key
<1> QED BY <1>2, <1>3

LEMMA MembersCrash ==
  ASSUME IInv, NEW r \in Processes, Crash(r),
         NEW p \in Processes, NEW k \in Keys, Members(p, k)
  PROVE  Members(p, k)'
<1>1. CASE r = p
  <2>1. queue'[p][k] = <<>>
    BY <1>1 DEF Crash, IInv, LockInv, LockType
  <2> QED BY <2>1 DEF Members
<1>2. CASE r # p
  <2>1. queue'[p][k] = queue[p][k] /\ queue[p][k] \in Seq(Callers)
    BY <1>2 DEF Crash, IInv, LockInv, LockType
  <2>2. \A d \in Callers : ProcOf[d] = p => pc'[d] = pc[d]
    BY <1>2 DEF Crash
  <2> QED BY <2>1, <2>2 DEF Members, Key
<1> QED BY <1>1, <1>2

LEMMA MembersNext ==
  ASSUME IInv, [Next]_vars, NEW p \in Processes, NEW k \in Keys, Members(p, k)
  PROVE  Members(p, k)'
<1>1. CASE queue' = queue /\ \A c \in Callers : pc[c] \in Locked => pc'[c] \in Locked
  <2>1. queue[p][k] \in Seq(Callers)
    BY DEF IInv, LockInv, LockType
  <2> QED BY <1>1, <2>1 DEF Members, Key
<1> QED BY <1>1, QueueSteps, MembersJoin, MembersLeave, MembersCrash

(* Who waits for a lock is in its queue.  The lock is free, or with a call *)
(* of its process and key that has just been given it or is between the    *)
(* second look at the cache and the end of cache.set.                      *)
LocksAttended ==
  /\ Waits
  /\ \A p \in Processes, k \in Keys : queue[p][k] # <<>> =>
       LET c == Head(queue[p][k]) IN ProcOf[c] = p /\ Key(c) = k /\ pc[c] \in Locked

(* No hit, error or crash leaves the lock of a key with a call that is     *)
(* over: what Answered needs of every state (fetch_service.py:58-76).      *)
THEOREM LocksAreAttended == Spec => []LocksAttended
<1> DEFINE All == \A p \in Processes, k \in Keys : Members(p, k)
<1>1. Init => All
  BY DEF Init, Members
<1>2. IInv /\ All /\ [Next]_vars => All'
  <2> SUFFICES ASSUME IInv, All, [Next]_vars, NEW p \in Processes, NEW k \in Keys
               PROVE  Members(p, k)'
    BY DEF Keys, Key
  <2> QED BY MembersNext
<1>3. IInv /\ All => LocksAttended
  <2> SUFFICES ASSUME IInv, All, NEW p \in Processes, NEW k \in Keys, queue[p][k] # <<>>
               PROVE  LET c == Head(queue[p][k]) IN
                        ProcOf[c] = p /\ Key(c) = k /\ pc[c] \in Locked
    BY DEF LocksAttended, IInv, LockInv
  <2>1. queue[p][k] \in Seq(Callers)
    BY DEF IInv, LockInv, LockType
  <2>2. Head(queue[p][k]) = queue[p][k][1] /\ 1 \in 1..Len(queue[p][k])
    BY <2>1
  <2> QED BY <2>2 DEF Members
<1> HIDE DEF All
<1> QED BY <1>1, <1>2, <1>3, Invariance, PTL DEF Spec
=============================================================================
