--------------------------- MODULE UpstreamProofs ---------------------------
(***************************************************************************)
(* Theorems about Upstream, for any number of callers, domains and URLs,   *)
(* any interval, any concurrency and any numbers of tries and redirects.   *)
(***************************************************************************)
EXTENDS Upstream, FiniteSetTheorems, TLAPS

-----------------------------------------------------------------------------
(* The limiter: reserved times are an interval apart and before the next   *)
(* slot, nobody begins before its time, and no permit is lost.             *)

Holders(d) == {c \in Callers : DomainOf[c] = d /\ place[c] \in {"asleep", "inside"}}

HasReserved(c) == place[c] \in {"asleep", "inside", "left"}

Apart ==
  \A c, e \in Callers :
    c # e /\ DomainOf[c] = DomainOf[e] /\ HasReserved(c) /\ HasReserved(e) =>
      due[e] >= due[c] + Interval \/ due[c] >= due[e] + Interval

InTime ==
  \A c \in Callers :
    /\ HasReserved(c) => due[c] + Interval <= nextSlot[DomainOf[c]]
    /\ HasBegun(c) => began[c] >= due[c]

Accounted ==
  \A d \in Domains :
    IsFiniteSet(Holders(d)) /\ Cardinality(Holders(d)) = Concurrency - permits[d]

LInv == LimiterTypeOK /\ Apart /\ InTime /\ Accounted

USE DEF Places, HasReserved, HasBegun, Latest, Slot, Following, Release

LEMMA LInvInit == LimiterInit => LInv
<1> SUFFICES ASSUME LimiterInit PROVE LInv
  OBVIOUS
<1>1. LimiterTypeOK
  BY LimiterAssumption DEF LimiterInit, LimiterTypeOK, LimiterAssumption
<1>2. Apart /\ InTime
  BY DEF LimiterInit, Apart, InTime
<1>3. ASSUME NEW d \in Domains
      PROVE  IsFiniteSet(Holders(d)) /\ Cardinality(Holders(d)) = Concurrency - permits[d]
  <2>1. Holders(d) = {}
    BY DEF LimiterInit, Holders
  <2>2. permits[d] = Concurrency
    BY <1>3 DEF LimiterInit
  <2> QED BY <2>1, <2>2, FS_EmptySet, LimiterAssumption DEF LimiterAssumption
<1> QED BY <1>1, <1>2, <1>3 DEF LInv, Accounted

(* What a reservation does to the times and to the permits.                *)
LEMMA ReserveInv ==
  ASSUME LInv, NEW c \in Callers, place[c] \in {"away", "queued"}, Reserve(c),
         now' = now, waiting' \in [Domains -> Seq(Callers)]
  PROVE  LInv'
<1> DEFINE d == DomainOf[c]
           t == IF now > nextSlot[d] THEN now ELSE nextSlot[d]
<1> USE LimiterAssumption DEF LimiterAssumption
<1>0. LimiterTypeOK /\ d \in Domains /\ t \in Nat /\ t >= now /\ t >= nextSlot[d]
  BY DEF LInv, LimiterTypeOK
<1>1. /\ due' = [due EXCEPT ![c] = t]
      /\ nextSlot' = [nextSlot EXCEPT ![d] = t + Interval]
      /\ place' = [place EXCEPT ![c] = IF t > now THEN "asleep" ELSE "inside"]
      /\ began' = [began EXCEPT ![c] = now]
      /\ permits[d] > 0
      /\ permits' = [permits EXCEPT ![d] = @ - 1]
  BY DEF Reserve
<1> HIDE DEF t
<1>2. LimiterTypeOK'
  <2>1. due' \in [Callers -> Nat] /\ began' \in [Callers -> Nat] /\ now' \in Nat
    BY <1>0, <1>1 DEF LimiterTypeOK
  <2>2. nextSlot' \in [Domains -> Nat]
    BY <1>0, <1>1 DEF LimiterTypeOK
  <2>3. permits' \in [Domains -> 0..Concurrency]
    <3>1. permits \in [Domains -> 0..Concurrency] /\ permits[d] - 1 \in 0..Concurrency
      <4>1. permits \in [Domains -> 0..Concurrency]
        BY <1>0 DEF LimiterTypeOK
      <4>2. permits[d] \in 0..Concurrency /\ permits[d] > 0
        BY <1>0, <1>1, <4>1
      <4> QED BY <4>1, <4>2
    <3> QED BY <1>0, <1>1, <3>1
  <2>4. place' \in [Callers -> Places]
    BY <1>0, <1>1 DEF LimiterTypeOK
  <2> QED BY <2>1, <2>2, <2>3, <2>4 DEF LimiterTypeOK
<1>3. /\ \A e \in Callers : due'[e] = IF e = c THEN t ELSE due[e]
      /\ \A e \in Callers : began'[e] = IF e = c THEN now ELSE began[e]
      /\ \A b \in Domains : nextSlot'[b] = IF b = d THEN t + Interval ELSE nextSlot[b]
  <2>1. \A e \in Callers : due'[e] = IF e = c THEN t ELSE due[e]
    BY <1>0, <1>1 DEF LimiterTypeOK
  <2>2. \A e \in Callers : began'[e] = IF e = c THEN now ELSE began[e]
    BY <1>0, <1>1 DEF LimiterTypeOK
  <2>3. \A b \in Domains : nextSlot'[b] = IF b = d THEN t + Interval ELSE nextSlot[b]
    BY <1>0, <1>1 DEF LimiterTypeOK
  <2> QED BY <2>1, <2>2, <2>3
<1>4. /\ \A e \in Callers : e # c => place'[e] = place[e]
      /\ place'[c] \in {"asleep", "inside"}
      /\ place'[c] = "inside" => t <= now
  BY <1>0, <1>1 DEF LimiterTypeOK
<1>5. Apart'
  <2>1. \A e \in Callers : HasReserved(e) /\ DomainOf[e] = d => t >= due[e] + Interval
    BY <1>0 DEF LInv, InTime, LimiterTypeOK
  <2>2. ASSUME NEW e \in Callers, NEW g \in Callers, e # g, DomainOf[e] = DomainOf[g],
               HasReserved(e)', HasReserved(g)'
        PROVE  due'[g] >= due'[e] + Interval \/ due'[e] >= due'[g] + Interval
    <3>1. CASE e # c /\ g # c
      BY <1>3, <1>4, <2>2, <3>1 DEF LInv, Apart
    <3>2. CASE e = c
      BY <1>0, <1>3, <1>4, <2>1, <2>2, <3>2
    <3>3. CASE g = c
      BY <1>0, <1>3, <1>4, <2>1, <2>2, <3>3
    <3> QED BY <3>1, <3>2, <3>3
  <2> QED BY <2>2 DEF Apart
<1>6. InTime'
  <2> SUFFICES ASSUME NEW e \in Callers
               PROVE  /\ HasReserved(e)' => due'[e] + Interval <= nextSlot'[DomainOf[e]]
                      /\ HasBegun(e)' => began'[e] >= due'[e]
    BY DEF InTime
  <2>1. CASE e = c
    BY <1>0, <1>3, <1>4, <2>1
  <2>2. CASE e # c
    <3>1. /\ due[e] \in Nat /\ nextSlot[d] \in Nat /\ nextSlot[DomainOf[e]] \in Nat
          /\ DomainOf[e] \in Domains
      BY <1>0 DEF LimiterTypeOK
    <3>2. due'[e] = due[e] /\ began'[e] = began[e] /\ place'[e] = place[e]
      BY <1>3, <1>4, <2>2
    <3>3. nextSlot'[DomainOf[e]] = IF DomainOf[e] = d THEN t + Interval ELSE nextSlot[DomainOf[e]]
      BY <1>3, <3>1
    <3>4. nextSlot'[DomainOf[e]] >= nextSlot[DomainOf[e]]
      BY <1>0, <3>1, <3>3
    <3>5. nextSlot'[DomainOf[e]] \in Nat
      BY <1>0, <3>1, <3>3
    <3>6. /\ HasReserved(e) => due[e] + Interval <= nextSlot[DomainOf[e]]
          /\ HasBegun(e) => began[e] >= due[e]
      BY DEF LInv, InTime
    <3>7. HasReserved(e)' => due'[e] + Interval <= nextSlot'[DomainOf[e]]
      BY <3>1, <3>2, <3>4, <3>5, <3>6
    <3>8. HasBegun(e)' => began'[e] >= due'[e]
      BY <3>2, <3>6
    <3> QED BY <3>7, <3>8
  <2> QED BY <2>1, <2>2
<1>7. Accounted'
  <2> SUFFICES ASSUME NEW b \in Domains
               PROVE  /\ IsFiniteSet(Holders(b)')
                      /\ Cardinality(Holders(b)') = Concurrency - permits'[b]
    BY DEF Accounted
  <2>1. IsFiniteSet(Holders(b)) /\ Cardinality(Holders(b)) = Concurrency - permits[b]
    BY DEF LInv, Accounted
  <2>2. CASE b = d
    <3>1. Holders(b)' = Holders(b) \cup {c} /\ c \notin Holders(b)
      BY <1>4, <2>2 DEF Holders
    <3>2. permits'[b] = permits[b] - 1 /\ permits[b] \in Nat
      BY <1>0, <1>1, <2>2 DEF LimiterTypeOK
    <3>3. IsFiniteSet(Holders(b) \cup {c})
      BY <2>1, FS_AddElement
    <3>4. Cardinality(Holders(b) \cup {c}) = Cardinality(Holders(b)) + 1
      BY <2>1, <3>1, FS_AddElement, Zenon
    <3> QED BY <2>1, <3>1, <3>2, <3>3, <3>4
  <2>3. CASE b # d
    <3>1. Holders(b)' = Holders(b)
      BY <1>4, <2>3 DEF Holders
    <3>2. permits'[b] = permits[b]
      BY <1>0, <1>1, <2>3 DEF LimiterTypeOK
    <3> QED BY <2>1, <3>1, <3>2
  <2> QED BY <2>2, <2>3
<1> QED BY <1>2, <1>5, <1>6, <1>7 DEF LInv

LEMMA LeaveInv ==
  ASSUME LInv, NEW c \in Callers, Leave(c)
  PROVE  LInv'
<1> USE LimiterAssumption DEF LimiterAssumption
<1>0. LimiterTypeOK /\ DomainOf[c] \in Domains
  BY DEF LInv
<1>1. \A e \in Callers : place'[e] = IF e = c THEN "left" ELSE place[e]
  BY <1>0 DEF Leave, LimiterTypeOK
<1>2. \A b \in Domains : permits'[b] = IF b = DomainOf[c] THEN permits[b] + 1 ELSE permits[b]
  BY <1>0 DEF Leave, LimiterTypeOK
<1>3. place[c] = "inside" /\ UNCHANGED <<now, waiting, nextSlot, due, began>>
  BY DEF Leave
<1>4. Apart' /\ InTime'
  BY <1>0, <1>1, <1>3 DEF LInv, Apart, InTime
<1>5. ASSUME NEW b \in Domains
      PROVE  /\ IsFiniteSet(Holders(b)')
             /\ Cardinality(Holders(b)') = Concurrency - permits'[b]
             /\ permits'[b] \in 0..Concurrency
  <2>1. IsFiniteSet(Holders(b)) /\ Cardinality(Holders(b)) = Concurrency - permits[b]
    BY <1>5 DEF LInv, Accounted
  <2>2. permits[b] \in 0..Concurrency
    BY <1>0, <1>5 DEF LimiterTypeOK
  <2>3. CASE b = DomainOf[c]
    <3>1. Holders(b)' = Holders(b) \ {c} /\ c \in Holders(b)
      BY <1>1, <1>3, <2>3 DEF Holders
    <3>2. /\ IsFiniteSet(Holders(b)') /\ Cardinality(Holders(b)) \in Nat
          /\ Cardinality(Holders(b)') = Cardinality(Holders(b)) - 1
          /\ Cardinality(Holders(b)') \in Nat
      BY <2>1, <3>1, FS_RemoveElement, FS_CardinalityType
    <3> QED BY <1>2, <1>5, <2>1, <2>2, <2>3, <3>2
  <2>4. CASE b # DomainOf[c]
    <3>1. Holders(b)' = Holders(b)
      BY <1>1, <2>4 DEF Holders
    <3> QED BY <1>2, <1>5, <2>1, <2>2, <2>4, <3>1
  <2> QED BY <2>3, <2>4
<1>6. LimiterTypeOK'
  <2>1. permits' \in [Domains -> 0..Concurrency]
    BY <1>0, <1>5 DEF Leave, LimiterTypeOK
  <2> QED BY <1>0, <1>3, <2>1 DEF Leave, LimiterTypeOK
<1> QED BY <1>4, <1>5, <1>6 DEF LInv, Accounted

LEMMA LInvNext == LInv /\ [LimiterNext]_limiter => LInv'
<1> SUFFICES ASSUME LInv, [LimiterNext]_limiter PROVE LInv'
  OBVIOUS
<1> USE LimiterAssumption DEF LimiterAssumption
<1>0. LimiterTypeOK
  BY DEF LInv
<1>1. CASE Tick
  <2>1. now' = now + 1 /\ UNCHANGED <<place, waiting, permits, nextSlot, due, began>>
    BY <1>1 DEF Tick
  <2>2. LimiterTypeOK'
    BY <1>0, <2>1 DEF LimiterTypeOK
  <2>3. Apart' /\ InTime' /\ Accounted'
    BY <2>1 DEF LInv, Apart, InTime, Accounted, Holders
  <2> QED BY <2>2, <2>3 DEF LInv
<1>2. ASSUME NEW c \in Callers, Ask(c) PROVE LInv'
  <2>1. CASE Reserve(c) /\ UNCHANGED waiting
    BY <1>0, <1>2, <2>1, ReserveInv DEF Ask, LimiterTypeOK
  <2>2. CASE /\ place' = [place EXCEPT ![c] = "queued"]
             /\ waiting' = [waiting EXCEPT ![DomainOf[c]] = Append(@, c)]
             /\ UNCHANGED <<permits, nextSlot, due, began>>
    <3>1. place[c] = "away" /\ now' = now
      BY <1>2 DEF Ask
    <3>2. LimiterTypeOK'
      BY <1>0, <2>2, <3>1 DEF LimiterTypeOK
    <3>3. \A e \in Callers : place'[e] = IF e = c THEN "queued" ELSE place[e]
      BY <1>0, <2>2 DEF LimiterTypeOK
    <3>4. \A d \in Domains : Holders(d)' = Holders(d)
      BY <3>1, <3>3 DEF Holders
    <3>5. Apart' /\ InTime' /\ Accounted'
      BY <2>2, <3>1, <3>3, <3>4 DEF LInv, Apart, InTime, Accounted
    <3> QED BY <3>2, <3>5 DEF LInv
  <2> QED BY <1>2, <2>1, <2>2 DEF Ask
<1>3. ASSUME NEW c \in Callers, Granted(c) PROVE LInv'
  <2>1. waiting' \in [Domains -> Seq(Callers)]
    BY <1>0, <1>3 DEF Granted, LimiterTypeOK
  <2> QED BY <1>3, <2>1, ReserveInv DEF Granted
<1>4. ASSUME NEW c \in Callers, WakeUp(c) PROVE LInv'
  <2>1. /\ \A e \in Callers : place'[e] = IF e = c THEN "inside" ELSE place[e]
        /\ \A e \in Callers : began'[e] = IF e = c THEN now ELSE began[e]
        /\ place[c] = "asleep" /\ now >= due[c]
        /\ UNCHANGED <<now, waiting, permits, nextSlot, due>>
    BY <1>0, <1>4 DEF WakeUp, LimiterTypeOK
  <2>2. LimiterTypeOK'
    BY <1>0, <1>4 DEF WakeUp, LimiterTypeOK
  <2>3. \A d \in Domains : Holders(d)' = Holders(d)
    BY <2>1 DEF Holders
  <2>4. Apart' /\ InTime' /\ Accounted'
    BY <2>1, <2>3 DEF LInv, Apart, InTime, Accounted
  <2> QED BY <2>2, <2>4 DEF LInv
<1>5. CASE UNCHANGED limiter
  BY <1>5 DEF limiter, LInv, LimiterTypeOK, Apart, InTime, Accounted, Holders
<1> QED BY <1>1, <1>2, <1>3, <1>4, <1>5, LeaveInv DEF LimiterNext

-----------------------------------------------------------------------------
(* The fetcher: what a try has visited is what it has asked for, and the   *)
(* number of redirects followed tells how much that is.                    *)

ThisTry(f) == asked[f][attempt[f]]

Visits ==
  \A f \in Fetches :
    /\ visited[f] = {ThisTry(f)[i] : i \in 1..Len(ThisTry(f))}
    /\ stage[f] \in {"idle", "guard"} => Len(ThisTry(f)) = hop[f]
    /\ stage[f] = "response" => Len(ThisTry(f)) = hop[f] + 1
    /\ \A k \in Tries : k > attempt[f] => asked[f][k] = <<>>

Logged ==
  \A f \in Fetches :
    /\ stage[f] \notin {"done", "failed"} => outcome[f] = "none"
    /\ stage[f] \in {"idle", "guard", "response"} => Len(attempts[f]) = attempt[f] - 1
    /\ stage[f] = "pause" =>
         /\ Len(attempts[f]) = attempt[f]
         /\ attempts[f][attempt[f]] \in Retryable
         /\ attempt[f] # MaxAttempts

FInv == FetcherTypeOK /\ Visits /\ Logged /\ NoUrlTwice /\ RedirectsBlamedRightly /\ AttemptsTell

USE DEF Stages, Tries, Answers, Retryable, Ends, Errors, MayTryAgain, Visit, Forget

LEMMA FInvInit == FetcherInit => FInv
<1> SUFFICES ASSUME FetcherInit PROVE FInv
  OBVIOUS
<1> USE FetcherAssumption DEF FetcherAssumption
<1>1. FetcherTypeOK
  BY DEF FetcherInit, FetcherTypeOK
<1>2. \A f \in Fetches, k \in Tries : asked[f][k] = <<>>
  BY DEF FetcherInit
<1>3. \A f \in Fetches : /\ stage[f] = "idle" /\ outcome[f] = "none" /\ attempt[f] = 1
                         /\ attempts[f] = <<>> /\ hop[f] = 0 /\ visited[f] = {}
  BY DEF FetcherInit
<1>4. Visits /\ Logged
  BY <1>2, <1>3 DEF Visits, Logged, ThisTry
<1>5. NoUrlTwice /\ RedirectsBlamedRightly /\ AttemptsTell
  BY <1>2, <1>3 DEF NoUrlTwice, RedirectsBlamedRightly, AttemptsTell
<1> QED BY <1>1, <1>4, <1>5 DEF FInv

(* A step that changes the stage and the outcome only.                     *)
LEMMA MoveInv ==
  ASSUME FInv, NEW f \in Fetches, NEW s \in Stages,
         NEW o \in {"none"} \cup Answers \cup Errors,
         Finish(f, s, o),
         UNCHANGED <<attempt, attempts, current, hop, visited, asked>>,
         \/ stage[f] = "idle" /\ s = "guard" /\ o = "none"
         \/ s = "failed" /\ o = "OTHER"
         \/ s = "failed" /\ o = "REDIRECT_LOOP" /\ current[f] \in visited[f]
         \/ /\ s = "failed" /\ o = "TOO_MANY_REDIRECTS"
            /\ stage[f] = "response" /\ hop[f] = MaxRedirects
  PROVE  FInv'
<1> USE FetcherAssumption DEF FetcherAssumption
<1>0. FetcherTypeOK
  BY DEF FInv
<1>1. /\ \A g \in Fetches : stage'[g] = IF g = f THEN s ELSE stage[g]
      /\ \A g \in Fetches : outcome'[g] = IF g = f THEN o ELSE outcome[g]
  BY <1>0 DEF Finish, FetcherTypeOK
<1>2. FetcherTypeOK'
  BY <1>0 DEF Finish, FetcherTypeOK
<1>3. Visits' /\ Logged' /\ NoUrlTwice'
  <2>1. Visits'
    BY <1>1 DEF FInv, Visits, ThisTry
  <2>2. Logged'
    BY <1>1 DEF FInv, Logged
  <2>3. NoUrlTwice'
    BY DEF FInv, NoUrlTwice
  <2> QED BY <2>1, <2>2, <2>3
<1>4. RedirectsBlamedRightly'
  BY <1>1 DEF FInv, RedirectsBlamedRightly, Visits, ThisTry
<1>5. AttemptsTell'
  BY <1>1 DEF FInv, AttemptsTell
<1> QED BY <1>2, <1>3, <1>4, <1>5 DEF FInv

LEMMA SendInv ==
  ASSUME FInv, NEW f \in Fetches, Send(f)
  PROVE  FInv'
<1> USE FetcherAssumption DEF FetcherAssumption
<1> DEFINE try == asked[f][attempt[f]]
<1>0. FetcherTypeOK /\ attempt[f] \in Tries /\ try \in Seq(Urls) /\ current[f] \in Urls
  BY DEF FInv, FetcherTypeOK
<1>1. /\ \A g \in Fetches : stage'[g] = IF g = f THEN "response" ELSE stage[g]
      /\ \A g \in Fetches : visited'[g] = IF g = f THEN visited[f] \cup {current[f]} ELSE visited[g]
      /\ \A g \in Fetches, k \in Tries :
           asked'[g][k] = IF g = f /\ k = attempt[f] THEN Append(try, current[f]) ELSE asked[g][k]
      /\ UNCHANGED <<outcome, attempt, attempts, current, hop>>
      /\ stage[f] = "guard" /\ current[f] \in Allowed /\ current[f] \notin visited[f]
  BY <1>0 DEF Send, FetcherTypeOK
<1>2. FetcherTypeOK'
  <2>1. asked' \in [Fetches -> [Tries -> Seq(Urls)]]
    BY <1>0 DEF Send, FetcherTypeOK
  <2> QED BY <1>0, <2>1 DEF Send, FetcherTypeOK
<1>3. /\ visited[f] = {try[i] : i \in 1..Len(try)}
      /\ Len(try) = hop[f] /\ hop[f] \in 0..MaxRedirects
      /\ \A k \in Tries : k > attempt[f] => asked[f][k] = <<>>
  BY <1>0, <1>1 DEF FInv, Visits, ThisTry, FetcherTypeOK
<1> HIDE DEF try
<1>4. /\ Len(Append(try, current[f])) = Len(try) + 1
      /\ \A i \in 1..Len(try) : Append(try, current[f])[i] = try[i]
      /\ Append(try, current[f])[Len(try) + 1] = current[f]
      /\ Len(try) \in Nat
  BY <1>0
<1>5. Visits'
  <2> SUFFICES ASSUME NEW g \in Fetches
               PROVE  /\ visited'[g] = {ThisTry(g)'[i] : i \in 1..Len(ThisTry(g)')}
                      /\ stage'[g] \in {"idle", "guard"} => Len(ThisTry(g)') = hop'[g]
                      /\ stage'[g] = "response" => Len(ThisTry(g)') = hop'[g] + 1
                      /\ \A k \in Tries : k > attempt'[g] => asked'[g][k] = <<>>
    BY DEF Visits
  <2>1. CASE g = f
    <3>1. ThisTry(f)' = Append(try, current[f])
      BY <1>0, <1>1 DEF ThisTry
    <3> DEFINE new == Append(try, current[f])
    <3>2. \A x : (\E i \in 1..Len(new) : x = new[i]) <=> (\E i \in 1..Len(try) : x = try[i]) \/ x = current[f]
      <4>1. \A i \in 1..Len(new) : i \in 1..Len(try) \/ i = Len(try) + 1
        BY <1>4
      <4>2. 1..Len(try) \subseteq 1..Len(new) /\ Len(try) + 1 \in 1..Len(new)
        BY <1>4
      <4> QED BY <1>4, <4>1, <4>2
    <3>3. visited'[f] = {new[i] : i \in 1..Len(new)}
      <4>1. visited'[f] = {try[i] : i \in 1..Len(try)} \cup {current[f]}
        BY <1>1, <1>3
      <4>2. {new[i] : i \in 1..Len(new)} = {try[i] : i \in 1..Len(try)} \cup {current[f]}
        <5> HIDE DEF new
        <5> QED BY <3>2
      <4> QED BY <4>1, <4>2
    <3>4. Len(new) = hop'[f] + 1 /\ stage'[f] = "response"
      BY <1>1, <1>3, <1>4
    <3>5. \A k \in Tries : k > attempt'[f] => asked'[f][k] = <<>>
      BY <1>0, <1>1, <1>3
    <3> HIDE DEF new
    <3> QED BY <2>1, <3>1, <3>3, <3>4, <3>5 DEF new
  <2>2. CASE g # f
    <3>1. /\ visited'[g] = visited[g] /\ stage'[g] = stage[g] /\ hop'[g] = hop[g]
          /\ attempt'[g] = attempt[g] /\ \A k \in Tries : asked'[g][k] = asked[g][k]
          /\ attempt[g] \in Tries
      BY <1>0, <1>1, <2>2 DEF FetcherTypeOK
    <3>2. ThisTry(g)' = ThisTry(g)
      BY <3>1 DEF ThisTry
    <3> QED BY <3>1, <3>2 DEF FInv, Visits
  <2> QED BY <2>1, <2>2
<1>6. NoUrlTwice'
  <2> SUFFICES ASSUME NEW g \in Fetches, NEW k \in Tries
               PROVE  /\ Len(asked'[g][k]) <= MaxRedirects + 1
                      /\ \A i, j \in 1..Len(asked'[g][k]) :
                            asked'[g][k][i] = asked'[g][k][j] => i = j
                      /\ \A i \in 1..Len(asked'[g][k]) : asked'[g][k][i] \in Allowed
    BY DEF NoUrlTwice
  <2>1. CASE g = f /\ k = attempt[f]
    <3>1. /\ \A i, j \in 1..Len(try) : try[i] = try[j] => i = j
          /\ \A i \in 1..Len(try) : try[i] \in Allowed
      BY <1>0 DEF FInv, NoUrlTwice, try
    <3>2. \A i \in 1..Len(try) : try[i] # current[f]
      BY <1>1, <1>3
    <3> DEFINE new == Append(try, current[f])
    <3>3. asked'[g][k] = new
      BY <1>1, <2>1
    <3>4. Len(new) <= MaxRedirects + 1
      BY <1>3, <1>4
    <3>5. \A i \in 1..Len(new) : new[i] \in Allowed
      BY <1>1, <1>4, <3>1
    <3>6. \A i, j \in 1..Len(new) : new[i] = new[j] => i = j
      BY <1>4, <3>1, <3>2
    <3> HIDE DEF new
    <3> QED BY <3>3, <3>4, <3>5, <3>6
  <2>2. CASE ~(g = f /\ k = attempt[f])
    <3>1. asked'[g][k] = asked[g][k]
      BY <1>1, <2>2
    <3> QED BY <3>1 DEF FInv, NoUrlTwice
  <2> QED BY <2>1, <2>2
<1>7. Logged' /\ AttemptsTell'
  BY <1>1 DEF FInv, Logged, AttemptsTell
<1>8. RedirectsBlamedRightly'
  <2>1. \A g \in Fetches : g # f => asked'[g][attempt[g]] = asked[g][attempt[g]]
    BY <1>0, <1>1 DEF FetcherTypeOK
  <2>2. outcome[f] = "none"
    BY <1>1 DEF FInv, Logged
  <2>3. \A g \in Fetches : outcome'[g] = outcome[g] /\ attempt'[g] = attempt[g] /\ current'[g] = current[g]
    BY <1>1
  <2> QED BY <2>1, <2>2, <2>3 DEF FInv, RedirectsBlamedRightly
<1> QED BY <1>2, <1>5, <1>6, <1>7, <1>8 DEF FInv

LEMMA RedirectInv ==
  ASSUME FInv, NEW f \in Fetches, NEW url \in Urls, Redirect(f, url)
  PROVE  FInv'
<1> USE FetcherAssumption DEF FetcherAssumption
<1>0. FetcherTypeOK /\ stage[f] = "response"
  BY DEF FInv, Redirect
<1>1. CASE /\ hop[f] < MaxRedirects
           /\ current' = [current EXCEPT ![f] = url]
           /\ hop' = [hop EXCEPT ![f] = @ + 1]
           /\ stage' = [stage EXCEPT ![f] = "guard"]
           /\ UNCHANGED <<outcome, attempt, attempts, visited, asked>>
  <2>1. /\ \A g \in Fetches : stage'[g] = IF g = f THEN "guard" ELSE stage[g]
        /\ \A g \in Fetches : current'[g] = IF g = f THEN url ELSE current[g]
        /\ \A g \in Fetches : hop'[g] = IF g = f THEN hop[f] + 1 ELSE hop[g]
    BY <1>0, <1>1 DEF FetcherTypeOK
  <2>2. hop[f] \in 0..MaxRedirects /\ hop[f] + 1 \in 0..MaxRedirects
    BY <1>0, <1>1 DEF FetcherTypeOK
  <2>3. FetcherTypeOK'
    BY <1>0, <1>1, <2>2 DEF FetcherTypeOK
  <2>4. Visits'
    BY <1>0, <1>1, <2>1 DEF FInv, Visits, ThisTry
  <2>5. Logged' /\ AttemptsTell'
    BY <1>0, <1>1, <2>1 DEF FInv, Logged, AttemptsTell
  <2>6. NoUrlTwice'
    BY <1>1 DEF FInv, NoUrlTwice
  <2>7. outcome[f] = "none"
    BY <1>0 DEF FInv, Logged
  <2>8. RedirectsBlamedRightly'
    BY <1>1, <2>1, <2>7 DEF FInv, RedirectsBlamedRightly
  <2> QED BY <2>3, <2>4, <2>5, <2>6, <2>8 DEF FInv
<1>2. CASE hop[f] = MaxRedirects /\ Raise(f, "TOO_MANY_REDIRECTS")
  BY <1>0, <1>2, MoveInv DEF Raise
<1> QED BY <1>1, <1>2 DEF Redirect

LEMMA EndTryInv ==
  ASSUME FInv, NEW f \in Fetches, NEW how \in Ends, EndTry(f, how)
  PROVE  FInv'
<1> USE FetcherAssumption DEF FetcherAssumption
<1> DEFINE n == Len(attempts[f])
<1>0. /\ FetcherTypeOK /\ stage[f] = "response" /\ attempts[f] \in Seq(Ends)
      /\ attempt[f] \in 1..MaxAttempts
  BY DEF FInv, EndTry, FetcherTypeOK
<1>1. /\ attempts' = [attempts EXCEPT ![f] = Append(@, how)]
      /\ UNCHANGED <<attempt, current, hop, visited, asked>>
      /\ \/ /\ how \in Retryable /\ attempt[f] # MaxAttempts
            /\ stage' = [stage EXCEPT ![f] = "pause"]
            /\ outcome' = outcome
         \/ /\ how \notin Retryable \/ attempt[f] = MaxAttempts
            /\ \/ stage' = [stage EXCEPT ![f] = "done"]
               \/ stage' = [stage EXCEPT ![f] = "failed"]
            /\ outcome' = [outcome EXCEPT ![f] = how]
  BY DEF EndTry, Finish
<1>2. FetcherTypeOK'
  <2>1. attempts' \in [Fetches -> Seq(Ends)]
    <3>1. Append(attempts[f], how) \in Seq(Ends)
      BY <1>0
    <3>2. attempts \in [Fetches -> Seq(Ends)]
      BY <1>0 DEF FetcherTypeOK
    <3> QED BY <1>1, <3>1, <3>2, Zenon
  <2>2. stage' \in [Fetches -> Stages]
    BY <1>0, <1>1 DEF FetcherTypeOK
  <2>3. outcome' \in [Fetches -> {"none"} \cup Answers \cup Errors]
    <3>1. how \in {"none"} \cup Answers \cup Errors
      OBVIOUS
    <3>2. outcome \in [Fetches -> {"none"} \cup Answers \cup Errors]
      BY <1>0 DEF FetcherTypeOK
    <3> HIDE DEF Answers, Errors
    <3> QED BY <1>1, <3>1, <3>2
  <2> QED BY <1>0, <1>1, <2>1, <2>2, <2>3 DEF FetcherTypeOK
<1>3. /\ \A g \in Fetches : g # f => stage'[g] = stage[g] /\ outcome'[g] = outcome[g]
      /\ stage'[f] \in {"pause", "done", "failed"}
      /\ stage'[f] = "pause" =>
           how \in Retryable /\ attempt[f] # MaxAttempts /\ outcome'[f] = outcome[f]
      /\ stage'[f] # "pause" =>
           outcome'[f] = how /\ (how \in Retryable => attempt[f] = MaxAttempts)
  BY <1>0, <1>1 DEF FetcherTypeOK
<1>4. \A g \in Fetches : attempts'[g] = IF g = f THEN Append(attempts[f], how) ELSE attempts[g]
  BY <1>0, <1>1 DEF FetcherTypeOK
<1>5. /\ n = attempt[f] - 1 /\ outcome[f] = "none"
      /\ \A k \in 1..n : attempts[f][k] \in Retryable
  BY <1>0 DEF FInv, Logged, AttemptsTell
<1>6. /\ Len(attempts'[f]) = attempt[f]
      /\ attempts'[f][attempt[f]] = how
      /\ \A k \in 1..attempt[f] : k < attempt[f] => attempts'[f][k] \in Retryable
  <2> DEFINE new == Append(attempts[f], how)
  <2>1. attempts'[f] = new
    BY <1>4
  <2>2. Len(new) = n + 1 /\ new[n + 1] = how /\ \A k \in 1..n : new[k] = attempts[f][k]
    BY <1>0
  <2>3. n + 1 = attempt[f] /\ n \in Nat
    BY <1>0, <1>5
  <2>4. \A k \in 1..attempt[f] : k < attempt[f] => k \in 1..n
    BY <1>0, <2>3
  <2> HIDE DEF new, n
  <2> QED BY <1>5, <2>1, <2>2, <2>3, <2>4
<1>7. Visits' /\ NoUrlTwice'
  <2>1. NoUrlTwice'
    BY <1>1 DEF FInv, NoUrlTwice
  <2>2. Visits'
    BY <1>1, <1>3 DEF FInv, Visits, ThisTry
  <2> QED BY <2>1, <2>2
<1>8. Logged'
  <2> SUFFICES ASSUME NEW g \in Fetches
               PROVE  /\ stage'[g] \notin {"done", "failed"} => outcome'[g] = "none"
                      /\ stage'[g] \in {"idle", "guard", "response"} =>
                           Len(attempts'[g]) = attempt'[g] - 1
                      /\ stage'[g] = "pause" =>
                           /\ Len(attempts'[g]) = attempt'[g]
                           /\ attempts'[g][attempt'[g]] \in Retryable
                           /\ attempt'[g] # MaxAttempts
    BY DEF Logged
  <2>1. CASE g = f
    BY <1>1, <1>3, <1>5, <1>6, <2>1
  <2>2. CASE g # f
    BY <1>1, <1>3, <1>4, <2>2 DEF FInv, Logged
  <2> QED BY <2>1, <2>2
<1>9. RedirectsBlamedRightly'
  <2>1. outcome'[f] \notin {"REDIRECT_LOOP", "TOO_MANY_REDIRECTS"}
    BY <1>3, <1>5
  <2> QED BY <1>1, <1>3, <2>1 DEF FInv, RedirectsBlamedRightly
<1>10. AttemptsTell'
  <2> SUFFICES ASSUME NEW g \in Fetches
               PROVE  /\ \A k \in 1..Len(attempts'[g]) : k < attempt'[g] => attempts'[g][k] \in Retryable
                      /\ Len(attempts'[g]) = attempt'[g] \/ Len(attempts'[g]) = attempt'[g] - 1
                      /\ outcome'[g] \in Ends =>
                           /\ Len(attempts'[g]) = attempt'[g]
                           /\ attempts'[g][Len(attempts'[g])] = outcome'[g]
                      /\ outcome'[g] \in Retryable => attempt'[g] = MaxAttempts
    BY DEF AttemptsTell
  <2>1. CASE g = f
    <3>1. CASE stage'[f] = "pause"
      BY <1>1, <1>3, <1>5, <1>6, <2>1, <3>1
    <3>2. CASE stage'[f] # "pause"
      BY <1>1, <1>3, <1>6, <2>1, <3>2
    <3> QED BY <3>1, <3>2
  <2>2. CASE g # f
    BY <1>1, <1>3, <1>4, <2>2 DEF FInv, AttemptsTell
  <2> QED BY <2>1, <2>2
<1> QED BY <1>2, <1>7, <1>8, <1>9, <1>10 DEF FInv

LEMMA AgainInv ==
  ASSUME FInv, NEW f \in Fetches, Again(f)
  PROVE  FInv'
<1> USE FetcherAssumption DEF FetcherAssumption
<1>0. FetcherTypeOK /\ stage[f] = "pause" /\ attempt[f] \in 1..MaxAttempts
  BY DEF FInv, Again, FetcherTypeOK
<1>1. /\ attempt[f] # MaxAttempts /\ Len(attempts[f]) = attempt[f] /\ outcome[f] = "none"
      /\ attempts[f][attempt[f]] \in Retryable
  BY <1>0 DEF FInv, Logged
<1>2. /\ \A g \in Fetches : attempt'[g] = IF g = f THEN attempt[f] + 1 ELSE attempt[g]
      /\ \A g \in Fetches : current'[g] = IF g = f THEN UrlOf[f] ELSE current[g]
      /\ \A g \in Fetches : hop'[g] = IF g = f THEN 0 ELSE hop[g]
      /\ \A g \in Fetches : visited'[g] = IF g = f THEN {} ELSE visited[g]
      /\ \A g \in Fetches : stage'[g] = IF g = f THEN "guard" ELSE stage[g]
      /\ UNCHANGED <<outcome, attempts, asked>>
  BY <1>0 DEF Again, FetcherTypeOK
<1>3. FetcherTypeOK'
  <2>1. attempt[f] + 1 \in Tries
    BY <1>0, <1>1
  <2>2. attempt' \in [Fetches -> Tries]
    BY <1>0, <2>1 DEF Again, FetcherTypeOK
  <2> QED BY <1>0, <2>2 DEF Again, FetcherTypeOK
<1>4. asked[f][attempt[f] + 1] = <<>>
  BY <1>0, <1>1 DEF FInv, Visits
<1>5. Visits'
  <2> SUFFICES ASSUME NEW g \in Fetches
               PROVE  /\ visited'[g] = {ThisTry(g)'[i] : i \in 1..Len(ThisTry(g)')}
                      /\ stage'[g] \in {"idle", "guard"} => Len(ThisTry(g)') = hop'[g]
                      /\ stage'[g] = "response" => Len(ThisTry(g)') = hop'[g] + 1
                      /\ \A k \in Tries : k > attempt'[g] => asked'[g][k] = <<>>
    BY DEF Visits
  <2>1. CASE g = f
    <3>1. ThisTry(g)' = <<>>
      BY <1>2, <1>4, <2>1 DEF ThisTry
    <3>2. \A k \in Tries : k > attempt'[f] => asked'[f][k] = <<>>
      BY <1>0, <1>2 DEF FInv, Visits
    <3> QED BY <1>2, <2>1, <3>1, <3>2
  <2>2. CASE g # f
    BY <1>2, <2>2 DEF FInv, Visits, ThisTry
  <2> QED BY <2>1, <2>2
<1>6. NoUrlTwice'
  <2>1. asked' = asked
    BY <1>2
  <2>2. NoUrlTwice
    BY DEF FInv
  <2> QED BY <2>1, <2>2 DEF NoUrlTwice
<1>7. Logged'
  BY <1>0, <1>1, <1>2 DEF FInv, Logged
<1>8. RedirectsBlamedRightly'
  BY <1>1, <1>2 DEF FInv, RedirectsBlamedRightly
<1>9. AttemptsTell'
  BY <1>0, <1>1, <1>2 DEF FInv, AttemptsTell
<1> QED BY <1>3, <1>5, <1>6, <1>7, <1>8, <1>9 DEF FInv

LEMMA FInvNext == FInv /\ [FetcherNext]_fetcher => FInv'
<1> SUFFICES ASSUME FInv, [FetcherNext]_fetcher PROVE FInv'
  OBVIOUS
<1>1. ASSUME NEW f \in Fetches, Start(f) PROVE FInv'
  <2>1. outcome \in [Fetches -> {"none"} \cup Answers \cup Errors] /\ outcome[f] = "none"
    BY <1>1 DEF FInv, FetcherTypeOK, Logged, Start
  <2>2. Finish(f, "guard", "none")
    BY <1>1, <2>1 DEF Start, Finish
  <2> QED BY <1>1, <2>2, MoveInv DEF Start
<1>2. ASSUME NEW f \in Fetches, Refuse(f) PROVE FInv'
  BY <1>2, MoveInv DEF Refuse, Raise
<1>3. ASSUME NEW f \in Fetches, Break(f) PROVE FInv'
  BY <1>3, MoveInv DEF Break, Raise
<1>4. CASE UNCHANGED fetcher
  BY <1>4 DEF fetcher, FInv, FetcherTypeOK, Visits, ThisTry, Logged, NoUrlTwice,
     RedirectsBlamedRightly, AttemptsTell
<1> QED BY <1>1, <1>2, <1>3, <1>4, SendInv, RedirectInv, EndTryInv, AgainInv
     DEF FetcherNext, FetchStep

-----------------------------------------------------------------------------
(* Upstream: a fetch runs only inside the slot, so each component keeps    *)
(* its invariant.                                                          *)

RunsInside == \A c \in Callers : stage[c] \in Fetching => place[c] = "inside"

IInv == LInv /\ FInv /\ RunsInside

LEMMA StepsSplit == Next => [LimiterNext]_limiter /\ [FetcherNext]_fetcher
BY UpstreamAssumption DEF UpstreamAssumption, Next, PassTime, Enter, FetchInside, Exit,
   LimiterNext, FetcherNext

LEMMA RunsInsideNext == ASSUME IInv, [Next]_vars PROVE RunsInside'
<1> SUFFICES ASSUME NEW c \in Callers, stage'[c] \in Fetching PROVE place'[c] = "inside"
  BY DEF RunsInside
<1> USE UpstreamAssumption DEF UpstreamAssumption, Fetching
<1>0. LimiterTypeOK /\ FetcherTypeOK
  BY DEF IInv, LInv, FInv
<1>1. CASE PassTime
  BY <1>1 DEF PassTime, Tick, fetcher, IInv, RunsInside
<1>2. ASSUME NEW e \in Callers, Enter(e) PROVE place'[c] = "inside"
  <2>1. stage[c] \in Fetching /\ place[c] = "inside"
    BY <1>2 DEF Enter, fetcher, IInv, RunsInside
  <2>2. place[e] # "inside"
    BY <1>2 DEF Enter, Ask, Granted, WakeUp, IInv, LInv, LimiterTypeOK, Reserve
  <2> QED BY <1>0, <1>2, <2>1, <2>2
      DEF Enter, Ask, Granted, WakeUp, Reserve, LimiterTypeOK
<1>3. ASSUME NEW e \in Callers, FetchInside(e) PROVE place'[c] = "inside"
  <2>1. place[e] = "inside" /\ place' = place
    BY <1>3 DEF FetchInside, limiter
  <2>2. c # e => stage'[c] = stage[c]
    BY <1>0, <1>3 DEF FetchInside, FetcherTypeOK, Start, FetchStep, Send, Refuse, Again,
       Redirect, EndTry, Break, Raise, Finish
  <2> QED BY <2>1, <2>2 DEF IInv, RunsInside
<1>4. ASSUME NEW e \in Callers, Exit(e) PROVE place'[c] = "inside"
  BY <1>0, <1>4 DEF Exit, Leave, fetcher, LimiterTypeOK, IInv, RunsInside
<1>5. CASE UNCHANGED vars
  BY <1>5 DEF vars, limiter, fetcher, IInv, RunsInside
<1> QED BY <1>1, <1>2, <1>3, <1>4, <1>5 DEF Next

LEMMA InvAlways == Spec => []IInv
<1>1. Init => IInv
  BY LInvInit, FInvInit, UpstreamAssumption
     DEF Init, IInv, RunsInside, FetcherInit, Fetching, UpstreamAssumption
<1>2. IInv /\ [Next]_vars => IInv'
  <2>1. CASE Next
    BY <2>1, StepsSplit, LInvNext, FInvNext, RunsInsideNext DEF IInv
  <2>2. CASE UNCHANGED vars
    BY <2>2, LInvNext, FInvNext, RunsInsideNext DEF IInv, vars
  <2> QED BY <2>1, <2>2
<1> QED BY <1>1, <1>2, PTL DEF Spec

(* Every variable of the limiter and of the fetcher keeps its type; in     *)
(* particular no semaphore exceeds its initial value.                      *)
THEOREM TypeCorrect == Spec => []TypeOK
<1>1. IInv => TypeOK
  BY DEF IInv, LInv, FInv, TypeOK
<1> QED BY <1>1, InvAlways, PTL

(* rate_limit.py: callers of one domain whose sleep ends on time begin an  *)
(* interval apart, and one that oversleeps begins no earlier.              *)
THEOREM PacedHolds == Spec => []Paced
<1>1. ASSUME IInv, NEW c \in Callers, NEW e \in Callers, c # e, DomainOf[c] = DomainOf[e],
             HasBegun(c), HasBegun(e)
      PROVE  began[e] >= due[c] + Interval \/ began[c] >= due[e] + Interval
  <2>1. /\ due[c] \in Nat /\ due[e] \in Nat /\ began[c] \in Nat /\ began[e] \in Nat
        /\ Interval \in Nat
    BY <1>1, LimiterAssumption DEF IInv, LInv, LimiterTypeOK, LimiterAssumption
  <2>2. began[c] >= due[c] /\ began[e] >= due[e]
    BY <1>1 DEF IInv, LInv, InTime
  <2>3. due[e] >= due[c] + Interval \/ due[c] >= due[e] + Interval
    BY <1>1 DEF IInv, LInv, Apart
  <2> QED BY <2>1, <2>2, <2>3
<1>2. IInv => Paced
  BY <1>1 DEF Paced
<1> QED BY <1>2, InvAlways, PTL

(* rate_limit.py, _perform: a domain's slot admits no more fetches than    *)
(* its semaphore has permits, their retries and redirects included.        *)
THEOREM AdmittedHolds == Spec => []Admitted
<1>1. IInv => Admitted
  BY DEF IInv, LInv, Accounted, Holders, RunsInside, Admitted
<1> QED BY <1>1, InvAlways, PTL

(* http.py: however the sites redirect, no try asks for a URL twice, for   *)
(* one the guard refuses, or for more than max_redirects + 1.              *)
THEOREM NoUrlTwiceHolds == Spec => []NoUrlTwice
<1>1. IInv => NoUrlTwice
  BY DEF IInv, FInv
<1> QED BY <1>1, InvAlways, PTL

(* http.py: REDIRECT_LOOP and TOO_MANY_REDIRECTS are about the last try.   *)
THEOREM RedirectsBlamedRightlyHolds == Spec => []RedirectsBlamedRightly
<1>1. IInv => RedirectsBlamedRightly
  BY DEF IInv, FInv
<1> QED BY <1>1, InvAlways, PTL

(* http.py: a fetch tries again only after a retryable failure, gives up   *)
(* on one only after max_attempts, and its attempts list tells of it all.  *)
THEOREM AttemptsTellHolds == Spec => []AttemptsTell
<1>1. IInv => AttemptsTell
  BY DEF IInv, FInv
<1> QED BY <1>1, InvAlways, PTL

-----------------------------------------------------------------------------
(* Nobody waits for a permit that nobody will give back: the safety part   *)
(* of Served.                                                              *)

(* The queue of a domain has exactly the callers that wait there, once.    *)
InLine(d) ==
  LET q == waiting[d]
  IN /\ \A i \in 1..Len(q) : DomainOf[q[i]] = d /\ place[q[i]] = "queued"
     /\ \A i, j \in 1..Len(q) : q[i] = q[j] => i = j
     /\ \A c \in Callers : place[c] = "queued" /\ DomainOf[c] = d =>
          \E i \in 1..Len(q) : q[i] = c

LEMMA InLineKept ==
  ASSUME LimiterTypeOK, NEW d \in Domains, InLine(d), waiting'[d] = waiting[d],
         \A c \in Callers : DomainOf[c] = d => (place[c] = "queued" <=> place'[c] = "queued")
  PROVE  InLine(d)'
<1>1. waiting[d] \in Seq(Callers)
  BY DEF LimiterTypeOK
<1> QED BY <1>1 DEF InLine

(* A caller gets in line.                                                  *)
LEMMA InLineJoined ==
  ASSUME LimiterTypeOK, NEW c \in Callers, place[c] = "away", InLine(DomainOf[c]),
         place' = [place EXCEPT ![c] = "queued"],
         waiting' = [waiting EXCEPT ![DomainOf[c]] = Append(@, c)]
  PROVE  InLine(DomainOf[c])'
<1> DEFINE d == DomainOf[c]
           q == waiting[d]
           r == Append(q, c)
<1>1. d \in Domains /\ q \in Seq(Callers)
  BY LimiterAssumption DEF LimiterAssumption, LimiterTypeOK
<1>2. waiting'[d] = r /\ \A e \in Callers : place'[e] = IF e = c THEN "queued" ELSE place[e]
  BY <1>1 DEF LimiterTypeOK
<1>3. /\ Len(r) = Len(q) + 1 /\ r[Len(q) + 1] = c /\ Len(q) \in Nat
      /\ \A i \in 1..Len(q) : r[i] = q[i] /\ q[i] \in Callers
  BY <1>1
<1>4. \A i \in 1..Len(r) : i \in 1..Len(q) \/ i = Len(q) + 1
  BY <1>3
<1>5. \A i \in 1..Len(q) : i \in 1..Len(r) /\ q[i] # c
  BY <1>3 DEF InLine
<1>6. ASSUME NEW i \in 1..Len(r) PROVE DomainOf[r[i]] = d /\ place'[r[i]] = "queued"
  BY <1>2, <1>3, <1>4, <1>5 DEF InLine
<1>7. ASSUME NEW i \in 1..Len(r), NEW j \in 1..Len(r), r[i] = r[j] PROVE i = j
  BY <1>3, <1>4, <1>5, <1>7 DEF InLine
<1>8. ASSUME NEW e \in Callers, place'[e] = "queued", DomainOf[e] = d
      PROVE  \E i \in 1..Len(r) : r[i] = e
  <2>1. Len(q) + 1 \in 1..Len(r)
    BY <1>3
  <2> QED BY <1>2, <1>3, <1>5, <1>8, <2>1 DEF InLine
<1> HIDE DEF d, r
<1>9. InLine(d)'
  BY <1>2, <1>6, <1>7, <1>8 DEF InLine
<1> QED BY <1>9 DEF d

(* The first in line gets its permit.                                      *)
LEMMA InLineLeft ==
  ASSUME LimiterTypeOK, NEW c \in Callers, InLine(DomainOf[c]),
         waiting[DomainOf[c]] # <<>>, Head(waiting[DomainOf[c]]) = c,
         NEW l \in {"asleep", "inside"}, place' = [place EXCEPT ![c] = l],
         waiting' = [waiting EXCEPT ![DomainOf[c]] = Tail(@)]
  PROVE  InLine(DomainOf[c])'
<1> DEFINE d == DomainOf[c]
           q == waiting[d]
           r == Tail(q)
<1>1. d \in Domains /\ q \in Seq(Callers)
  BY LimiterAssumption DEF LimiterAssumption, LimiterTypeOK
<1>2. waiting'[d] = r /\ \A e \in Callers : place'[e] = IF e = c THEN l ELSE place[e]
  BY <1>1 DEF LimiterTypeOK
<1>3. /\ Len(r) = Len(q) - 1 /\ Len(q) \in Nat /\ Len(q) # 0 /\ q[1] = c
      /\ \A i \in 1..Len(r) : r[i] = q[i + 1]
      /\ \A i \in 1..Len(q) : q[i] \in Callers
  BY <1>1
<1>4. \A i \in 1..Len(r) : i \in Nat /\ i + 1 \in 1..Len(q) /\ i + 1 # 1 /\ 1 \in 1..Len(q)
  BY <1>3
<1>5. ASSUME NEW i \in 1..Len(r) PROVE DomainOf[r[i]] = d /\ place'[r[i]] = "queued"
  <2>1. q[i + 1] \in Callers /\ q[i + 1] # c
    BY <1>3, <1>4 DEF InLine
  <2> QED BY <1>2, <1>3, <1>4, <2>1 DEF InLine
<1>6. ASSUME NEW i \in 1..Len(r), NEW j \in 1..Len(r), r[i] = r[j] PROVE i = j
  <2>1. i + 1 = j + 1
    BY <1>3, <1>4, <1>6 DEF InLine
  <2> QED BY <1>4, <2>1
<1>7. ASSUME NEW e \in Callers, place'[e] = "queued", DomainOf[e] = d
      PROVE  \E i \in 1..Len(r) : r[i] = e
  <2>1. e # c /\ place[e] = "queued"
    BY <1>2, <1>7
  <2>2. PICK i \in 1..Len(q) : q[i] = e
    BY <1>7, <2>1 DEF InLine
  <2>3. i # 1
    BY <1>3, <2>1, <2>2
  <2>4. i - 1 \in 1..Len(r) /\ (i - 1) + 1 = i
    BY <1>3, <2>3
  <2> QED BY <1>3, <2>2, <2>4
<1>8. \A i, j \in 1..Len(r) : r[i] = r[j] => i = j
  BY <1>6
<1>9. waiting'[d] = r
  BY <1>2
<1>10. /\ \A i \in 1..Len(r) : DomainOf[r[i]] = d /\ place'[r[i]] = "queued"
       /\ \A e \in Callers : place'[e] = "queued" /\ DomainOf[e] = d =>
            \E i \in 1..Len(r) : r[i] = e
  BY <1>5, <1>7
<1> HIDE DEF d, r
<1>11. InLine(d)'
  BY ONLY <1>8, <1>9, <1>10 DEF InLine
<1> QED BY <1>11 DEF d

LEMMA InLineNext ==
  ASSUME LimiterTypeOK, [LimiterNext]_limiter, \A e \in Domains : InLine(e), NEW d \in Domains
  PROVE  InLine(d)'
<1>0. \A c \in Callers : DomainOf[c] \in Domains
  BY LimiterAssumption DEF LimiterAssumption
<1>1. CASE Tick \/ UNCHANGED limiter
  BY <1>1, InLineKept DEF Tick, limiter
<1>2. ASSUME NEW c \in Callers, WakeUp(c) \/ Leave(c) PROVE InLine(d)'
  BY <1>2, InLineKept DEF WakeUp, Leave, LimiterTypeOK
<1>3. ASSUME NEW c \in Callers, Ask(c) PROVE InLine(d)'
  <2>1. place[c] = "away"
    BY <1>3 DEF Ask
  <2>2. CASE Reserve(c) /\ UNCHANGED waiting
    BY <2>1, <2>2, InLineKept DEF Reserve, LimiterTypeOK
  <2>3. CASE /\ place' = [place EXCEPT ![c] = "queued"]
             /\ waiting' = [waiting EXCEPT ![DomainOf[c]] = Append(@, c)]
    <3>1. CASE d = DomainOf[c]
      BY <2>1, <2>3, <3>1, InLineJoined
    <3>2. CASE d # DomainOf[c]
      BY <2>3, <3>2, InLineKept DEF LimiterTypeOK
    <3> QED BY <3>1, <3>2
  <2> QED BY <1>3, <2>2, <2>3 DEF Ask
<1>4. ASSUME NEW c \in Callers, Granted(c) PROVE InLine(d)'
  <2>1. PICK l \in {"asleep", "inside"} : place' = [place EXCEPT ![c] = l]
    BY <1>4 DEF Granted, Reserve
  <2>2. /\ waiting[DomainOf[c]] # <<>> /\ Head(waiting[DomainOf[c]]) = c
        /\ waiting' = [waiting EXCEPT ![DomainOf[c]] = Tail(@)]
    BY <1>4 DEF Granted
  <2>3. CASE d = DomainOf[c]
    BY <2>1, <2>2, <2>3, InLineLeft
  <2>4. CASE d # DomainOf[c]
    BY <2>1, <2>2, <2>4, InLineKept DEF LimiterTypeOK
  <2> QED BY <2>3, <2>4
<1> QED BY <1>1, <1>2, <1>3, <1>4 DEF LimiterNext

(* Whoever waits for the slot of a domain is in line, the first in line    *)
(* waits, and a permit is free or with a caller that is inside or asleep.  *)
SlotsAttended ==
  \A d \in Domains :
    /\ \A c \in Callers : place[c] = "queued" /\ DomainOf[c] = d =>
         \E i \in 1..Len(waiting[d]) : waiting[d][i] = c
    /\ waiting[d] # <<>> =>
         /\ DomainOf[Head(waiting[d])] = d /\ place[Head(waiting[d])] = "queued"
         /\ permits[d] > 0 \/ Holders(d) # {}

(* rate_limit.py, _perform: no caller is lost in the line of its domain,   *)
(* and however a fetch ends its permit is not: what Served needs of every  *)
(* state.                                                                  *)
THEOREM SlotsAreAttended == Spec => []SlotsAttended
<1> DEFINE All == \A d \in Domains : InLine(d)
<1>1. Init => All
  BY DEF Init, LimiterInit, InLine
<1>2. IInv /\ All /\ [Next]_vars => All'
  <2> SUFFICES ASSUME IInv, All, [Next]_vars, NEW d \in Domains PROVE InLine(d)'
    OBVIOUS
  <2>1. [LimiterNext]_limiter
    BY StepsSplit DEF vars
  <2> QED BY <2>1, InLineNext DEF IInv, LInv
<1>3. IInv /\ All => SlotsAttended
  <2> SUFFICES ASSUME IInv, NEW d \in Domains, InLine(d)
               PROVE  /\ \A c \in Callers : place[c] = "queued" /\ DomainOf[c] = d =>
                           \E i \in 1..Len(waiting[d]) : waiting[d][i] = c
                      /\ waiting[d] # <<>> =>
                           /\ DomainOf[Head(waiting[d])] = d
                           /\ place[Head(waiting[d])] = "queued"
                           /\ permits[d] > 0 \/ Holders(d) # {}
    BY DEF SlotsAttended
  <2>1. waiting[d] \in Seq(Callers) /\ permits[d] \in 0..Concurrency /\ Concurrency \in Nat \ {0}
    BY LimiterAssumption DEF LimiterAssumption, IInv, LInv, LimiterTypeOK
  <2>2. waiting[d] # <<>> => 1 \in 1..Len(waiting[d]) /\ Head(waiting[d]) = waiting[d][1]
    BY <2>1
  <2>3. Holders(d) = {} => Cardinality(Holders(d)) = 0
    BY FS_EmptySet, Zenon
  <2>4. permits[d] > 0 \/ Holders(d) # {}
    BY <2>1, <2>3 DEF IInv, LInv, Accounted
  <2> QED BY <2>2, <2>4 DEF InLine
<1> HIDE DEF All
<1> QED BY <1>1, <1>2, <1>3, InvAlways, PTL DEF Spec
=============================================================================
