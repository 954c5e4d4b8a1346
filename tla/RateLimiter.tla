---------------------------- MODULE RateLimiter ----------------------------
(***************************************************************************)
(* DomainRateLimiter of one process (services/rate_limit.py): a semaphore  *)
(* bounds how many callers are inside the slot of a domain, and a time     *)
(* reserved for each of them keeps them apart.                             *)
(*                                                                         *)
(* asyncio's semaphore lets its waiters in first come, first served, and a *)
(* newcomer does not overtake them.  The lock around the reservation is    *)
(* never contended: no coroutine gives way inside it.  So a caller that    *)
(* gets a permit reserves its time in the same step.  The sleep until that *)
(* time may take longer than asked.                                        *)
(***************************************************************************)
EXTENDS Integers, Sequences

CONSTANTS Callers,      \* tasks that enter the slot of a domain, once
          Domains,      \* host names in lower case
          DomainOf,     \* the domain of a caller
          Interval,     \* interval_seconds, in units of the clock
          Concurrency,  \* how many callers may be inside a slot
          LastAsk,      \* bound: the latest time at which a caller comes
          Horizon       \* bound: from then on the clock runs for sleepers only

ASSUME LimiterAssumption ==
  /\ DomainOf \in [Callers -> Domains]
  /\ Interval \in Nat
  /\ Concurrency \in Nat \ {0}
  /\ LastAsk \in Nat
  /\ Horizon \in Nat

VARIABLES
  now,       \* time.monotonic()
  place,     \* where a caller is
  waiting,   \* the waiters of a domain's semaphore
  permits,   \* the value of a domain's semaphore
  nextSlot,  \* _next_slot
  due,       \* the time a caller has reserved
  began      \* history: the time a caller came inside

limiter == <<now, place, waiting, permits, nextSlot, due, began>>

Places == {"away", "queued", "asleep", "inside", "left"}

Latest(t, u) == IF t > u THEN t ELSE u

LimiterInit ==
  /\ now = 0
  /\ place = [c \in Callers |-> "away"]
  /\ waiting = [d \in Domains |-> <<>>]
  /\ permits = [d \in Domains |-> Concurrency]
  /\ nextSlot = [d \in Domains |-> 0]
  /\ due = [c \in Callers |-> 0]
  /\ began = [c \in Callers |-> 0]

(* The time a caller gets.                                                 *)
Slot(d) == Latest(now, nextSlot[d])

(* Mutation: idle time is saved up. *)
FollowingLast(d) == nextSlot[d] + Interval

(* The earliest time for the next caller.                                  *)
Following(d) == Slot(d) + Interval

(* Take a permit, reserve a time, and sleep unless it has come.            *)
Reserve(c) ==
  LET d == DomainOf[c]
      t == Slot(d)
  IN /\ permits[d] > 0
     /\ permits' = [permits EXCEPT ![d] = @ - 1]
     /\ due' = [due EXCEPT ![c] = t]
     /\ nextSlot' = [nextSlot EXCEPT ![d] = Following(d)]
     /\ place' = [place EXCEPT ![c] = IF t > now THEN "asleep" ELSE "inside"]
     /\ began' = [began EXCEPT ![c] = now]

(* The caller comes and finds a permit, or gets in line.                   *)
Ask(c) ==
  LET d == DomainOf[c]
  IN /\ place[c] = "away"
     /\ now <= LastAsk
     /\ \/ /\ waiting[d] = <<>>
           /\ Reserve(c)
           /\ UNCHANGED waiting
        \/ /\ permits[d] = 0 \/ waiting[d] # <<>>
           /\ place' = [place EXCEPT ![c] = "queued"]
           /\ waiting' = [waiting EXCEPT ![d] = Append(@, c)]
           /\ UNCHANGED <<permits, nextSlot, due, began>>
     /\ UNCHANGED now

(* The first in line gets the permit another caller gave back.             *)
Granted(c) ==
  LET d == DomainOf[c]
  IN /\ place[c] = "queued"
     /\ waiting[d] # <<>> /\ Head(waiting[d]) = c
     /\ Reserve(c)
     /\ waiting' = [waiting EXCEPT ![d] = Tail(@)]
     /\ UNCHANGED now

WakeUp(c) ==
  /\ place[c] = "asleep"
  /\ now >= due[c]
  /\ place' = [place EXCEPT ![c] = "inside"]
  /\ began' = [began EXCEPT ![c] = now]
  /\ UNCHANGED <<now, waiting, permits, nextSlot, due>>

(* Mutation: released by an error path and again at the end. *)
ReleaseTwice(c) == permits' = [permits EXCEPT ![DomainOf[c]] = @ + 2]


Release(c) == permits' = [permits EXCEPT ![DomainOf[c]] = @ + 1]

(* The body of the slot is left, by its end or by an exception.            *)
Leave(c) ==
  /\ place[c] = "inside"
  /\ place' = [place EXCEPT ![c] = "left"]
  /\ Release(c)
  /\ UNCHANGED <<now, waiting, nextSlot, due, began>>

Tick ==
  /\ now < Horizon \/ \E c \in Callers : place[c] = "asleep" /\ now < due[c]
  /\ now' = now + 1
  /\ UNCHANGED <<place, waiting, permits, nextSlot, due, began>>

LimiterNext ==
  \/ Tick
  \/ \E c \in Callers : Ask(c) \/ Granted(c) \/ WakeUp(c) \/ Leave(c)

LimiterSpec == LimiterInit /\ [][LimiterNext]_limiter

-----------------------------------------------------------------------------
LimiterTypeOK ==
  /\ now \in Nat
  /\ place \in [Callers -> Places]
  /\ waiting \in [Domains -> Seq(Callers)]
  /\ permits \in [Domains -> 0..Concurrency]
  /\ nextSlot \in [Domains -> Nat]
  /\ due \in [Callers -> Nat]
  /\ began \in [Callers -> Nat]

(* A caller has come inside the slot of its domain.                        *)
HasBegun(c) == place[c] \in {"inside", "left"}

(* Of two callers of a domain, one begins at least an interval after the   *)
(* time reserved for the other: callers whose sleep ends when it should    *)
(* are an interval apart, however they came and went, and after an idle    *)
(* time too.                                                               *)
Paced ==
  \A c, e \in Callers :
    c # e /\ DomainOf[c] = DomainOf[e] /\ HasBegun(c) /\ HasBegun(e) =>
      began[e] >= due[c] + Interval \/ began[c] >= due[e] + Interval
=============================================================================
