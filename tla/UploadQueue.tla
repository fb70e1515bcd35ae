----------------------------- MODULE UploadQueue -----------------------------
(***************************************************************************)
(* The write-behind queue to the bucket (engine/bucket/queue.go): request  *)
(* goroutines offer objects to a bounded channel, workers upload them, and *)
(* a shutdown closes the channel and waits for the workers.                *)
(*                                                                         *)
(* An object is its body's size.  Every atomic operation, channel          *)
(* operation and lock region is a step of its own.                         *)
(***************************************************************************)
EXTENDS Integers, Sequences, FiniteSets, Functions

CONSTANTS
    Producers,   \* request goroutines, the callers of Offer
    Workers,     \* cfg.Concurrency goroutines
    Sizes,       \* body sizes
    Cap,         \* cfg.Queue, the channel's capacity
    QueueBytes,  \* cfg.QueueBytes; 0 is no byte bound
    MinSize,     \* cfg.MinSize
    MaxOffers    \* bound on the calls of Offer

ASSUME ProducersAssumption == IsFiniteSet(Producers)
ASSUME WorkersAssumption == IsFiniteSet(Workers)
ASSUME SizesAssumption == Sizes \subseteq Nat
ASSUME BoundsAssumption ==
    Cap \in Nat \ {0} /\ QueueBytes \in Nat /\ MinSize \in Nat /\ MaxOffers \in Nat

VARIABLES
    items,       \* the channel
    closed,      \* Queue.closed, and the channel is closed
    queued,      \* bytes accepted and not yet flushed
    depth,       \* objects accepted and not yet flushed
    dropped,     \* objects refused
    halted,      \* Start's context was cancelled: the halt channel is closed
    offer,       \* where each producer is in Offer
    worker,      \* where each worker is
    stop,        \* where Stop is: "idle", "waiting", "nil" or "error"
    offers,      \* calls of Offer so far
    taken,       \* objects the channel has taken (history)
    flushed      \* objects handed to the bucket (history)

vars == <<items, closed, queued, depth, dropped, halted, offer, worker, stop,
          offers, taken, flushed>>

NotOffering == [pc |-> "idle", size |-> 0]
At(pc, s) == [pc |-> pc, size |-> s]

\* Offer holds mu.RLock from its test of closed until it returns.
Reading(p) == offer[p].pc # "idle"

-----------------------------------------------------------------------------
(* Offer.                                                                  *)

\* An object below MinSize is not queued and is not a drop.
OfferSkip(p, s) ==
    /\ offer[p] = NotOffering /\ offers < MaxOffers
    /\ s < MinSize
    /\ offers' = offers + 1
    /\ UNCHANGED <<items, closed, queued, depth, dropped, halted, offer, worker,
                   stop, taken, flushed>>

OfferBegin(p, s) ==
    /\ offer[p] = NotOffering /\ offers < MaxOffers
    /\ s >= MinSize
    /\ offers' = offers + 1
    /\ \/ closed /\ dropped' = dropped + 1 /\ UNCHANGED offer
       \/ ~closed /\ offer' = [offer EXCEPT ![p] = At("claim", s)] /\ UNCHANGED dropped
    /\ UNCHANGED <<items, closed, queued, depth, halted, worker, stop, taken, flushed>>

\* Seeded fault: the bound is tested before the object is added to it.
OfferClaimLate(p) ==
    /\ offer[p].pc = "claim"
    /\ \/ /\ QueueBytes = 0 \/ queued <= QueueBytes
          /\ queued' = queued + offer[p].size
          /\ offer' = [offer EXCEPT ![p] = At("send", offer[p].size)]
          /\ UNCHANGED dropped
       \/ /\ QueueBytes # 0 /\ queued > QueueBytes
          /\ dropped' = dropped + 1
          /\ offer' = [offer EXCEPT ![p] = NotOffering]
          /\ UNCHANGED queued
    /\ UNCHANGED <<items, closed, depth, halted, worker, stop, offers, taken, flushed>>

\* claim: the compare-and-swap that succeeds, or the test that refuses.
OfferClaim(p) ==
    /\ offer[p].pc = "claim"
    /\ \/ /\ QueueBytes = 0 \/ queued + offer[p].size <= QueueBytes
          /\ queued' = queued + offer[p].size
          /\ offer' = [offer EXCEPT ![p] = At("send", offer[p].size)]
          /\ UNCHANGED dropped
       \/ /\ QueueBytes # 0 /\ queued + offer[p].size > QueueBytes
          /\ dropped' = dropped + 1
          /\ offer' = [offer EXCEPT ![p] = NotOffering]
          /\ UNCHANGED queued
    /\ UNCHANGED <<items, closed, depth, halted, worker, stop, offers, taken, flushed>>

\* The select: a free slot, or the default branch.
OfferSend(p) ==
    /\ offer[p].pc = "send"
    /\ \/ /\ Len(items) < Cap
          /\ items' = Append(items, offer[p].size)
          /\ taken' = taken + 1
          /\ offer' = [offer EXCEPT ![p] = At("count", offer[p].size)]
          /\ UNCHANGED <<queued, dropped>>
       \/ /\ Len(items) >= Cap
          /\ queued' = queued - offer[p].size
          /\ dropped' = dropped + 1
          /\ offer' = [offer EXCEPT ![p] = NotOffering]
          /\ UNCHANGED <<items, taken>>
    /\ UNCHANGED <<closed, depth, halted, worker, stop, offers, flushed>>

\* The object may have been flushed before it is counted here.
OfferCount(p) ==
    /\ offer[p].pc = "count"
    /\ depth' = depth + 1
    /\ offer' = [offer EXCEPT ![p] = NotOffering]
    /\ UNCHANGED <<items, closed, queued, dropped, halted, worker, stop, offers,
                   taken, flushed>>

-----------------------------------------------------------------------------
(* The workers.                                                            *)

Waiting == At("wait", 0)

WorkerTake(w) ==
    /\ worker[w] = Waiting
    /\ items # <<>>
    /\ worker' = [worker EXCEPT ![w] = At("put", Head(items))]
    /\ items' = Tail(items)
    /\ UNCHANGED <<closed, queued, depth, dropped, halted, offer, stop, offers,
                   taken, flushed>>

\* Seeded fault: a worker leaves a closed channel that still has items.
WorkerExitClosed(w) ==
    /\ worker[w] = Waiting
    /\ halted \/ closed
    /\ worker' = [worker EXCEPT ![w] = At("gone", 0)]
    /\ UNCHANGED <<items, closed, queued, depth, dropped, halted, offer, stop, offers,
                   taken, flushed>>

\* A worker leaves when the halt channel or the drained channel is closed.
WorkerExit(w) ==
    /\ worker[w] = Waiting
    /\ halted \/ (closed /\ items = <<>>)
    /\ worker' = [worker EXCEPT ![w] = At("gone", 0)]
    /\ UNCHANGED <<items, closed, queued, depth, dropped, halted, offer, stop, offers,
                   taken, flushed>>

\* flush: the bucket answered, with success or not, or the timeout fired.
WorkerPut(w) ==
    /\ worker[w].pc = "put"
    /\ worker' = [worker EXCEPT ![w] = At("uncount", worker[w].size)]
    /\ flushed' = flushed + 1
    /\ UNCHANGED <<items, closed, queued, depth, dropped, halted, offer, stop, offers, taken>>

\* flush's deferred function: two atomic subtractions.
WorkerUncount(w) ==
    /\ worker[w].pc = "uncount"
    /\ depth' = depth - 1
    /\ worker' = [worker EXCEPT ![w] = At("unclaim", worker[w].size)]
    /\ UNCHANGED <<items, closed, queued, dropped, halted, offer, stop, offers, taken,
                   flushed>>

WorkerUnclaim(w) ==
    /\ worker[w].pc = "unclaim"
    /\ queued' = queued - worker[w].size
    /\ worker' = [worker EXCEPT ![w] = Waiting]
    /\ UNCHANGED <<items, closed, depth, dropped, halted, offer, stop, offers, taken,
                   flushed>>

-----------------------------------------------------------------------------
(* Shutdown.                                                               *)

\* Seeded fault: Stop does not take mu.
StopCloseUnlocked ==
    /\ stop = "idle"
    /\ closed' = TRUE
    /\ stop' = "waiting"
    /\ UNCHANGED <<items, queued, depth, dropped, halted, offer, worker, offers, taken,
                   flushed>>

\* Stop takes mu, so no Offer is between its test of closed and its return.
StopClose ==
    /\ stop = "idle"
    /\ \A p \in Producers : ~Reading(p)
    /\ closed' = TRUE
    /\ stop' = "waiting"
    /\ UNCHANGED <<items, queued, depth, dropped, halted, offer, worker, offers, taken,
                   flushed>>

AllGone == \A w \in Workers : worker[w].pc = "gone"

\* Seeded fault: the channel is looked at instead of the depth.
StopResultChannel == stop' = IF items = <<>> THEN "nil" ELSE "error"

StopResult == stop' = IF depth = 0 THEN "nil" ELSE "error"

\* Every worker has left.
StopReturn ==
    /\ stop = "waiting" /\ AllGone
    /\ StopResult
    /\ UNCHANGED <<items, closed, queued, depth, dropped, halted, offer, worker, offers,
                   taken, flushed>>

\* The caller's deadline passed first.
StopDeadline ==
    /\ stop = "waiting" /\ ~AllGone
    /\ StopResult
    /\ UNCHANGED <<items, closed, queued, depth, dropped, halted, offer, worker, offers,
                   taken, flushed>>

\* Start's context is cancelled.
Halt ==
    /\ ~halted
    /\ halted' = TRUE
    /\ UNCHANGED <<items, closed, queued, depth, dropped, offer, worker, stop, offers,
                   taken, flushed>>

-----------------------------------------------------------------------------

Init ==
    /\ items = <<>> /\ closed = FALSE
    /\ queued = 0 /\ depth = 0 /\ dropped = 0
    /\ halted = FALSE
    /\ offer = [p \in Producers |-> NotOffering]
    /\ worker = [w \in Workers |-> Waiting]
    /\ stop = "idle"
    /\ offers = 0 /\ taken = 0 /\ flushed = 0

Offer(p) ==
    \/ \E s \in Sizes : OfferSkip(p, s) \/ OfferBegin(p, s)
    \/ OfferClaim(p) \/ OfferSend(p) \/ OfferCount(p)

Work(w) ==
    \/ WorkerTake(w) \/ WorkerExit(w) \/ WorkerPut(w)
    \/ WorkerUncount(w) \/ WorkerUnclaim(w)

Next ==
    \/ \E p \in Producers : Offer(p)
    \/ \E w \in Workers : Work(w)
    \/ StopClose \/ StopReturn \/ StopDeadline \/ Halt

Spec == Init /\ [][Next]_vars

\* Nothing in Offer blocks once it holds the lock; a worker is held by one
\* upload for putTimeout at most; Stop's wait ends when the workers have.
\* Nobody is obliged to offer, to stop or to cancel.
Fairness ==
    /\ \A p \in Producers : WF_vars(OfferClaim(p) \/ OfferSend(p) \/ OfferCount(p))
    /\ \A w \in Workers : WF_vars(Work(w))
    /\ WF_vars(StopReturn)

FairSpec == Spec /\ Fairness

-----------------------------------------------------------------------------
(* Properties.                                                             *)

ChannelOK ==
    /\ items \in Seq(Nat)
    /\ closed \in BOOLEAN /\ halted \in BOOLEAN
    /\ stop \in {"idle", "waiting", "nil", "error"}

CountsOK ==
    /\ queued \in Int /\ depth \in Int
    /\ dropped \in Nat /\ offers \in Nat /\ taken \in Nat /\ flushed \in Nat

CallersOK ==
    /\ offer \in [Producers -> [pc : {"idle", "claim", "send", "count"}, size : Nat]]
    /\ worker \in [Workers ->
                     [pc : {"wait", "put", "uncount", "unclaim", "gone"}, size : Nat]]

TypeOK == ChannelOK /\ CountsOK /\ CallersOK

Claimers == {p \in Producers : offer[p].pc = "send"}
Counters == {p \in Producers : offer[p].pc = "count"}
Putters == {w \in Workers : worker[w].pc = "put"}
Uncounters == {w \in Workers : worker[w].pc = "uncount"}
Holders == {w \in Workers : worker[w].pc \in {"put", "uncount", "unclaim"}}

\* Bytes of bodies the queue keeps alive: claimed for, in the channel, or
\* with a worker.
HeldBytes ==
    SumFunction([p \in Claimers |-> offer[p].size])
    + SumFunction(items)
    + SumFunction([w \in Holders |-> worker[w].size])

\* The memory the queue may hold is decided in advance: its byte counter is
\* exactly the bodies it keeps alive, uploads in flight included, they never
\* exceed QueueBytes, and the channel never holds more than its capacity
\* (queue.go Offer, claim, flush).
MemoryBounded ==
    /\ queued = HeldBytes
    /\ QueueBytes # 0 => HeldBytes <= QueueBytes
    /\ Len(items) <= Cap

\* No Offer is about to send when the channel is closed: the send would
\* panic (queue.go mu, Offer, Stop).
NoSendOnClosed == \A p \in Producers : offer[p].pc = "send" => ~closed

\* Stop that returns nil lost nothing: every object the queue took has been
\* handed to the bucket, although the depth it reads is counted after the
\* send and uncounted by workers that run meanwhile (queue.go Stop).
StopNilMeansFlushed == stop = "nil" => taken = flushed

\* A shutdown flushes what was queued: once the channel is closed, every
\* object the queue took reaches the bucket unless Start's context is
\* cancelled (queue.go Stop, worker).
DrainCompletes == closed ~> (halted \/ taken = flushed)
=============================================================================
