-------------------------- MODULE UploadQueueProofs --------------------------
(***************************************************************************)
(* Theorems about the upload queue, for any number of producers and        *)
(* workers, any capacity, byte bound and object sizes.                     *)
(***************************************************************************)
EXTENDS UploadQueue, FiniteSetTheorems, NaturalsInduction, WellFoundedInduction, TLAPS

-----------------------------------------------------------------------------
(* The inductive invariant.                                                *)

\* Workers whose object the depth still counts.
Counted == {w \in Workers : worker[w].pc \in {"put", "uncount"}}

\* The depth counts the channel and the workers, less the objects whose
\* Offer has sent them and not counted them yet.
DepthExact == depth = Len(items) + Cardinality(Counted) - Cardinality(Counters)

\* No object is lost or handed to the bucket twice.
Conserved == taken = flushed + Len(items) + Cardinality(Putters)

\* Offer runs only while the queue is open; Stop closes before it waits.
ClosedIsQuiet ==
    /\ closed => \A p \in Producers : offer[p].pc = "idle"
    /\ stop # "idle" => closed

\* What Stop saw when it returned nil stays true.
NilIsDrained == stop = "nil" => items = <<>> /\ Counted = {}

IInv == TypeOK /\ DepthExact /\ Conserved /\ ClosedIsQuiet /\ NilIsDrained

-----------------------------------------------------------------------------

\* The sets of producers and workers the invariant counts are finite.
LEMMA CountedFinite ==
    /\ IsFiniteSet(Counted) /\ Cardinality(Counted) \in Nat
    /\ IsFiniteSet(Counters) /\ Cardinality(Counters) \in Nat
    /\ IsFiniteSet(Putters) /\ Cardinality(Putters) \in Nat
  BY FS_Subset, FS_CardinalityType, ProducersAssumption, WorkersAssumption
     DEF Counted, Counters, Putters

\* The initial states are in their types.
LEMMA InitTyped == ASSUME Init PROVE TypeOK
<1>1. ChannelOK
  <2>1. items \in Seq(Nat)
    BY DEF Init
  <2> QED
    BY <2>1, Zenon DEF Init, ChannelOK
<1>2. CountsOK
  BY DEF Init, CountsOK
<1>3. CallersOK
  BY DEF Init, CallersOK, NotOffering, Waiting, At
<1> QED
  BY <1>1, <1>2, <1>3 DEF TypeOK

\* Every step keeps the variables in their types.
LEMMA NextTyped == ASSUME TypeOK, [Next]_vars PROVE TypeOK'
<1> USE SizesAssumption, BoundsAssumption
<1> USE DEF TypeOK, NotOffering, Waiting, At
<1>1. ASSUME NEW p \in Producers, NEW s \in Sizes, OfferSkip(p, s) \/ OfferBegin(p, s)
      PROVE  TypeOK'
  <2>1. ChannelOK'
    BY <1>1 DEF ChannelOK, OfferSkip, OfferBegin
  <2>2. CountsOK'
    BY <1>1 DEF CountsOK, OfferSkip, OfferBegin
  <2>3. CallersOK'
    BY <1>1 DEF CallersOK, OfferSkip, OfferBegin
  <2> QED
    BY <2>1, <2>2, <2>3
<1>2. ASSUME NEW p \in Producers, OfferClaim(p)
      PROVE  TypeOK'
  <2>1. ChannelOK'
    BY <1>2 DEF ChannelOK, CallersOK, OfferClaim
  <2>2. CountsOK'
    BY <1>2 DEF CountsOK, CallersOK, OfferClaim
  <2>3. CallersOK'
    BY <1>2 DEF CallersOK, OfferClaim
  <2> QED
    BY <2>1, <2>2, <2>3
<1>3. ASSUME NEW p \in Producers, OfferSend(p)
      PROVE  TypeOK'
  <2>1. ChannelOK'
    <3>1. offer[p].size \in Nat
      BY DEF CallersOK
    <3>4. items' = Append(items, offer[p].size) \/ items' = items
      BY <1>3, Zenon DEF OfferSend
    <3>5. items \in Seq(Nat)
      BY DEF ChannelOK
    <3>2. items' \in Seq(Nat)
      BY <3>1, <3>4, <3>5
    <3>3. UNCHANGED <<closed, halted, stop>>
      BY <1>3 DEF OfferSend
    <3> QED
      BY <3>2, <3>3 DEF ChannelOK
  <2>2. CountsOK'
    BY <1>3 DEF CountsOK, CallersOK, OfferSend
  <2>3. CallersOK'
    BY <1>3 DEF CallersOK, OfferSend
  <2> QED
    BY <2>1, <2>2, <2>3
<1>4. ASSUME NEW p \in Producers, OfferCount(p)
      PROVE  TypeOK'
  <2>1. ChannelOK'
    BY <1>4 DEF ChannelOK, OfferCount
  <2>2. CountsOK'
    BY <1>4 DEF CountsOK, OfferCount
  <2>3. CallersOK'
    BY <1>4 DEF CallersOK, OfferCount
  <2> QED
    BY <2>1, <2>2, <2>3
<1>5. ASSUME NEW w \in Workers, WorkerTake(w)
      PROVE  TypeOK'
  <2>1. ChannelOK'
    BY <1>5 DEF ChannelOK, CallersOK, WorkerTake
  <2>2. CountsOK'
    BY <1>5 DEF CountsOK, CallersOK, WorkerTake
  <2>3. CallersOK'
    BY <1>5 DEF CallersOK, ChannelOK, WorkerTake
  <2> QED
    BY <2>1, <2>2, <2>3
<1>6. ASSUME NEW w \in Workers, WorkerExit(w) \/ WorkerPut(w)
      PROVE  TypeOK'
  <2>1. ChannelOK'
    BY <1>6 DEF ChannelOK, WorkerExit, WorkerPut
  <2>2. CountsOK'
    BY <1>6 DEF CountsOK, WorkerExit, WorkerPut
  <2>3. CallersOK'
    <3>1. offer' = offer /\ \E pc \in {"gone", "uncount"}, n \in {0, worker[w].size} :
                              worker' = [worker EXCEPT ![w] = At(pc, n)]
      BY <1>6, Zenon DEF WorkerExit, WorkerPut
    <3> QED
      BY <3>1 DEF CallersOK
  <2> QED
    BY <2>1, <2>2, <2>3
<1>7. ASSUME NEW w \in Workers, WorkerUncount(w) \/ WorkerUnclaim(w)
      PROVE  TypeOK'
  <2>1. ChannelOK'
    BY <1>7 DEF ChannelOK, CallersOK, WorkerUncount, WorkerUnclaim
  <2>2. CountsOK'
    BY <1>7 DEF CountsOK, CallersOK, WorkerUncount, WorkerUnclaim
  <2>3. CallersOK'
    BY <1>7 DEF CallersOK, WorkerUncount, WorkerUnclaim
  <2> QED
    BY <2>1, <2>2, <2>3
<1>8. CASE StopClose \/ StopReturn \/ StopDeadline \/ Halt
  <2>1. ChannelOK'
    BY <1>8, Zenon DEF ChannelOK, StopClose, StopReturn, StopDeadline, StopResult, Halt
  <2>2. CountsOK'
    BY <1>8 DEF CountsOK, StopClose, StopReturn, StopDeadline, StopResult, Halt
  <2>3. CallersOK'
    BY <1>8 DEF CallersOK, StopClose, StopReturn, StopDeadline, StopResult, Halt
  <2> QED
    BY <2>1, <2>2, <2>3
<1>9. CASE UNCHANGED vars
  <2>1. ChannelOK'
    BY <1>9 DEF ChannelOK, vars
  <2>2. CountsOK'
    BY <1>9 DEF CountsOK, vars
  <2>3. CallersOK'
    BY <1>9 DEF CallersOK, vars
  <2> QED
    BY <2>1, <2>2, <2>3
<1> QED
  BY <1>1, <1>2, <1>3, <1>4, <1>5, <1>6, <1>7, <1>8, <1>9 DEF Next, Offer, Work

\* The queue's variables keep their types.
THEOREM TypeCorrect == Spec => []TypeOK
  BY InitTyped, NextTyped, PTL DEF Spec

-----------------------------------------------------------------------------
(* The inductive invariant is preserved.                                   *)

\* Every step preserves the inductive invariant.
LEMMA NextKeepsIInv == ASSUME IInv, [Next]_vars PROVE IInv'
<1> USE DEF IInv
<1>0. TypeOK'
  BY NextTyped
<1>a. Len(items) \in Nat
  BY DEF ChannelOK, TypeOK
<1>b. Len(items) = 0 => items = <<>>
  BY DEF ChannelOK, TypeOK
<1> USE CountedFinite
<1> USE DEF TypeOK, CountsOK, NotOffering, Waiting, At
<1>1. ASSUME NEW p \in Producers, NEW s \in Sizes, OfferSkip(p, s) \/ OfferBegin(p, s)
      PROVE  IInv'
  <2>1. Counted' = Counted /\ Counters' = Counters /\ Putters' = Putters
    BY <1>1 DEF CallersOK, OfferSkip, OfferBegin, Counted, Counters, Putters
  <2>2. DepthExact' /\ Conserved'
    BY <1>1, <2>1 DEF DepthExact, Conserved, OfferSkip, OfferBegin
  <2>3. ClosedIsQuiet' /\ NilIsDrained'
    BY <1>1, <2>1 DEF ClosedIsQuiet, NilIsDrained, OfferSkip, OfferBegin, CallersOK
  <2> QED
    BY <1>0, <2>2, <2>3
<1>2. ASSUME NEW p \in Producers, OfferClaim(p)
      PROVE  IInv'
  <2>1. Counted' = Counted /\ Counters' = Counters /\ Putters' = Putters
    BY <1>2 DEF CallersOK, OfferClaim, Counted, Counters, Putters
  <2>2. DepthExact' /\ Conserved'
    BY <1>2, <2>1 DEF DepthExact, Conserved, OfferClaim
  <2>3. ClosedIsQuiet' /\ NilIsDrained'
    BY <1>2, <2>1 DEF ClosedIsQuiet, NilIsDrained, OfferClaim, CallersOK
  <2> QED
    BY <1>0, <2>2, <2>3
<1>3. ASSUME NEW p \in Producers, OfferSend(p)
      PROVE  IInv'
  <2>1. Counted' = Counted /\ Putters' = Putters
    BY <1>3 DEF OfferSend, Counted, Putters
  <2>2. ~closed /\ stop = "idle"
    BY <1>3 DEF OfferSend, ClosedIsQuiet
  <2>3. ClosedIsQuiet' /\ NilIsDrained'
    BY <1>3, <2>2, Zenon DEF ClosedIsQuiet, NilIsDrained, OfferSend
  <2>4. CASE Len(items) < Cap
    <3>a. ~(Len(items) >= Cap)
      BY <1>a, <2>4, BoundsAssumption
    <3>0. /\ items' = Append(items, offer[p].size) /\ taken' = taken + 1
          /\ offer' = [offer EXCEPT ![p] = At("count", offer[p].size)]
          /\ offer[p].pc = "send" /\ flushed' = flushed
      BY <1>3, <3>a, Zenon DEF OfferSend
    <3>1. Len(items') = Len(items) + 1
      BY <3>0 DEF ChannelOK, CallersOK
    <3>2. p \notin Counters /\ Counters' = Counters \cup {p}
      BY <3>0 DEF CallersOK, Counters
    <3>3. Cardinality(Counters') = Cardinality(Counters) + 1
      BY <3>2, FS_AddElement, Zenon
    <3>4. DepthExact'
      <4>1. depth' = depth
        BY <1>3 DEF OfferSend
      <4> QED
        BY <1>a, <2>1, <3>1, <3>3, <4>1, SMTT(30) DEF DepthExact
    <3>5. Conserved'
      BY <1>a, <2>1, <3>0, <3>1, SMTT(30) DEF Conserved
    <3> QED
      BY <1>0, <2>3, <3>4, <3>5
  <2>5. CASE ~(Len(items) < Cap)
    <3>1. /\ items' = items /\ taken' = taken
          /\ offer' = [offer EXCEPT ![p] = NotOffering] /\ offer[p].pc = "send"
      BY <1>3, <1>a, <2>5, BoundsAssumption DEF OfferSend
    <3>2. Counters' = Counters
      BY <3>1 DEF CallersOK, Counters
    <3> QED
      BY <1>0, <1>3, <2>1, <2>3, <3>1, <3>2 DEF OfferSend, DepthExact, Conserved
  <2> QED
    BY <2>4, <2>5
<1>4. ASSUME NEW p \in Producers, OfferCount(p)
      PROVE  IInv'
  <2>1. Counted' = Counted /\ Putters' = Putters
    BY <1>4 DEF OfferCount, Counted, Putters
  <2>2. p \in Counters /\ Counters' = Counters \ {p}
    BY <1>4 DEF OfferCount, CallersOK, Counters
  <2>3. Cardinality(Counters') = Cardinality(Counters) - 1
    BY <2>2, FS_RemoveElement, Zenon
  <2>4. DepthExact' /\ Conserved'
    <3>1. items' = items /\ depth' = depth + 1 /\ taken' = taken /\ flushed' = flushed
      BY <1>4, Zenon DEF OfferCount
    <3>2. DepthExact'
      BY <1>a, <2>1, <2>3, <3>1, SMTT(30) DEF DepthExact
    <3>3. Conserved'
      BY <1>a, <2>1, <3>1, SMTT(30) DEF Conserved
    <3> QED
      BY <3>2, <3>3
  <2>5. ClosedIsQuiet' /\ NilIsDrained'
    BY <1>4, <2>1 DEF ClosedIsQuiet, NilIsDrained, OfferCount, CallersOK
  <2> QED
    BY <1>0, <2>4, <2>5
<1>5. ASSUME NEW w \in Workers, WorkerTake(w)
      PROVE  IInv'
  <2>1. Counters' = Counters
    BY <1>5 DEF WorkerTake, Counters
  <2>2. /\ w \notin Counted /\ Counted' = Counted \cup {w}
        /\ w \notin Putters /\ Putters' = Putters \cup {w}
    BY <1>5 DEF WorkerTake, CallersOK, Counted, Putters
  <2>3. /\ Cardinality(Counted') = Cardinality(Counted) + 1
        /\ Cardinality(Putters') = Cardinality(Putters) + 1
    BY <2>2, FS_AddElement, Zenon
  <2>4. Len(items') = Len(items) - 1
    BY <1>5 DEF WorkerTake, ChannelOK
  <2>5. DepthExact' /\ Conserved'
    <3>1. depth' = depth /\ taken' = taken /\ flushed' = flushed
      BY <1>5 DEF WorkerTake
    <3>2. DepthExact'
      BY <1>a, <2>1, <2>3, <2>4, <3>1, SMTT(30) DEF DepthExact
    <3>3. Conserved'
      BY <1>a, <2>3, <2>4, <3>1, SMTT(30) DEF Conserved
    <3> QED
      BY <3>2, <3>3
  <2>6. stop # "nil"
    BY <1>5 DEF WorkerTake, NilIsDrained
  <2>7. ClosedIsQuiet' /\ NilIsDrained'
    BY <1>5, <2>6 DEF ClosedIsQuiet, NilIsDrained, WorkerTake
  <2> QED
    BY <1>0, <2>5, <2>7
<1>6. ASSUME NEW w \in Workers, WorkerExit(w) \/ WorkerUnclaim(w)
      PROVE  IInv'
  <2>1. Counted' = Counted /\ Counters' = Counters /\ Putters' = Putters
    <3>1. offer' = offer
      BY <1>6 DEF WorkerExit, WorkerUnclaim
    <3>2. Counted' = Counted /\ Putters' = Putters
      <4>1. \/ worker[w].pc = "wait" /\ worker' = [worker EXCEPT ![w] = At("gone", 0)]
            \/ worker[w].pc = "unclaim" /\ worker' = [worker EXCEPT ![w] = Waiting]
        BY <1>6 DEF WorkerExit, WorkerUnclaim
      <4> QED
        BY <4>1 DEF CallersOK, Counted, Putters
    <3> QED
      BY <3>1, <3>2 DEF Counters
  <2>2. DepthExact' /\ Conserved'
    BY <1>6, <2>1 DEF DepthExact, Conserved, WorkerExit, WorkerUnclaim
  <2>3. ClosedIsQuiet' /\ NilIsDrained'
    BY <1>6, <2>1 DEF ClosedIsQuiet, NilIsDrained, WorkerExit, WorkerUnclaim
  <2> QED
    BY <1>0, <2>2, <2>3
<1>7. ASSUME NEW w \in Workers, WorkerPut(w)
      PROVE  IInv'
  <2>1. Counted' = Counted /\ Counters' = Counters
    BY <1>7 DEF WorkerPut, CallersOK, Counted, Counters
  <2>2. w \in Putters /\ Putters' = Putters \ {w}
    BY <1>7 DEF WorkerPut, CallersOK, Putters
  <2>3. Cardinality(Putters') = Cardinality(Putters) - 1
    BY <2>2, FS_RemoveElement, Zenon
  <2>4. DepthExact' /\ Conserved'
    <3>1. items' = items /\ depth' = depth /\ taken' = taken /\ flushed' = flushed + 1
      BY <1>7, Zenon DEF WorkerPut
    <3>2. DepthExact'
      BY <1>a, <2>1, <3>1, SMTT(30) DEF DepthExact
    <3>3. Conserved'
      BY <1>a, <2>3, <3>1, SMTT(30) DEF Conserved
    <3> QED
      BY <3>2, <3>3
  <2>5. ClosedIsQuiet' /\ NilIsDrained'
    BY <1>7, <2>1 DEF ClosedIsQuiet, NilIsDrained, WorkerPut
  <2> QED
    BY <1>0, <2>4, <2>5
<1>8. ASSUME NEW w \in Workers, WorkerUncount(w)
      PROVE  IInv'
  <2>1. Putters' = Putters /\ Counters' = Counters
    BY <1>8 DEF WorkerUncount, CallersOK, Putters, Counters
  <2>2. w \in Counted /\ Counted' = Counted \ {w}
    BY <1>8 DEF WorkerUncount, CallersOK, Counted
  <2>3. Cardinality(Counted') = Cardinality(Counted) - 1
    BY <2>2, FS_RemoveElement, Zenon
  <2>4. DepthExact' /\ Conserved'
    <3>1. items' = items /\ depth' = depth - 1 /\ taken' = taken /\ flushed' = flushed
      BY <1>8, Zenon DEF WorkerUncount
    <3>2. DepthExact'
      BY <1>a, <2>1, <2>3, <3>1, SMTT(30) DEF DepthExact
    <3>3. Conserved'
      BY <1>a, <2>1, <3>1, SMTT(30) DEF Conserved
    <3> QED
      BY <3>2, <3>3
  <2>5. ClosedIsQuiet' /\ NilIsDrained'
    BY <1>8, <2>2 DEF ClosedIsQuiet, NilIsDrained, WorkerUncount
  <2> QED
    BY <1>0, <2>4, <2>5
<1>9. CASE StopClose \/ StopReturn \/ StopDeadline \/ Halt
  <2> USE DEF StopClose, StopReturn, StopDeadline, Halt
  <2>1. Counted' = Counted /\ Counters' = Counters /\ Putters' = Putters
    BY <1>9 DEF Counted, Counters, Putters
  <2>2. DepthExact' /\ Conserved'
    <3>1. UNCHANGED <<items, depth, taken, flushed>>
      BY <1>9, Zenon
    <3> QED
      BY <2>1, <3>1, Zenon DEF DepthExact, Conserved
  <2>3. ClosedIsQuiet'
    BY <1>9 DEF ClosedIsQuiet, Reading, StopResult
  <2>4. ASSUME StopReturn \/ StopDeadline, depth = 0
        PROVE  items = <<>> /\ Counted = {}
    <3>1. Counters = {}
      BY <2>4 DEF ClosedIsQuiet, Counters
    <3>2. Cardinality(Counters) = 0
      BY <3>1, FS_EmptySet
    <3>3. Len(items) + Cardinality(Counted) = 0
      BY <1>a, <2>4, <3>2 DEF DepthExact
    <3>4. Len(items) = 0 /\ Cardinality(Counted) = 0
      BY <1>a, <3>3
    <3> QED
      BY <1>b, <3>4, FS_EmptySet
  <2>5. NilIsDrained'
    <3>1. UNCHANGED <<items, depth>>
      BY <1>9, Zenon
    <3>2. stop' = "nil" => stop = "nil" \/ ((StopReturn \/ StopDeadline) /\ depth = 0)
      BY <1>9 DEF StopResult
    <3> QED
      BY <2>1, <2>4, <3>1, <3>2, Zenon DEF NilIsDrained
  <2> QED
    BY <1>0, <2>2, <2>3, <2>5
<1>10. CASE UNCHANGED vars
  <2>1. Counted' = Counted /\ Counters' = Counters /\ Putters' = Putters
    BY <1>10 DEF vars, Counted, Counters, Putters
  <2> QED
    BY <1>0, <1>10, <2>1 DEF vars, DepthExact, Conserved, ClosedIsQuiet, NilIsDrained
<1> QED
  BY <1>1, <1>2, <1>3, <1>4, <1>5, <1>6, <1>7, <1>8, <1>9, <1>10 DEF Next, Offer, Work

\* Every reachable state satisfies the inductive invariant.
LEMMA IInvInvariant == Spec => []IInv
<1>1. Init => IInv
  <2> SUFFICES ASSUME Init PROVE IInv
    OBVIOUS
  <2>1. TypeOK
    BY InitTyped
  <2>2. Counted = {} /\ Counters = {} /\ Putters = {} /\ Len(items) = 0
    BY DEF Init, Counted, Counters, Putters, NotOffering, Waiting, At
  <2>3. DepthExact /\ Conserved
    BY <2>2, FS_EmptySet DEF Init, DepthExact, Conserved
  <2>4. ClosedIsQuiet /\ NilIsDrained
    BY DEF Init, ClosedIsQuiet, NilIsDrained
  <2> QED
    BY <2>1, <2>3, <2>4 DEF IInv
<1> QED
  BY <1>1, NextKeepsIInv, PTL DEF Spec

\* Offer never sends on the closed channel.
THEOREM SendsOnlyWhileOpen == Spec => []NoSendOnClosed
<1>1. IInv => NoSendOnClosed
  BY DEF IInv, ClosedIsQuiet, NoSendOnClosed
<1> QED
  BY <1>1, IInvInvariant, PTL

\* When Stop returns nil, everything the queue took was handed to the bucket.
THEOREM NilStopLosesNothing == Spec => []StopNilMeansFlushed
<1>1. ASSUME IInv, stop = "nil" PROVE taken = flushed
  <2>1. Len(items) = 0 /\ Putters = {}
    BY <1>1 DEF IInv, NilIsDrained, Counted, Putters
  <2> QED
    BY <1>1, <2>1, FS_EmptySet DEF IInv, Conserved, TypeOK, CountsOK
<1>2. IInv => StopNilMeansFlushed
  BY <1>1 DEF StopNilMeansFlushed
<1> QED
  BY <1>2, IInvInvariant, PTL

-----------------------------------------------------------------------------
(* Least elements.  The proofs by induction below take the least of the    *)
(* sets, or of the numbers, for which the claim fails.                     *)

\* A non-empty collection of subsets of a finite set has a minimal member.
LEMMA LeastSet ==
    ASSUME NEW S, IsFiniteSet(S), NEW T \in SUBSET SUBSET S, T # {}
    PROVE  \E x \in T : \A y \in T : y \subseteq x => y = x
<1>1. IsWellFoundedOn(StrictSubsetOrdering(S), FiniteSubsetsOf(S))
  BY FS_StrictSubsetOrderingWellFounded, Zenon
<1>2. T \subseteq FiniteSubsetsOf(S)
  BY FS_Subset, Zenon DEF FiniteSubsetsOf
<1>3. PICK x \in T : \A y \in T : <<y, x>> \notin StrictSubsetOrdering(S)
  BY <1>1, <1>2, WFMin, Zenon
<1> QED
  BY <1>3, Zenon DEF StrictSubsetOrdering

\* A non-empty set of natural numbers has a least element.
LEMMA LeastNumber ==
    ASSUME NEW T \in SUBSET Nat, T # {}
    PROVE  \E x \in T : \A y \in T : x <= y
<1>1. IsWellFoundedOn(OpToRel(<, Nat), Nat)
  BY NatLessThanWellFounded, Zenon
<1>2. PICK x \in T : \A y \in T : <<y, x>> \notin OpToRel(<, Nat)
  BY <1>1, WFMin, Zenon
<1>3. \A y \in T : ~(y < x)
  BY <1>2, Zenon DEF OpToRel
<1> QED
  BY <1>3

-----------------------------------------------------------------------------
(* Sums of functions and of sequences.                                     *)

Pick(s) == CHOOSE x \in s : TRUE

\* g gives the sum of f on each subset of S, as SumFunctionOnSet computes it.
Sums(f, S, g) ==
    g = [s \in SUBSET S |-> IF s = {} THEN 0 ELSE f[Pick(s)] + g[s \ {Pick(s)}]]

SumsOn(f, S) == CHOOSE g : Sums(f, S, g)

\* SumFunctionOnSet, written with the recursive function behind it.
LEMMA SumUnfold ==
    ASSUME NEW f, NEW S
    PROVE  SumFunctionOnSet(f, S) = SumsOn(f, S)[S]
BY Zenon DEF SumFunctionOnSet, FoldFunctionOnSet, MapThenFoldSet, SumsOn, Sums, Pick

\* The element a fold takes next is one of the set.
LEMMA PickIn ==
    ASSUME NEW s, s # {}
    PROVE  Pick(s) \in s
BY Zenon DEF Pick

\* What the sum of a set is does not depend on the set it is a part of.
LEMMA SumsAgree ==
    ASSUME NEW f, NEW S, NEW T, IsFiniteSet(S), NEW g, NEW h, Sums(f, S, g), Sums(f, T, h)
    PROVE  \A s \in SUBSET (S \cap T) : g[s] = h[s]
<1> DEFINE Bad == {s \in SUBSET (S \cap T) : g[s] # h[s]}
<1> SUFFICES ASSUME Bad # {} PROVE FALSE
  BY Zenon
<1>1. PICK s \in Bad : \A y \in Bad : y \subseteq s => y = s
  <2>1. Bad \in SUBSET SUBSET S
    BY Zenon
  <2> HIDE DEF Bad
  <2> QED
    BY <2>1, LeastSet
<1>2. s \in SUBSET S /\ s \in SUBSET T /\ g[s] # h[s]
  BY Zenon
<1>3. s # {}
  BY <1>2, Zenon DEF Sums
<1>4. PICK u : u = s \ {Pick(s)}
  BY Zenon
<1>5. u \in SUBSET (S \cap T) /\ u \subseteq s /\ u # s
  BY <1>2, <1>3, <1>4, PickIn, Zenon
<1>6. g[u] = h[u]
  BY <1>1, <1>5, Zenon
<1>7. g[s] = f[Pick(s)] + g[u] /\ h[s] = f[Pick(s)] + h[u]
  BY <1>2, <1>3, <1>4, Zenon DEF Sums
<1> QED
  BY <1>2, <1>6, <1>7, Zenon

\* The sums of all subsets of a finite set are there.
LEMMA SumsExist ==
    ASSUME NEW f, NEW S, IsFiniteSet(S)
    PROVE  Sums(f, S, SumsOn(f, S))
<1> DEFINE Bad == {T \in SUBSET S : ~Sums(f, T, SumsOn(f, T))}
<1> SUFFICES ASSUME Bad # {} PROVE FALSE
  BY Zenon
<1>1. PICK T \in Bad : \A y \in Bad : y \subseteq T => y = T
  <2>1. Bad \in SUBSET SUBSET S
    BY Zenon
  <2> HIDE DEF Bad
  <2> QED
    BY <2>1, LeastSet
<1>2. T \in SUBSET S /\ \A U \in SUBSET T : U # T => Sums(f, U, SumsOn(f, U)) /\ IsFiniteSet(U)
  BY <1>1, FS_Subset, Zenon
<1> DEFINE g == [s \in SUBSET T |->
                   IF s = {} THEN 0 ELSE f[Pick(s)] + SumsOn(f, s \ {Pick(s)})[s \ {Pick(s)}]]
<1>3. ASSUME NEW s \in SUBSET T, s # {} PROVE g[s \ {Pick(s)}] = SumsOn(f, s \ {Pick(s)})[s \ {Pick(s)}]
  <2>1. PICK u : u = s \ {Pick(s)}
    BY Zenon
  <2>2. u \in SUBSET T /\ u # T
    BY <1>3, <2>1, PickIn, Zenon
  <2>3. Sums(f, u, SumsOn(f, u)) /\ u \in SUBSET u
    BY <1>2, <2>2, Zenon
  <2>4. CASE u = {}
    <3>1. g[u] = 0
      BY <2>2, <2>4, Zenon
    <3>2. SumsOn(f, u)[u] = 0
      BY <2>3, <2>4, Zenon DEF Sums
    <3> QED
      BY <2>1, <3>1, <3>2, Zenon
  <2>5. CASE u # {}
    <3>1. PICK w : w = u \ {Pick(u)}
      BY Zenon
    <3>2. w \in SUBSET T /\ w # T /\ w \in SUBSET u
      BY <2>2, <2>5, <3>1, PickIn, Zenon
    <3>3. SumsOn(f, u)[w] = SumsOn(f, w)[w]
      BY <1>2, <2>2, <2>3, <3>2, SumsAgree
    <3>4. SumsOn(f, u)[u] = f[Pick(u)] + SumsOn(f, u)[w]
      BY <2>3, <2>5, <3>1, Zenon DEF Sums
    <3>5. g[u] = f[Pick(u)] + SumsOn(f, w)[w]
      BY <2>2, <2>5, <3>1, Zenon
    <3> QED
      BY <2>1, <3>3, <3>4, <3>5, Zenon
  <2> QED
    BY <2>4, <2>5, Zenon
<1>4. Sums(f, T, g)
  BY <1>3, Zenon DEF Sums
<1>5. Sums(f, T, SumsOn(f, T))
  BY <1>4, Zenon DEF SumsOn
<1> QED
  BY <1>1, <1>5, Zenon

\* The sum as a definition by recursion on the set.
LEMMA SumDef ==
    ASSUME NEW f, NEW S, IsFiniteSet(S)
    PROVE  /\ S = {} => SumFunctionOnSet(f, S) = 0
           /\ S # {} => SumFunctionOnSet(f, S) = f[Pick(S)] + SumFunctionOnSet(f, S \ {Pick(S)})
<1>1. Sums(f, S, SumsOn(f, S)) /\ SumFunctionOnSet(f, S) = SumsOn(f, S)[S] /\ S \in SUBSET S
  BY SumsExist, SumUnfold, Zenon
<1>2. CASE S = {}
  BY <1>1, <1>2, Zenon DEF Sums
<1>3. CASE S # {}
  <2>1. PICK u : u = S \ {Pick(S)}
    BY Zenon
  <2>2. IsFiniteSet(u) /\ u \in SUBSET (S \cap u)
    BY <2>1, FS_Subset, Zenon
  <2>3. SumsOn(f, S)[S] = f[Pick(S)] + SumsOn(f, S)[u]
    BY <1>1, <1>3, <2>1, Zenon DEF Sums
  <2>4. SumsOn(f, S)[u] = SumsOn(f, u)[u]
    BY <1>1, <2>2, SumsExist, SumsAgree
  <2> QED
    BY <1>1, <1>3, <2>1, <2>3, <2>4, SumUnfold, Zenon
<1> QED
  BY <1>2, <1>3, Zenon

\* A sum of naturals is one.
LEMMA SumNat ==
    ASSUME NEW f, NEW S, IsFiniteSet(S), \A x \in S : f[x] \in Nat
    PROVE  SumFunctionOnSet(f, S) \in Nat
<1> DEFINE Bad == {T \in SUBSET S : SumFunctionOnSet(f, T) \notin Nat}
<1> SUFFICES ASSUME Bad # {} PROVE FALSE
  BY Zenon
<1>1. PICK T \in Bad : \A y \in Bad : y \subseteq T => y = T
  <2>1. Bad \in SUBSET SUBSET S
    BY Zenon
  <2> HIDE DEF Bad
  <2> QED
    BY <2>1, LeastSet
<1>2. IsFiniteSet(T) /\ T # {}
  <2>1. IsFiniteSet(T)
    BY FS_Subset, Zenon
  <2>2. T = {} => SumFunctionOnSet(f, T) = 0
    BY <2>1, SumDef, Zenon
  <2> QED
    BY <1>1, <2>1, <2>2
<1>3. PICK u : u = T \ {Pick(T)}
  BY Zenon
<1>4. SumFunctionOnSet(f, u) \in Nat /\ f[Pick(T)] \in Nat
  BY <1>1, <1>2, <1>3, PickIn
<1>5. SumFunctionOnSet(f, T) = f[Pick(T)] + SumFunctionOnSet(f, u)
  BY <1>2, <1>3, SumDef, Zenon
<1> QED
  BY <1>4, <1>5

\* Any element may be the first to be taken out.
LEMMA SumTake ==
    ASSUME NEW f, NEW S, IsFiniteSet(S), \A x \in S : f[x] \in Nat, NEW e \in S
    PROVE  SumFunctionOnSet(f, S) = f[e] + SumFunctionOnSet(f, S \ {e})
<1> DEFINE Takes(T) == \A x \in T : SumFunctionOnSet(f, T) = f[x] + SumFunctionOnSet(f, T \ {x})
           Bad == {T \in SUBSET S : ~Takes(T)}
<1> SUFFICES ASSUME Bad # {} PROVE FALSE
  BY Zenon
<1>1. PICK T \in Bad : \A y \in Bad : y \subseteq T => y = T
  <2>1. Bad \in SUBSET SUBSET S
    BY Zenon
  <2> HIDE DEF Bad
  <2> QED
    BY <2>1, LeastSet
<1>2. \A U \in SUBSET T : U # T => Takes(U)
  BY <1>1, Zenon
<1>3. PICK x \in T : SumFunctionOnSet(f, T) # f[x] + SumFunctionOnSet(f, T \ {x})
  BY <1>1, Zenon
<1>4. PICK c : c = Pick(T)
  BY Zenon
<1>5. IsFiniteSet(T) /\ c \in T /\ SumFunctionOnSet(f, T) = f[c] + SumFunctionOnSet(f, T \ {c})
  BY <1>3, <1>4, SumDef, PickIn, FS_Subset, Zenon
<1>6. c # x
  BY <1>3, <1>5, Zenon
<1>7. SumFunctionOnSet(f, T \ {c}) = f[x] + SumFunctionOnSet(f, (T \ {c}) \ {x})
  BY <1>2, <1>3, <1>5, <1>6, Zenon
<1>8. SumFunctionOnSet(f, T \ {x}) = f[c] + SumFunctionOnSet(f, (T \ {x}) \ {c})
  BY <1>2, <1>3, <1>5, <1>6, Zenon
<1>9. PICK w : w = (T \ {c}) \ {x}
  BY Zenon
<1>10. w = (T \ {x}) \ {c} /\ w \in SUBSET S
  BY <1>1, <1>9, Zenon
<1>11. SumFunctionOnSet(f, w) \in Nat /\ f[c] \in Nat /\ f[x] \in Nat
  BY <1>1, <1>3, <1>5, <1>10, SumNat, FS_Subset, Zenon
<1> QED
  BY <1>3, <1>5, <1>7, <1>8, <1>9, <1>10, <1>11

\* Adding one element adds its value.
LEMMA SumPut ==
    ASSUME NEW f, NEW S, IsFiniteSet(S), NEW e, e \notin S, \A x \in S \cup {e} : f[x] \in Nat
    PROVE  SumFunctionOnSet(f, S \cup {e}) = f[e] + SumFunctionOnSet(f, S)
<1>1. PICK T : T = S \cup {e}
  BY Zenon
<1>2. T \ {e} = S /\ e \in T /\ IsFiniteSet(T)
  BY <1>1, FS_AddElement, Zenon
<1> QED
  BY <1>1, <1>2, SumTake

\* The sum looks at the elements of the set only.
LEMMA SumSame ==
    ASSUME NEW f, NEW g, NEW S, IsFiniteSet(S), \A x \in S : f[x] = g[x]
    PROVE  SumFunctionOnSet(f, S) = SumFunctionOnSet(g, S)
<1> DEFINE Bad == {T \in SUBSET S : SumFunctionOnSet(f, T) # SumFunctionOnSet(g, T)}
<1> SUFFICES ASSUME Bad # {} PROVE FALSE
  BY Zenon
<1>1. PICK T \in Bad : \A y \in Bad : y \subseteq T => y = T
  <2>1. Bad \in SUBSET SUBSET S
    BY Zenon
  <2> HIDE DEF Bad
  <2> QED
    BY <2>1, LeastSet
<1>2. IsFiniteSet(T) /\ T # {}
  BY SumDef, FS_Subset, Zenon
<1>3. PICK u : u = T \ {Pick(T)}
  BY Zenon
<1>4. SumFunctionOnSet(f, u) = SumFunctionOnSet(g, u) /\ f[Pick(T)] = g[Pick(T)]
  <2>1. Pick(T) \in T /\ T \in SUBSET S
    BY <1>2, PickIn, Zenon
  <2>2. u \in SUBSET S /\ u \subseteq T /\ u # T
    BY <1>3, <2>1, Zenon
  <2>3. u \notin Bad
    BY <1>1, <2>2, Zenon
  <2> QED
    BY <2>1, <2>2, <2>3, Zenon
<1> QED
  BY <1>2, <1>3, <1>4, SumDef

\* A function that has one element more.
LEMMA SumMore ==
    ASSUME NEW f, NEW g, NEW e, IsFiniteSet(DOMAIN f), e \notin DOMAIN f,
           DOMAIN g = DOMAIN f \cup {e}, \A x \in DOMAIN f : f[x] \in Nat /\ g[x] = f[x],
           g[e] \in Nat
    PROVE  SumFunction(g) = SumFunction(f) + g[e]
<1>1. PICK S : S = DOMAIN f
  BY Zenon
<1>2. SumFunctionOnSet(g, S \cup {e}) = g[e] + SumFunctionOnSet(g, S)
  <2>1. \A x \in S \cup {e} : g[x] \in Nat
    BY <1>1, Zenon
  <2> QED
    BY <1>1, <2>1, SumPut, Zenon
<1>3. SumFunctionOnSet(g, S) = SumFunctionOnSet(f, S)
  BY <1>1, SumSame, Zenon
<1>4. SumFunctionOnSet(f, S) \in Nat
  BY <1>1, SumNat, Zenon
<1>5. SumFunction(g) = SumFunctionOnSet(g, S \cup {e}) /\ SumFunction(f) = SumFunctionOnSet(f, S)
  BY <1>1, Zenon DEF SumFunction
<1> QED
  BY <1>2, <1>3, <1>4, <1>5

\* An element at the end adds its value.
LEMMA SumAppend ==
    ASSUME NEW s \in Seq(Nat), NEW x \in Nat
    PROVE  SumFunction(Append(s, x)) = SumFunction(s) + x
<1>1. PICK r : r = Append(s, x)
  BY Zenon
<1>2. PICK e : e = Len(s) + 1
  BY Zenon
<1>3. /\ DOMAIN r = DOMAIN s \cup {e} /\ e \notin DOMAIN s /\ DOMAIN s = 1 .. Len(s)
      /\ r[e] = x /\ Len(s) \in Nat
  BY <1>1, <1>2
<1>4. \A i \in DOMAIN s : s[i] \in Nat /\ r[i] = s[i]
  BY <1>1
<1>5. IsFiniteSet(DOMAIN s)
  BY <1>3, FS_Interval
<1>6. SumFunction(r) = SumFunction(s) + r[e]
  <2>1. r[e] \in Nat
    BY <1>3, Zenon
  <2> QED
    BY <1>3, <1>4, <1>5, <2>1, SumMore, Zenon
<1> QED
  BY <1>1, <1>3, <1>6, Zenon

\* The first element may be taken off.
LEMMA SumTail ==
    ASSUME NEW s \in Seq(Nat), s # <<>>
    PROVE  SumFunction(s) = Head(s) + SumFunction(Tail(s))
<1>1. PICK t, n : t = Tail(s) /\ n = Len(t)
  BY Zenon
<1>2. /\ t \in Seq(Nat) /\ n \in Nat /\ DOMAIN t = 1 .. n /\ DOMAIN s = 1 .. n + 1
      /\ s[1] \in Nat /\ Head(s) = s[1]
      /\ \A i \in 1 .. n : t[i] = s[i + 1] /\ t[i] \in Nat
      /\ \A i \in 1 .. n + 1 : s[i] \in Nat
  BY <1>1
<1>3. \A k \in Nat : IsFiniteSet(1 .. k)
  BY FS_Interval
<1> DEFINE Bad == {k \in Nat : k <= n /\ SumFunctionOnSet(s, 1 .. k + 1) # s[1] + SumFunctionOnSet(t, 1 .. k)}
<1>4. Bad = {}
  <2> SUFFICES ASSUME Bad # {} PROVE FALSE
    BY Zenon
  <2>1. PICK k \in Bad : \A y \in Bad : k <= y
    <3>1. Bad \in SUBSET Nat
      BY Zenon
    <3> HIDE DEF Bad
    <3> QED
      BY <3>1, LeastNumber
  <2>2. k \in Nat /\ k <= n
    BY <2>1
  <2>3. CASE k = 0
    <3>1. 1 .. k + 1 = {} \cup {1} /\ 1 .. k = {}
      BY <2>3
    <3>2. SumFunctionOnSet(s, {}) = 0 /\ SumFunctionOnSet(t, {}) = 0 /\ IsFiniteSet({})
      BY FS_EmptySet, SumDef, Zenon
    <3>3. SumFunctionOnSet(s, {} \cup {1}) = s[1] + SumFunctionOnSet(s, {})
      BY <1>2, <3>2, SumPut, Zenon
    <3>4. SumFunctionOnSet(s, 1 .. k + 1) = s[1] + SumFunctionOnSet(t, 1 .. k)
      BY <3>1, <3>2, <3>3, Zenon
    <3> QED
      BY <2>1, <3>4, Zenon
  <2>4. CASE k # 0
    <3>1. PICK j : j = k - 1
      BY Zenon
    <3>2. j \in Nat /\ j <= n /\ j + 1 = k /\ ~(k <= j) /\ k \in 1 .. n
      BY <1>2, <2>2, <2>4, <3>1
    <3>3. SumFunctionOnSet(s, 1 .. k) = s[1] + SumFunctionOnSet(t, 1 .. j)
      BY <2>1, <3>2, Zenon
    <3>4. PICK A, B, e : A = 1 .. k /\ B = 1 .. j /\ e = k + 1
      BY Zenon
    <3>5. /\ 1 .. k + 1 = A \cup {e} /\ e \notin A /\ e \in 1 .. n + 1 /\ A \subseteq 1 .. n + 1
          /\ A = B \cup {k} /\ k \notin B /\ B \subseteq 1 .. n
      <4>1. n \in Nat /\ k \in Nat /\ k <= n /\ j \in Nat /\ j + 1 = k
        BY <1>2, <2>2, <3>2, Zenon
      <4>2. 1 .. k + 1 = A \cup {e} /\ e \notin A
        BY <3>4, <4>1
      <4>3. e \in 1 .. n + 1 /\ A \subseteq 1 .. n + 1
        BY <3>4, <4>1
      <4>4. A = B \cup {k}
        BY <3>4, <4>1
      <4>5. k \notin B /\ B \subseteq 1 .. n
        BY <3>4, <4>1
      <4> QED
        BY <4>2, <4>3, <4>4, <4>5, Zenon
    <3>6. (\A x \in A \cup {e} : s[x] \in Nat) /\ (\A x \in B \cup {k} : t[x] \in Nat)
      BY <1>2, <3>2, <3>5, Zenon
    <3>7. SumFunctionOnSet(s, A \cup {e}) = s[e] + SumFunctionOnSet(s, A)
      <4>1. IsFiniteSet(A)
        BY <1>3, <2>2, <3>4, Zenon
      <4> QED
        BY <3>5, <3>6, <4>1, SumPut, Zenon
    <3>8. IsFiniteSet(B)
      BY <1>3, <3>2, <3>4, Zenon
    <3>9. SumFunctionOnSet(t, B \cup {k}) = t[k] + SumFunctionOnSet(t, B)
      BY <3>5, <3>6, <3>8, SumPut, Zenon
    <3>10. SumFunctionOnSet(t, B) \in Nat
      BY <3>6, <3>8, SumNat, Zenon
    <3>11. s[1] \in Nat /\ s[e] \in Nat /\ t[k] = s[e]
      BY <1>2, <3>2, <3>4, <3>5, Zenon
    <3>12. SumFunctionOnSet(s, A) = s[1] + SumFunctionOnSet(t, B)
      BY <3>3, <3>4, Zenon
    <3>13. SumFunctionOnSet(s, A \cup {e}) = s[1] + SumFunctionOnSet(t, B \cup {k})
      BY <3>7, <3>9, <3>10, <3>11, <3>12
    <3>14. SumFunctionOnSet(s, 1 .. k + 1) = s[1] + SumFunctionOnSet(t, 1 .. k)
      BY <3>4, <3>5, <3>13, Zenon
    <3> QED
      BY <2>1, <3>14, Zenon
  <2> QED
    BY <2>3, <2>4, Zenon
<1>5. n \notin Bad /\ n <= n
  BY <1>2, <1>4
<1>6. SumFunctionOnSet(s, 1 .. n + 1) = s[1] + SumFunctionOnSet(t, 1 .. n)
  BY <1>2, <1>5, Zenon
<1> QED
  BY <1>1, <1>2, <1>6, Zenon DEF SumFunction

-----------------------------------------------------------------------------
(* The bytes the queue holds.  Each step moves a body from one of the three *)
(* places to the next, or out.                                              *)

Claims == [p \in Claimers |-> offer[p].size]
Holds == [w \in Holders |-> worker[w].size]

SumsOK ==
    /\ HeldBytes = SumFunction(Claims) + SumFunction(items) + SumFunction(Holds)
    /\ SumFunction(Claims) \in Nat /\ SumFunction(items) \in Nat
    /\ SumFunction(Holds) \in Nat

\* The three sums are of natural numbers over finite sets.
LEMMA HeldNat == TypeOK => SumsOK
<1> SUFFICES ASSUME TypeOK PROVE SumsOK
  OBVIOUS
<1>1. ASSUME NEW f, IsFiniteSet(DOMAIN f), \A x \in DOMAIN f : f[x] \in Nat
      PROVE  SumFunction(f) \in Nat
  BY <1>1, SumNat, Zenon DEF SumFunction
<1>2. SumFunction(Claims) \in Nat
  <2>1. DOMAIN Claims = Claimers /\ \A p \in Claimers : Claims[p] = offer[p].size
    BY Zenon DEF Claims
  <2>2. IsFiniteSet(Claimers)
    BY ProducersAssumption, FS_Subset, Zenon DEF Claimers
  <2>3. \A p \in Claimers : offer[p].size \in Nat
    BY DEF TypeOK, CallersOK, Claimers
  <2> QED
    BY <1>1, <2>1, <2>2, <2>3, Zenon
<1>3. SumFunction(Holds) \in Nat
  <2>1. DOMAIN Holds = Holders /\ \A w \in Holders : Holds[w] = worker[w].size
    BY Zenon DEF Holds
  <2>2. IsFiniteSet(Holders)
    BY WorkersAssumption, FS_Subset, Zenon DEF Holders
  <2>3. \A w \in Holders : worker[w].size \in Nat
    BY DEF TypeOK, CallersOK, Holders
  <2> QED
    BY <1>1, <2>1, <2>2, <2>3, Zenon
<1>4. SumFunction(items) \in Nat
  <2>1. items \in Seq(Nat)
    BY DEF TypeOK, ChannelOK
  <2>2. DOMAIN items = 1 .. Len(items) /\ Len(items) \in Nat /\ \A i \in DOMAIN items : items[i] \in Nat
    BY <2>1
  <2>3. IsFiniteSet(DOMAIN items)
    BY <2>2, FS_Interval
  <2> QED
    BY <1>1, <2>2, <2>3, Zenon
<1> QED
  BY <1>2, <1>3, <1>4, Zenon DEF SumsOK, HeldBytes, Claims, Holds

\* The same after a step.
LEMMA HeldNatNext == TypeOK' => SumsOK'
  BY HeldNat, PTL

\* A producer that begins to claim (queue.go Offer).
LEMMA ClaimsMore ==
    ASSUME TypeOK, NEW p \in Producers, offer[p].pc # "send", NEW s \in Nat,
           offer' = [offer EXCEPT ![p] = At("send", s)]
    PROVE  SumFunction(Claims)' = SumFunction(Claims) + s
<1>1. /\ p \notin Claimers /\ Claimers' = Claimers \cup {p} /\ offer'[p].size = s
      /\ \A q \in Claimers : offer'[q].size = offer[q].size /\ offer[q].size \in Nat
  BY DEF TypeOK, CallersOK, Claimers, At
<1>2. IsFiniteSet(Claimers)
  BY ProducersAssumption, FS_Subset, Zenon DEF Claimers
<1>3. PICK f, g : f = Claims /\ g = Claims'
  BY Zenon
<1>4. DOMAIN f = Claimers /\ \A q \in Claimers : f[q] = offer[q].size
  BY <1>3, Zenon DEF Claims
<1>5. DOMAIN g = Claimers' /\ \A q \in Claimers' : g[q] = offer'[q].size
  BY <1>3, Zenon DEF Claims
<1>6. /\ IsFiniteSet(DOMAIN f) /\ p \notin DOMAIN f /\ DOMAIN g = DOMAIN f \cup {p}
      /\ (\A x \in DOMAIN f : f[x] \in Nat /\ g[x] = f[x]) /\ g[p] = s
  BY <1>1, <1>2, <1>4, <1>5, Zenon
<1>7. g[p] \in Nat
  BY <1>6, Zenon
<1>8. SumFunction(g) = SumFunction(f) + g[p]
  BY <1>6, <1>7, SumMore, Zenon
<1> QED
  BY <1>3, <1>6, <1>8, Zenon

\* A producer whose claim passes to the channel or is given back.
LEMMA ClaimsLess ==
    ASSUME TypeOK, NEW p \in Producers, offer[p].pc = "send", NEW new, new.pc # "send",
           offer' = [offer EXCEPT ![p] = new]
    PROVE  SumFunction(Claims) = SumFunction(Claims)' + offer[p].size
<1>1. /\ p \in Claimers /\ Claimers' = Claimers \ {p} /\ offer[p].size \in Nat
      /\ \A q \in Claimers' : offer'[q].size = offer[q].size /\ offer[q].size \in Nat
  BY DEF TypeOK, CallersOK, Claimers
<1>2. IsFiniteSet(Claimers')
  BY <1>1, ProducersAssumption, FS_Subset, Zenon DEF Claimers
<1>3. PICK g, f : g = Claims /\ f = Claims'
  BY Zenon
<1>4. DOMAIN g = Claimers /\ \A q \in Claimers : g[q] = offer[q].size
  BY <1>3, Zenon DEF Claims
<1>5. DOMAIN f = Claimers' /\ \A q \in Claimers' : f[q] = offer'[q].size
  BY <1>3, Zenon DEF Claims
<1>6. /\ IsFiniteSet(DOMAIN f) /\ p \notin DOMAIN f /\ DOMAIN g = DOMAIN f \cup {p}
      /\ (\A x \in DOMAIN f : f[x] \in Nat /\ g[x] = f[x])
  <2>1. p \notin Claimers' /\ Claimers = Claimers' \cup {p}
    BY <1>1, Zenon
  <2>2. \A x \in Claimers' : f[x] \in Nat /\ g[x] = f[x]
    BY <1>1, <1>4, <1>5, <2>1, Zenon
  <2>3. DOMAIN g = DOMAIN f \cup {p} /\ p \notin DOMAIN f
    BY <1>4, <1>5, <2>1, Zenon
  <2> QED
    BY <1>2, <1>5, <2>2, <2>3, Zenon
<1>7. g[p] \in Nat /\ g[p] = offer[p].size
  BY <1>1, <1>4
<1>8. g[p] \in Nat
  BY <1>7, Zenon
<1>9. SumFunction(g) = SumFunction(f) + g[p]
  BY ONLY <1>6, <1>8, SumMore, Zenon
<1> QED
  BY <1>3, <1>7, <1>9, Zenon

\* A worker that takes a body (queue.go worker).
LEMMA HoldsMore ==
    ASSUME TypeOK, NEW w \in Workers, worker[w] = Waiting, NEW s \in Nat,
           worker' = [worker EXCEPT ![w] = At("put", s)]
    PROVE  SumFunction(Holds)' = SumFunction(Holds) + s
<1>1. /\ w \notin Holders /\ Holders' = Holders \cup {w} /\ worker'[w].size = s
      /\ \A v \in Holders : worker'[v].size = worker[v].size /\ worker[v].size \in Nat
  BY DEF TypeOK, CallersOK, Holders, At, Waiting
<1>2. IsFiniteSet(Holders)
  BY WorkersAssumption, FS_Subset, Zenon DEF Holders
<1>3. PICK f, g : f = Holds /\ g = Holds'
  BY Zenon
<1>4. DOMAIN f = Holders /\ \A v \in Holders : f[v] = worker[v].size
  BY <1>3, Zenon DEF Holds
<1>5. DOMAIN g = Holders' /\ \A v \in Holders' : g[v] = worker'[v].size
  BY <1>3, Zenon DEF Holds
<1>6. /\ IsFiniteSet(DOMAIN f) /\ w \notin DOMAIN f /\ DOMAIN g = DOMAIN f \cup {w}
      /\ (\A x \in DOMAIN f : f[x] \in Nat /\ g[x] = f[x]) /\ g[w] = s
  BY <1>1, <1>2, <1>4, <1>5, Zenon
<1>7. g[w] \in Nat
  BY <1>6, Zenon
<1>8. SumFunction(g) = SumFunction(f) + g[w]
  BY <1>6, <1>7, SumMore, Zenon
<1> QED
  BY <1>3, <1>6, <1>8, Zenon

\* A worker whose body is released.
LEMMA HoldsLess ==
    ASSUME TypeOK, NEW w \in Workers, worker[w].pc = "unclaim",
           worker' = [worker EXCEPT ![w] = Waiting]
    PROVE  SumFunction(Holds) = SumFunction(Holds)' + worker[w].size
<1>1. /\ w \in Holders /\ Holders' = Holders \ {w} /\ worker[w].size \in Nat
      /\ \A v \in Holders' : worker'[v].size = worker[v].size /\ worker[v].size \in Nat
  BY DEF TypeOK, CallersOK, Holders, Waiting, At
<1>2. IsFiniteSet(Holders')
  BY <1>1, WorkersAssumption, FS_Subset, Zenon DEF Holders
<1>3. PICK g, f : g = Holds /\ f = Holds'
  BY Zenon
<1>4. DOMAIN g = Holders /\ \A v \in Holders : g[v] = worker[v].size
  BY <1>3, Zenon DEF Holds
<1>5. DOMAIN f = Holders' /\ \A v \in Holders' : f[v] = worker'[v].size
  BY <1>3, Zenon DEF Holds
<1>6. /\ IsFiniteSet(DOMAIN f) /\ w \notin DOMAIN f /\ DOMAIN g = DOMAIN f \cup {w}
      /\ (\A x \in DOMAIN f : f[x] \in Nat /\ g[x] = f[x])
  <2>1. w \notin Holders' /\ Holders = Holders' \cup {w}
    BY <1>1, Zenon
  <2>2. \A x \in Holders' : f[x] \in Nat /\ g[x] = f[x]
    BY <1>1, <1>4, <1>5, <2>1, Zenon
  <2>3. DOMAIN g = DOMAIN f \cup {w} /\ w \notin DOMAIN f
    BY <1>4, <1>5, <2>1, Zenon
  <2> QED
    BY <1>2, <1>5, <2>2, <2>3, Zenon
<1>7. g[w] \in Nat /\ g[w] = worker[w].size
  BY <1>1, <1>4
<1>8. g[w] \in Nat
  BY <1>7, Zenon
<1>9. SumFunction(g) = SumFunction(f) + g[w]
  BY ONLY <1>6, <1>8, SumMore, Zenon
<1> QED
  BY <1>3, <1>7, <1>9, Zenon

\* Every step keeps the byte counter equal to the bodies held, and both
\* within their bounds.
LEMMA NextKeepsMemory == ASSUME TypeOK, MemoryBounded, [Next]_vars PROVE MemoryBounded'
<1>a. TypeOK'
  BY NextTyped
<1>b. /\ HeldBytes = SumFunction(Claims) + SumFunction(items) + SumFunction(Holds)
      /\ SumFunction(Claims) \in Nat /\ SumFunction(items) \in Nat /\ SumFunction(Holds) \in Nat
  BY HeldNat DEF SumsOK
<1>c. /\ HeldBytes' = SumFunction(Claims)' + SumFunction(items)' + SumFunction(Holds)'
      /\ SumFunction(Claims)' \in Nat /\ SumFunction(items)' \in Nat
      /\ SumFunction(Holds)' \in Nat
  BY <1>a, HeldNatNext DEF SumsOK
<1>d. /\ queued = HeldBytes /\ (QueueBytes # 0 => queued <= QueueBytes) /\ Len(items) <= Cap
      /\ queued \in Nat /\ QueueBytes \in Nat /\ Len(items) \in Nat /\ Cap \in Nat
  BY <1>b, BoundsAssumption DEF MemoryBounded, TypeOK, ChannelOK
<1> PICK c, i, h, c2, i2, h2 :
      /\ c = SumFunction(Claims) /\ i = SumFunction(items) /\ h = SumFunction(Holds)
      /\ c2 = SumFunction(Claims)' /\ i2 = SumFunction(items)' /\ h2 = SumFunction(Holds)'
  BY Zenon
<1>l. /\ c \in Nat /\ i \in Nat /\ h \in Nat /\ c2 \in Nat /\ i2 \in Nat /\ h2 \in Nat
      /\ queued = c + i + h /\ HeldBytes' = c2 + i2 + h2
  BY <1>b, <1>c, <1>d, Zenon
\* A body of d bytes moves on: claimed, sent, given back, taken, released.
<1>m. ASSUME NEW d \in Nat,
             \/ queued' = queued + d /\ c2 = c + d /\ i2 = i /\ h2 = h
             \/ queued' = queued /\ c = c2 + d /\ i2 = i + d /\ h2 = h
             \/ queued' = queued - d /\ c = c2 + d /\ i2 = i /\ h2 = h
             \/ queued' = queued /\ c2 = c /\ i = d + i2 /\ h2 = h + d
             \/ queued' = queued - d /\ c2 = c /\ i2 = i /\ h = h2 + d
      PROVE  queued' = HeldBytes'
  <2>1. queued' = c2 + i2 + h2
    BY <1>l, <1>m
  <2> QED
    BY <1>l, <2>1, Zenon
\* No more bytes than before, and no more in the channel.
<1>e. ASSUME queued' = HeldBytes', queued' <= queued \/ (QueueBytes # 0 => queued' <= QueueBytes),
             Len(items') <= Cap
      PROVE  MemoryBounded'
  <2>1. queued' \in Nat
    BY <1>c, <1>e
  <2>2. QueueBytes # 0 => queued' <= QueueBytes
    BY <1>d, <1>e, <2>1
  <2> QED
    BY <1>e, <2>2 DEF MemoryBounded
\* Nothing moves.
<1>f. ASSUME Claims' = Claims, Holds' = Holds, items' = items, queued' = queued
      PROVE  MemoryBounded'
  <2>1. HeldBytes' = HeldBytes
    BY <1>f, Zenon DEF HeldBytes, Claims, Holds
  <2> QED
    BY <1>d, <1>f, <2>1 DEF MemoryBounded
<1>g. offer' = offer => Claims' = Claims
  BY Zenon DEF Claims, Claimers
<1>h. worker' = worker => Holds' = Holds
  BY Zenon DEF Holds, Holders
<1>i. /\ DOMAIN offer = Producers /\ \A p \in Producers : offer[p].size \in Nat
      /\ DOMAIN worker = Workers /\ \A w \in Workers : worker[w].size \in Nat
      /\ items \in Seq(Nat)
  BY DEF TypeOK, CallersOK, ChannelOK
\* A producer that neither begins nor ends a claim.
<1>j. ASSUME NEW p \in Producers, NEW new, offer[p].pc # "send", new.pc # "send",
             offer' = [offer EXCEPT ![p] = new]
      PROVE  Claims' = Claims
  <2>1. /\ Claimers' = Claimers /\ \A q \in Claimers : offer'[q].size = offer[q].size
    BY <1>i, <1>j DEF Claimers
  <2> QED
    BY <2>1 DEF Claims
\* A worker that keeps its body, or has none.
<1>k. ASSUME NEW w \in Workers, NEW new, worker' = [worker EXCEPT ![w] = new],
             \/ worker[w].pc \in {"put", "uncount"} /\ new.pc \in {"uncount", "unclaim"}
                  /\ new.size = worker[w].size
             \/ worker[w].pc = "wait" /\ new.pc = "gone"
      PROVE  Holds' = Holds
  <2>1. Holders' = Holders /\ \A v \in Holders : worker'[v].size = worker[v].size
    BY <1>i, <1>k DEF Holders
  <2> QED
    BY <2>1 DEF Holds
<1>1. ASSUME NEW p \in Producers, NEW s \in Sizes, OfferSkip(p, s) \/ OfferBegin(p, s)
      PROVE  MemoryBounded'
  <2>1. UNCHANGED <<items, queued, worker>>
    BY <1>1, Zenon DEF OfferSkip, OfferBegin
  <2>2. Claims' = Claims
    <3>1. \/ offer' = offer
          \/ offer[p] = NotOffering /\ offer' = [offer EXCEPT ![p] = At("claim", s)]
      BY <1>1, Zenon DEF OfferSkip, OfferBegin
    <3>2. At("claim", s).pc # "send" /\ NotOffering.pc # "send"
      BY DEF At, NotOffering
    <3> QED
      BY <1>g, <1>j, <3>1, <3>2, Zenon
  <2> QED
    BY <1>f, <1>h, <2>1, <2>2, Zenon
<1>2. ASSUME NEW p \in Producers, OfferClaim(p)
      PROVE  MemoryBounded'
  <2>1. UNCHANGED <<items, worker>> /\ offer[p].pc = "claim"
    BY <1>2, Zenon DEF OfferClaim
  <2>2. CASE /\ QueueBytes = 0 \/ queued + offer[p].size <= QueueBytes
             /\ queued' = queued + offer[p].size
             /\ offer' = [offer EXCEPT ![p] = At("send", offer[p].size)]
    <3>1. c2 = c + offer[p].size
      BY <1>i, <2>1, <2>2, ClaimsMore, Zenon
    <3>2. i2 = i /\ h2 = h
      BY <1>h, <2>1, Zenon
    <3>3. queued' = HeldBytes'
      BY <1>i, <1>m, <2>2, <3>1, <3>2, Zenon
    <3> QED
      BY <1>d, <1>e, <2>1, <2>2, <3>3
  <2>3. CASE queued' = queued /\ offer' = [offer EXCEPT ![p] = NotOffering]
    <3>1. NotOffering.pc # "send"
      BY DEF NotOffering
    <3>2. Claims' = Claims
      BY <1>j, <2>1, <2>3, <3>1, Zenon
    <3> QED
      BY <1>f, <1>h, <2>1, <2>3, <3>2, Zenon
  <2> QED
    BY <1>2, <2>2, <2>3, Zenon DEF OfferClaim
<1>3. ASSUME NEW p \in Producers, OfferSend(p)
      PROVE  MemoryBounded'
  <2>1. worker' = worker /\ offer[p].pc = "send"
    BY <1>3, Zenon DEF OfferSend
  <2>2. CASE /\ Len(items) < Cap /\ items' = Append(items, offer[p].size) /\ queued' = queued
             /\ offer' = [offer EXCEPT ![p] = At("count", offer[p].size)]
    <3>1. At("count", offer[p].size).pc # "send"
      BY DEF At
    <3>2. c = c2 + offer[p].size
      BY <2>1, <2>2, <3>1, ClaimsLess, Zenon
    <3>3. i2 = i + offer[p].size
      BY <1>i, <2>2, SumAppend
    <3>4. h2 = h
      BY <1>h, <2>1, Zenon
    <3>5. queued' = HeldBytes'
      BY <1>i, <1>m, <2>2, <3>2, <3>3, <3>4, Zenon
    <3>6. Len(items') <= Cap
      BY <1>d, <1>i, <2>2
    <3> QED
      BY <1>d, <1>e, <2>2, <3>5, <3>6
  <2>3. CASE /\ items' = items /\ queued' = queued - offer[p].size
             /\ offer' = [offer EXCEPT ![p] = NotOffering]
    <3>1. NotOffering.pc # "send"
      BY DEF NotOffering
    <3>2. c = c2 + offer[p].size
      BY <2>1, <2>3, <3>1, ClaimsLess, Zenon
    <3>3. i2 = i /\ h2 = h
      BY <1>h, <2>1, <2>3, Zenon
    <3>4. queued' = HeldBytes' /\ queued' <= queued
      <4>1. queued' = HeldBytes'
        BY <1>i, <1>m, <2>3, <3>2, <3>3, Zenon
      <4>2. queued' <= queued
        BY <1>d, <1>i, <2>3
      <4> QED
        BY <4>1, <4>2, Zenon
    <3> QED
      BY <1>d, <1>e, <2>3, <3>4
  <2> QED
    BY <1>3, <2>2, <2>3, Zenon DEF OfferSend
<1>4. ASSUME NEW p \in Producers, OfferCount(p)
      PROVE  MemoryBounded'
  <2>1. /\ UNCHANGED <<items, queued, worker>> /\ offer[p].pc = "count"
        /\ offer' = [offer EXCEPT ![p] = NotOffering]
    BY <1>4, Zenon DEF OfferCount
  <2>2. NotOffering.pc # "send"
    BY DEF NotOffering
  <2>3. Claims' = Claims
    BY <1>j, <2>1, <2>2, Zenon
  <2> QED
    BY <1>f, <1>h, <2>1, <2>3, Zenon
<1>5. ASSUME NEW w \in Workers, WorkerTake(w)
      PROVE  MemoryBounded'
  <2>1. /\ worker[w] = Waiting /\ items # <<>> /\ UNCHANGED <<queued, offer>>
        /\ worker' = [worker EXCEPT ![w] = At("put", Head(items))] /\ items' = Tail(items)
    BY <1>5, Zenon DEF WorkerTake
  <2>2. Head(items) \in Nat /\ Len(items') <= Len(items)
    BY <1>i, <2>1
  <2>3. h2 = h + Head(items)
    BY <2>1, <2>2, HoldsMore, Zenon
  <2>4. i = Head(items) + i2
    BY <1>i, <2>1, SumTail
  <2>5. c2 = c
    BY <1>g, <2>1, Zenon
  <2>6. queued' = HeldBytes'
    BY <1>m, <2>1, <2>2, <2>3, <2>4, <2>5, Zenon
  <2>7. Len(items') <= Cap
    BY <1>a, <1>d, <2>2 DEF TypeOK, ChannelOK
  <2> QED
    BY <1>d, <1>e, <2>1, <2>6, <2>7
<1>6. ASSUME NEW w \in Workers, WorkerExit(w) \/ WorkerPut(w) \/ WorkerUncount(w)
      PROVE  MemoryBounded'
  <2>1. UNCHANGED <<items, queued, offer>>
    BY <1>6, Zenon DEF WorkerExit, WorkerPut, WorkerUncount
  <2>2. Holds' = Holds
    <3>1. \/ worker[w] = Waiting /\ worker' = [worker EXCEPT ![w] = At("gone", 0)]
          \/ worker[w].pc = "put" /\ worker' = [worker EXCEPT ![w] = At("uncount", worker[w].size)]
          \/ worker[w].pc = "uncount" /\ worker' = [worker EXCEPT ![w] = At("unclaim", worker[w].size)]
      BY <1>6, Zenon DEF WorkerExit, WorkerPut, WorkerUncount
    <3>2. \A pc, s : At(pc, s).pc = pc /\ At(pc, s).size = s
      BY DEF At
    <3>3. worker[w].pc = "wait" \/ worker[w].pc \in {"put", "uncount"}
      BY <3>1, <3>2 DEF Waiting
    <3>4. CASE worker[w].pc = "wait"
      <4>1. worker' = [worker EXCEPT ![w] = At("gone", 0)] /\ At("gone", 0).pc = "gone"
        BY <3>1, <3>2, <3>4
      <4> QED
        BY <1>k, <3>4, <4>1, Zenon
    <3>5. CASE worker[w].pc \in {"put", "uncount"}
      <4>1. PICK pc \in {"uncount", "unclaim"} :
              worker' = [worker EXCEPT ![w] = At(pc, worker[w].size)]
        BY <3>1, <3>2, <3>5 DEF Waiting
      <4>2. /\ At(pc, worker[w].size).pc \in {"uncount", "unclaim"}
            /\ At(pc, worker[w].size).size = worker[w].size
        BY <3>2, <4>1, Zenon
      <4> QED
        BY <1>k, <3>5, <4>1, <4>2, Zenon
    <3> QED
      BY <3>3, <3>4, <3>5, Zenon
  <2> QED
    BY <1>f, <1>g, <2>1, <2>2, Zenon
<1>7. ASSUME NEW w \in Workers, WorkerUnclaim(w)
      PROVE  MemoryBounded'
  <2>1. /\ worker[w].pc = "unclaim" /\ UNCHANGED <<items, offer>>
        /\ queued' = queued - worker[w].size /\ worker' = [worker EXCEPT ![w] = Waiting]
    BY <1>7, Zenon DEF WorkerUnclaim
  <2>2. h = h2 + worker[w].size
    BY <2>1, HoldsLess, Zenon
  <2>3. i2 = i /\ c2 = c
    BY <1>g, <2>1, Zenon
  <2>4. queued' = HeldBytes' /\ queued' <= queued
    <3>1. queued' = HeldBytes'
      BY <1>i, <1>m, <2>1, <2>2, <2>3, Zenon
    <3>2. queued' <= queued
      BY <1>d, <1>i, <2>1
    <3> QED
      BY <3>1, <3>2, Zenon
  <2> QED
    BY <1>d, <1>e, <2>1, <2>4
<1>8. CASE StopClose \/ StopReturn \/ StopDeadline \/ Halt \/ UNCHANGED vars
  <2>1. UNCHANGED <<items, queued, offer, worker>>
    BY <1>8, Zenon DEF StopClose, StopReturn, StopDeadline, Halt, vars
  <2> QED
    BY <1>f, <1>g, <1>h, <2>1, Zenon
<1> QED
  BY <1>1, <1>2, <1>3, <1>4, <1>5, <1>6, <1>7, <1>8, Zenon DEF Next, Offer, Work

\* The byte counter is exactly the bodies the queue keeps alive, they never
\* exceed QueueBytes, and the channel never exceeds its capacity, for any
\* number of producers and workers (queue.go Offer, claim, flush).
THEOREM MemoryIsBounded == Spec => []MemoryBounded
<1>1. Init => MemoryBounded
  <2> SUFFICES ASSUME Init PROVE MemoryBounded
    OBVIOUS
  <2>1. Claimers = {} /\ Holders = {} /\ items = <<>> /\ queued = 0
    BY DEF Init, Claimers, Holders, NotOffering, Waiting, At
  <2>2. ASSUME NEW f, DOMAIN f = {} PROVE SumFunction(f) = 0
    BY <2>2, FS_EmptySet, SumDef, Zenon DEF SumFunction
  <2>3. DOMAIN Claims = {} /\ DOMAIN Holds = {} /\ DOMAIN items = {} /\ Len(items) = 0
    BY <2>1 DEF Claims, Holds
  <2>4. SumFunction(Claims) = 0 /\ SumFunction(items) = 0 /\ SumFunction(Holds) = 0
    BY <2>2, <2>3, Zenon
  <2>5. TypeOK
    BY InitTyped
  <2>6. HeldBytes = 0
    BY <2>4, <2>5, HeldNat DEF SumsOK
  <2> QED
    BY <2>1, <2>3, <2>6, BoundsAssumption DEF MemoryBounded
<1>2. TypeOK /\ MemoryBounded /\ [Next]_vars => MemoryBounded'
  BY NextKeepsMemory
<1> QED
  BY <1>1, <1>2, TypeCorrect, PTL DEF Spec
=============================================================================
