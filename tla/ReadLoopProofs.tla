--------------------------- MODULE ReadLoopProofs ---------------------------
(***************************************************************************)
(* What holds of ReadLoop whatever the disc, the batch size, the overlap,  *)
(* the limits and the caller's inputs.                                     *)
(***************************************************************************)
EXTENDS ReadLoop, Induction, SequenceTheorems

USE DEF history

-----------------------------------------------------------------------------
(* The strategy's operations keep it a strategy, and a reset makes it      *)
(* fresh.                                                                  *)

LEMMA FreshStrategy == Fresh \in Strategy
  BY BackoffAssumption DEF Fresh, Strategy

LEMMA ResetIsFresh ==
  ASSUME NEW b \in Strategy
  PROVE  ResetErrorState(b) = Fresh
<1>1. ResetErrorState(b) \in [errorCount : {0}, backoffCount : {0}, sectors : {BaseSectors},
                              delay : {BaseDelay}, lastError : {NoSector}]
  BY DEF Strategy, ResetErrorState
<1> QED
  BY <1>1 DEF Fresh

LEMMA RecordErrorType ==
  ASSUME NEW b \in Strategy, NEW s \in Int
  PROVE  /\ RecordError(b, s) \in Strategy
         /\ RecordError(b, s).lastError = s
<1>1. CASE b.lastError # s
  <2>1. RecordError(b, s) = [errorCount |-> 1, backoffCount |-> 0, sectors |-> BaseSectors,
                             delay |-> BaseDelay, lastError |-> s]
    BY <1>1 DEF RecordError, Fresh
  <2>2. RecordError(b, s) \in Strategy
    BY <2>1, BackoffAssumption DEF Strategy
  <2>3. RecordError(b, s).lastError = s
    BY <2>1
  <2> QED
    BY <2>2, <2>3
<1>2. CASE b.lastError = s
  <2>1. RecordError(b, s) \in Strategy
    BY <1>2 DEF RecordError, Strategy
  <2>2. RecordError(b, s).lastError = s
    BY <1>2 DEF RecordError, Strategy
  <2> QED
    BY <2>1, <2>2
<1> QED
  BY <1>1, <1>2

LEMMA RecordSuccessType ==
  ASSUME NEW b \in Strategy, NEW s \in Int
  PROVE  RecordSuccess(b, s) \in Strategy
  BY FreshStrategy, ResetIsFresh DEF RecordSuccess

LEMMA RecordBackoffType ==
  ASSUME NEW b \in Strategy
  PROVE  /\ RecordBackoff(b) \in Strategy
         /\ RecordBackoff(b).lastError = b.lastError
<1>1. ASSUME NEW limit \in Nat, NEW base \in Nat, base <= limit, NEW n \in base .. limit
      PROVE  AtMost(2 * n, limit) \in base .. limit
  BY <1>1 DEF AtMost
<1>2. /\ AtMost(2 * b.sectors, MaxSectors) \in BaseSectors .. MaxSectors
      /\ AtMost(2 * b.delay, MaxDelay) \in BaseDelay .. MaxDelay
  BY <1>1, BackoffAssumption DEF Strategy
<1>3. ASSUME NEW n \in Nat, NEW d \in BaseSectors .. MaxSectors, NEW p \in BaseDelay .. MaxDelay
      PROVE  [b EXCEPT !.errorCount = 0, !.backoffCount = n, !.sectors = d, !.delay = p]
               \in Strategy
  BY DEF Strategy
<1>4. RecordBackoff(b).lastError = b.lastError
  BY DEF RecordBackoff, Strategy
<1>5. b.backoffCount + 1 \in Nat
  BY DEF Strategy
<1>6. RecordBackoff(b) \in Strategy
  BY <1>2, <1>3, <1>5, Zenon DEF RecordBackoff
<1> QED
  BY <1>4, <1>6

-----------------------------------------------------------------------------
(* Helpers of the loop *)

LEMMA HalvesType ==
  ASSUME NEW b \in Int, NEW e \in Int
  PROVE  Halves(b, e) \in SUBSET Int /\ InnerHalves(b, e) \in SUBSET Int
  BY DEF Halves, InnerHalves

LEMMA CacheType ==
  ASSUME TypeOK, NEW x \in Extent
  PROVE  TrimCache(Append(cache, x)) \in Seq(Extent)
<1> DEFINE c == Append(cache, x)
<1>1. c \in Seq(Extent) /\ Len(c) \in Nat
  BY DEF TypeOK
<1>2. CacheLimit \in Nat \ {0}
  BY ReadLoopAssumption DEF CacheLimit, Larger, TypeOK
<1>3. CASE Len(c) > CacheLimit
  <2>1. Len(c) - CacheLimit + 1 \in 1 .. Len(c) + 1 /\ Len(c) \in Len(c) - CacheLimit + 1 - 1 .. Len(c)
    BY <1>1, <1>2, <1>3
  <2>2. SubSeq(c, Len(c) - CacheLimit + 1, Len(c)) \in Seq(Extent)
    BY <1>1, <1>2, <1>3, <2>1, SubSeqProperties
  <2> QED
    BY <1>3, <2>2 DEF TrimCache
<1>4. CASE ~(Len(c) > CacheLimit)
  BY <1>1, <1>4 DEF TrimCache
<1> QED
  BY <1>3, <1>4

LEMMA MergeType ==
  ASSUME NEW r \in Roots, NEW b \in Int, NEW e \in Int, NEW v \in SUBSET Int
  PROVE  MergeFragment(r, b, e, v) \in Roots
  BY DEF MergeFragment, Larger, Smaller, Roots

LEMMA CallType ==
  ASSUME TypeOK
  PROVE  /\ NoCall \in Calls
         /\ [call EXCEPT !.retry = @ + 1, !.reads = 0, !.tries = 0] \in Calls
         /\ [call EXCEPT !.reads = 0, !.tries = 0] \in Calls
         /\ [call EXCEPT !.reads = 2, !.tries = 0] \in Calls
         /\ [call EXCEPT !.tries = @ + 1, !.reads = @ + 1] \in Calls
         /\ [call EXCEPT !.tries = @ + 1] \in Calls
         /\ \A n \in Int, b \in Int, e \in Int :
              [NoCall EXCEPT !.max = n, !.begin = b, !.end = e] \in Calls
<1>1. NoCall \in Calls
  BY DEF NoCall, Calls
<1>2. call \in Calls
  BY DEF TypeOK
<1>3. ASSUME NEW c \in Calls, NEW i \in Nat, NEW j \in Nat, NEW k \in Nat
      PROVE  /\ [c EXCEPT !.retry = i, !.reads = j, !.tries = k] \in Calls
             /\ [c EXCEPT !.reads = j, !.tries = k] \in Calls
             /\ [c EXCEPT !.tries = j, !.reads = k] \in Calls
             /\ [c EXCEPT !.tries = k] \in Calls
  BY <1>3 DEF Calls
<1>4. ASSUME NEW n \in Int, NEW b \in Int, NEW e \in Int
      PROVE  [NoCall EXCEPT !.max = n, !.begin = b, !.end = e] \in Calls
  BY <1>4 DEF NoCall, Calls
<1>5. call.retry + 1 \in Nat /\ call.reads + 1 \in Nat /\ call.tries + 1 \in Nat
  BY <1>2 DEF Calls
<1> QED
  BY <1>1, <1>2, <1>3, <1>4, <1>5, Zenon

-----------------------------------------------------------------------------
(* What the ways to end a step leave behind is well typed. *)

LEMMA DeliverType ==
  ASSUME TypeOK, NEW source \in Sources, Deliver(source)
  PROVE  /\ pc' \in PCs /\ call' \in Calls /\ out' \in Outs
         /\ cursor' \in Int /\ strays' \in 0 .. TooMany /\ cut' \in BOOLEAN
<1>1. strays' \in 0 .. TooMany /\ cut' \in BOOLEAN
  BY ReadLoopAssumption DEF Deliver, TypeOK, Smaller, TooMany
<1>2. pc' \in PCs /\ call' \in Calls
  BY CallType DEF Deliver, PCs
<1>3. cursor' \in Int /\ out' \in Outs
  BY DEF Deliver, TypeOK, Outs
<1> QED
  BY <1>1, <1>2, <1>3

LEMMA RefuseType ==
  ASSUME TypeOK, NEW why \in Sources, Refuse(why)
  PROVE  /\ pc' \in PCs /\ call' \in Calls /\ out' \in Outs
         /\ cursor' \in Int /\ strays' \in 0 .. TooMany /\ cut' \in BOOLEAN
  BY CallType DEF Refuse, TypeOK, PCs, Outs

LEMMA FailedType ==
  ASSUME TypeOK, Failed
  PROVE  /\ pc' \in PCs /\ call' \in Calls /\ out' \in Outs
         /\ cursor' \in Int /\ strays' \in 0 .. TooMany /\ cut' \in BOOLEAN
<1>1. "silence" \in Sources /\ "error" \in Sources
  BY DEF Sources
<1> QED
  BY <1>1, DeliverType, RefuseType DEF Failed

LEMMA TryAgainType ==
  ASSUME TypeOK, NEW b \in Strategy, TryAgain(b)
  PROVE  /\ pc' \in PCs /\ call' \in Calls /\ out' \in Outs
         /\ cursor' \in Int /\ strays' \in 0 .. TooMany /\ cut' \in BOOLEAN /\ backoff' \in Strategy
<1>1. ResetErrorState(b) \in Strategy
  BY ResetIsFresh, FreshStrategy
<1>2. UNCHANGED <<cursor, out, strays, cut>>
  BY DEF TryAgain
<1>3. pc' \in PCs /\ call' \in Calls /\ backoff' \in Strategy
  BY <1>1, CallType, Zenon DEF TryAgain, PCs, Verifying
<1> QED
  BY <1>2, <1>3 DEF TypeOK

LEMMA MergeAndReturnType ==
  ASSUME TypeOK, NEW v \in SUBSET Int, NEW b \in Strategy, MergeAndReturn(v, b)
  PROVE  /\ pc' \in PCs /\ call' \in Calls /\ out' \in Outs
         /\ cursor' \in Int /\ strays' \in 0 .. TooMany /\ cut' \in BOOLEAN /\ backoff' \in Strategy
         /\ root' \in Roots /\ cache' \in Seq(Extent)
<1>1. call.begin \in Int /\ call.end \in Int
  BY DEF TypeOK, Calls
<1>2. cache' \in Seq(Extent)
  BY <1>1, CacheType DEF MergeAndReturn, Extent
<1>3. CASE Separated(root, call.begin, call.end)
  BY <1>2, <1>3 DEF MergeAndReturn, TypeOK, PCs
<1>4. CASE ~Separated(root, call.begin, call.end)
  <2>1. root' \in Roots
    BY <1>1, <1>4, MergeType DEF MergeAndReturn, TypeOK
  <2>2. CASE Covers(root', cursor)
    <3>1. Deliver("root") /\ backoff' = ResetErrorState(b)
      BY <1>4, <2>2 DEF MergeAndReturn
    <3>2. "root" \in Sources
      BY DEF Sources
    <3> QED
      BY <1>2, <2>1, <3>1, <3>2, DeliverType, ResetIsFresh, FreshStrategy
  <2>3. CASE ~Covers(root', cursor)
    BY <1>2, <1>4, <2>1, <2>3, TryAgainType DEF MergeAndReturn
  <2> QED
    BY <2>2, <2>3
<1> QED
  BY <1>3, <1>4

-----------------------------------------------------------------------------
(* Every step keeps every variable in its type. *)

LEMMA TypeInit == Init => TypeOK
<1> SUFFICES ASSUME Init PROVE TypeOK
  OBVIOUS
<1>1. backoff \in Strategy
  BY FreshStrategy DEF Init
<1>2. call \in Calls /\ out \in Outs
  BY DEF Init, NoCall, Calls, NoOut, Outs, Sources
<1>3. root \in Roots /\ cache \in Seq(Extent)
  BY DEF Init, EmptyRoot, Roots
<1>4. strays \in 0 .. TooMany
  BY ReadLoopAssumption DEF Init, TooMany
<1>5. cut \in BOOLEAN
  BY Zenon DEF Init
<1> QED
  BY <1>1, <1>2, <1>3, <1>4, <1>5, ReadLoopAssumption DEF Init, TypeOK, PCs

LEMMA TypeStep == TypeOK /\ [Next]_vars => TypeOK'
<1> SUFFICES ASSUME TypeOK, [Next]_vars PROVE TypeOK'
  OBVIOUS
<1> USE DEF TypeOK
<1>1. ASSUME NEW m \in Modes, SetMode(m) PROVE TypeOK'
  BY <1>1, ReadLoopAssumption DEF SetMode, position, jitter
<1>2. ASSUME NEW h \in Overlaps, SetOverlap(h) PROVE TypeOK'
  BY <1>2, ReadLoopAssumption DEF SetOverlap, position, settings
<1>3. ASSUME NEW n \in CacheSizes, CacheModelSize(n) PROVE TypeOK'
  BY <1>3, ReadLoopAssumption DEF CacheModelSize, position, jitter
<1>4. ASSUME NEW start \in Bounds, NEW end \in Bounds, SetRange(start, end) PROVE TypeOK'
  <2>1. start \in Int /\ end \in Int
    BY ReadLoopAssumption
  <2>2. first' \in Int /\ last' \in Int /\ cursor' \in Int
    BY <1>4, <2>1, ReadLoopAssumption DEF SetRange, Larger, Smaller
  <2>3. cut' \in BOOLEAN
    BY <1>4 DEF SetRange
  <2> QED
    BY <1>4, <2>2, <2>3 DEF SetRange, settings, jitter
<1>5. CASE SeekPanics
  BY <1>5 DEF SeekPanics, position, settings, jitter, PCs
<1>6. ASSUME NEW delta \in Moves, NEW whence \in {"start", "current", "end"}, Seek(delta, whence)
      PROVE  TypeOK'
  <2>1. SeekBase(whence) \in Int /\ delta \in Int
    BY <1>6, ReadLoopAssumption DEF SeekBase
  <2>2. cursor' \in Int
    BY <1>6, <2>1 DEF Seek, Larger, Smaller
  <2>3. root' \in Roots /\ cache' \in Seq(Extent) /\ strays' \in 0 .. TooMany
    BY <1>6, ReadLoopAssumption DEF Seek, EmptyRoot, Roots, TooMany
  <2>4. cut' \in BOOLEAN
    BY <1>6, Zenon DEF Seek
  <2> QED
    BY <1>6, <2>2, <2>3, <2>4 DEF Seek, settings, jitter
<1>7. ASSUME NEW n \in RetryLimits, ReadLimited(n) PROVE TypeOK'
  <2>1. CASE ReadBeyondEnd(n)
    <3>1. Refuse("unaddressable") /\ "unaddressable" \in Sources
      BY <2>1 DEF ReadBeyondEnd, Sources
    <3> QED
      BY <2>1, <3>1, RefuseType DEF ReadBeyondEnd, settings, jitter
  <2>2. CASE ReadUnverified(n)
    BY <2>2 DEF ReadUnverified, position, settings, jitter, PCs
  <2>3. CASE ReadFromRoot(n)
    <3>1. Deliver("root") /\ "root" \in Sources
      BY <2>3 DEF ReadFromRoot, Sources
    <3> QED
      BY <2>3, <3>1, DeliverType DEF ReadFromRoot, settings, jitter
  <2>4. CASE StartBatch(n)
    <3>1. n \in Int /\ BatchBegin \in Int /\ BatchEnd \in Int
      BY ReadLoopAssumption DEF BatchBegin, BatchEnd, OverlapSectors, Larger, Smaller
    <3>2. call' \in Calls
      BY <2>4, <3>1, CallType, Zenon DEF StartBatch
    <3>3. pc' \in PCs /\ backoff' \in Strategy
      BY <2>4, ResetIsFresh, FreshStrategy DEF StartBatch, PCs, Verifying
    <3> QED
      BY <2>4, <3>2, <3>3 DEF StartBatch, position, settings, jitter
  <2> QED
    BY <1>7, <2>1, <2>2, <2>3, <2>4 DEF ReadLimited
<1>8. CASE DirectRead
  <2>1. "direct" \in Sources
    BY DEF Sources
  <2> QED
    BY <1>8, <2>1, DeliverType, FailedType DEF DirectRead, settings, jitter
<1>9. CASE LastRead
  <2>1. "lastread" \in Sources
    BY DEF Sources
  <2> QED
    BY <1>9, <2>1, DeliverType, FailedType DEF LastRead, settings, jitter
<1>10. call.begin \in Int /\ call.end \in Int
  BY DEF Calls
<1>11. RecordSuccess(backoff, cursor) \in Strategy /\ RecordError(backoff, cursor) \in Strategy
  BY RecordSuccessType, RecordErrorType
<1>12. RecordJitter => overlap' \in Nat \ {0} /\ search' \in Nat \ {0}
  BY ReadLoopAssumption DEF RecordJitter, jitter
<1>13. CASE BatchRecognised
  <2>1. InnerHalves(call.begin, call.end) \in SUBSET Int
    BY <1>10, HalvesType
  <2> QED
    BY <1>11, <1>12, <1>13, <2>1, MergeAndReturnType DEF BatchRecognised, settings
<1>14. CASE BatchUnknown
  BY <1>11, <1>14 DEF BatchUnknown, position, settings, jitter, PCs, Verifying
<1>15. CASE BatchFails
  <2>1. ResetErrorState(RecordError(backoff, cursor)) \in Strategy
    BY <1>11, ResetIsFresh, FreshStrategy
  <2>2. CASE ~NeedsBackoff(backoff, cursor)
    <3>1. TryAgain(RecordError(backoff, cursor))
      BY <1>15, <2>2 DEF BatchFails
    <3> QED
      BY <1>11, <1>15, <3>1, TryAgainType DEF BatchFails, settings, jitter
  <2>3. CASE pc' = "seekback" /\ backoff' = RecordError(backoff, cursor)
             /\ UNCHANGED <<cursor, call, out, strays, cut>>
    BY <1>11, <1>15, <2>3 DEF BatchFails, settings, jitter, PCs, Verifying
  <2>4. CASE backoff' = ResetErrorState(RecordError(backoff, cursor)) /\ Failed
    BY <1>15, <2>1, <2>4, FailedType DEF BatchFails, settings, jitter
  <2> QED
    BY <1>15, <2>2, <2>3, <2>4 DEF BatchFails
<1>16. CASE SeekAway
  BY <1>16, RecordBackoffType, TryAgainType DEF SeekAway, settings, jitter
<1>17. CASE SecondFails
  <2>1. CASE pc' = "seekback" /\ backoff' = RecordError(backoff, cursor)
             /\ UNCHANGED <<cursor, call, out, strays, cut>>
    BY <1>11, <1>17, <2>1 DEF SecondFails, settings, jitter, PCs, Verifying
  <2>2. CASE TryAgain(RecordError(backoff, cursor))
    BY <1>11, <1>17, <2>2, TryAgainType DEF SecondFails, settings, jitter
  <2> QED
    BY <1>17, <2>1, <2>2 DEF SecondFails
<1>18. CASE SecondMatches
  <2>1. InnerHalves(call.begin, call.end) \in SUBSET Int
    BY <1>10, HalvesType
  <2> QED
    BY <1>12, <1>18, <2>1, MergeAndReturnType DEF SecondMatches, settings
<1>19. CASE SecondDiffers
  <2>1. call' \in Calls
    BY <1>19, CallType, Zenon DEF SecondDiffers
  <2> QED
    BY <1>19, <2>1 DEF SecondDiffers, position, settings, jitter, PCs, Verifying
<1>20. CASE JitterSearchPanics
  BY <1>20 DEF JitterSearchPanics, position, settings, jitter, PCs
<1>21. CASE ConsensusRead
  <2>1. call' \in Calls
    BY <1>21, CallType, Zenon DEF ConsensusRead
  <2> QED
    BY <1>21, <2>1 DEF ConsensusRead, position, settings, jitter
<1>22. CASE ConsensusReadFails
  <2>1. call' \in Calls
    BY <1>22, CallType, Zenon DEF ConsensusReadFails
  <2> QED
    BY <1>11, <1>22, <2>1 DEF ConsensusReadFails, position, settings, jitter
<1>23. CASE OffsetSearchPanics
  BY <1>23 DEF OffsetSearchPanics, position, settings, jitter, PCs
<1>24. CASE ConsensusVote
  <2>1. PICK v \in SUBSET Halves(call.begin, call.end) : MergeAndReturn(v, backoff)
    BY <1>24 DEF ConsensusVote
  <2>2. v \in SUBSET Int
    BY <1>10, HalvesType
  <2> QED
    BY <1>24, <2>1, <2>2, MergeAndReturnType DEF ConsensusVote, settings, jitter
<1>25. CASE ConsensusStarved
  BY <1>25, TryAgainType DEF ConsensusStarved, settings, jitter
<1>26. CASE UNCHANGED vars
  BY <1>26 DEF vars, position, settings, jitter
<1> QED
  BY <1>1, <1>2, <1>3, <1>4, <1>5, <1>6, <1>7, <1>8, <1>9, <1>13, <1>14, <1>15, <1>16, <1>17,
     <1>18, <1>19, <1>20, <1>21, <1>22, <1>23, <1>24, <1>25, <1>26
     DEF Next, Caller, Reader

(* Type correctness, for every value of the constants. *)
THEOREM TypeCorrect == Spec => []TypeOK
  BY TypeInit, TypeStep, PTL DEF Spec

-----------------------------------------------------------------------------
(* The inductive invariant.  First what each way to end a step does to it. *)

LEMMA CallFields ==
  ASSUME TypeOK
  PROVE  /\ LET c == [call EXCEPT !.retry = @ + 1, !.reads = 0, !.tries = 0] IN
              /\ c.max = call.max /\ c.retry = call.retry + 1
              /\ c.begin = call.begin /\ c.end = call.end
         /\ LET c == [call EXCEPT !.reads = 0, !.tries = 0] IN
              c.begin = call.begin /\ c.end = call.end
         /\ LET c == [call EXCEPT !.reads = 2, !.tries = 0] IN
              /\ c.max = call.max /\ c.retry = call.retry /\ c.tries = 0
              /\ c.begin = call.begin /\ c.end = call.end
         /\ LET c == [call EXCEPT !.tries = @ + 1, !.reads = @ + 1] IN
              /\ c.max = call.max /\ c.retry = call.retry /\ c.tries = call.tries + 1
              /\ c.begin = call.begin /\ c.end = call.end
         /\ LET c == [call EXCEPT !.tries = @ + 1] IN
              /\ c.max = call.max /\ c.retry = call.retry /\ c.tries = call.tries + 1
              /\ c.begin = call.begin /\ c.end = call.end
  BY DEF TypeOK, Calls

LEMMA StartFields ==
  ASSUME NEW n, NEW b, NEW e
  PROVE  LET c == [NoCall EXCEPT !.max = n, !.begin = b, !.end = e] IN
           c.max = n /\ c.retry = 0 /\ c.begin = b /\ c.end = e
  BY DEF NoCall

(* A strategy the read may go on with: fresh, or about the target. *)
Carries(b) == b \in Strategy /\ (b # Fresh => b.lastError = cursor)

LEMMA DeliverInv ==
  ASSUME TypeOK, ReadInv, NEW source, Deliver(source), cursor <= last,
         UNCHANGED <<first, last>>, backoff' = Fresh, root' \in Roots,
         \/ source # "root" /\ root' = root
         \/ source = "root" /\ Covers(root', cursor)
  PROVE  ReadInv'
<1> USE DEF ReadInv, TypeOK, Deliver
<1>1. CursorInRange'
  BY DEF CursorInRange, Verifying
<1>2. CallFits'
  BY DEF CallFits, Verifying
<1>3. RootMeetsCursor'
  <2>1. CASE source # "root" /\ root' = root
    BY <2>1, ReadLoopAssumption DEF RootMeetsCursor, CursorInRange, IsEmpty, Roots, Smaller, TooMany
  <2>2. CASE source = "root" /\ Covers(root', cursor)
    BY <2>2 DEF RootMeetsCursor, CursorInRange, Covers, IsEmpty, Roots
  <2> QED
    BY <2>1, <2>2
<1>4. BackoffBelongsToRead'
  BY DEF BackoffBelongsToRead
<1> QED
  BY <1>1, <1>2, <1>3, <1>4

LEMMA RefuseInv ==
  ASSUME TypeOK, ReadInv, NEW why, Refuse(why),
         UNCHANGED <<first, last, root>>, backoff' = Fresh
  PROVE  ReadInv'
  BY DEF TypeOK, ReadInv, Refuse, CursorInRange, CallFits, RootMeetsCursor, IsEmpty,
         BackoffBelongsToRead, Verifying

LEMMA FailedInv ==
  ASSUME TypeOK, ReadInv, Failed, cursor <= last,
         UNCHANGED <<first, last, root>>, backoff' = Fresh
  PROVE  ReadInv'
<1>1. root' \in Roots
  BY DEF TypeOK
<1> QED
  BY <1>1, DeliverInv, RefuseInv DEF Failed

LEMMA TryAgainInv ==
  ASSUME TypeOK, ReadInv, pc \in Verifying, NEW b, Carries(b), TryAgain(b),
         UNCHANGED <<first, last, root>>
  PROVE  ReadInv'
<1>1. UNCHANGED <<cursor, strays, cut>>
  BY DEF TryAgain
<1>2. RootMeetsCursor'
  BY <1>1 DEF ReadInv, RootMeetsCursor, IsEmpty
<1>3. pc' \in {"batch", "fallback"}
  BY DEF TryAgain
<1>4. CursorInRange'
  BY <1>1, <1>3 DEF ReadInv, CursorInRange
<1>5. CallFits'
  <2>1. CASE call.retry + 1 < call.max
    BY <1>1, <2>1, CallFields DEF TryAgain, ReadInv, CallFits
  <2>2. CASE ~(call.retry + 1 < call.max)
    BY <1>1, <2>2, CallFields DEF TryAgain, ReadInv, CallFits
  <2> QED
    BY <2>1, <2>2
<1>6. BackoffBelongsToRead'
  BY <1>1, ResetIsFresh DEF TryAgain, BackoffBelongsToRead, Carries
<1> QED
  BY <1>2, <1>4, <1>5, <1>6 DEF ReadInv

(* The batch holds the target, so that the merged root does: extraction    *)
(* never misses.                                                           *)
LEMMA MergeCovers ==
  ASSUME NEW r \in Roots, r.begin <= r.end, NEW b \in Int, NEW e \in Int, NEW v,
         NEW s \in Int, b <= s, s < e
  PROVE  Covers(MergeFragment(r, b, e, v), s)
  BY DEF Covers, MergeFragment, IsEmpty, Larger, Smaller, Roots

LEMMA MergeAndReturnInv ==
  ASSUME TypeOK, ReadInv, pc \in Verifying, NEW v \in SUBSET Int, NEW b, Carries(b),
         MergeAndReturn(v, b), UNCHANGED <<first, last>>
  PROVE  ReadInv'
<1>1. CASE Separated(root, call.begin, call.end)
  <2>1. pc' = "panicked" /\ backoff' = b /\ UNCHANGED <<cursor, root, call, out, strays, cut>>
    BY <1>1 DEF MergeAndReturn
  <2> QED
    BY <2>1 DEF ReadInv, CursorInRange, CallFits, RootMeetsCursor, IsEmpty,
                BackoffBelongsToRead, Verifying, Carries
<1>2. CASE ~Separated(root, call.begin, call.end)
  <2>1. call.begin \in Int /\ call.end \in Int /\ root \in Roots /\ cursor \in Int
    BY DEF TypeOK, Calls
  <2>2. root' = MergeFragment(root, call.begin, call.end, v) /\ root' \in Roots
    BY <1>2, <2>1, MergeType DEF MergeAndReturn
  <2>3. Covers(root', cursor)
    BY <2>1, <2>2, MergeCovers DEF ReadInv, CallFits, RootMeetsCursor
  <2>4. Deliver("root") /\ backoff' = Fresh
    BY <1>2, <2>3, ResetIsFresh DEF MergeAndReturn, Carries
  <2>5. cursor <= last
    BY DEF ReadInv, CursorInRange
  <2> QED
    BY <2>2, <2>3, <2>4, <2>5, DeliverInv
<1> QED
  BY <1>1, <1>2

LEMMA InvInit == Init => ReadInv
  BY ReadLoopAssumption
     DEF Init, ReadInv, CursorInRange, CallFits, RootMeetsCursor, IsEmpty, EmptyRoot,
         BackoffBelongsToRead, Verifying

LEMMA BatchFits ==
  ASSUME TypeOK, ReadInv, cursor <= last
  PROVE  /\ BatchBegin \in Int /\ BatchEnd \in Int
         /\ first <= BatchBegin /\ BatchBegin <= cursor
         /\ cursor < BatchEnd /\ BatchEnd <= last + 1
         /\ BatchBegin = first \/ BatchBegin <= cursor - MinOverlap
<1>1. OverlapSectors \in Nat /\ OverlapSectors >= MinOverlap
  BY ReadLoopAssumption DEF OverlapSectors, Larger, TypeOK
<1> QED
  BY <1>1, ReadLoopAssumption
     DEF BatchBegin, BatchEnd, Larger, Smaller, TypeOK, ReadInv, CursorInRange

LEMMA ErrorsCarry ==
  ASSUME TypeOK, ReadInv
  PROVE  /\ Carries(backoff)
         /\ Carries(RecordSuccess(backoff, cursor))
         /\ Carries(RecordError(backoff, cursor))
         /\ RecordError(backoff, cursor).lastError = cursor
         /\ pc = "seekback" => Carries(RecordBackoff(backoff))
<1>1. Carries(backoff)
  BY DEF Carries, TypeOK, ReadInv, BackoffBelongsToRead
<1>2. Carries(RecordSuccess(backoff, cursor))
  BY <1>1, RecordSuccessType, ResetIsFresh DEF RecordSuccess, Carries, TypeOK
<1>3. Carries(RecordError(backoff, cursor)) /\ RecordError(backoff, cursor).lastError = cursor
  BY RecordErrorType DEF Carries, TypeOK
<1>4. pc = "seekback" => Carries(RecordBackoff(backoff))
  BY RecordBackoffType DEF Carries, TypeOK, ReadInv, BackoffBelongsToRead
<1> QED
  BY <1>1, <1>2, <1>3, <1>4

LEMMA InvStep == TypeOK /\ ReadInv /\ [Next]_vars => ReadInv'
<1> SUFFICES ASSUME TypeOK, ReadInv, [Next]_vars PROVE ReadInv'
  OBVIOUS
<1>root. root \in Roots /\ cursor \in Int /\ first \in Int /\ last \in Int
  BY DEF TypeOK
<1>idle. pc \in {"idle", "direct", "fallback"} => backoff = Fresh
  BY DEF ReadInv, BackoffBelongsToRead
<1>low. pc \in Verifying \cup {"direct"} => cursor <= last
  BY DEF ReadInv, CursorInRange
<1>v. {"batch", "seekback", "second", "consensus", "fallback"} = Verifying
  BY DEF Verifying
<1>1. ASSUME NEW m \in Modes, SetMode(m) PROVE ReadInv'
  BY <1>1 DEF SetMode, position, ReadInv, CursorInRange, CallFits, RootMeetsCursor, IsEmpty,
              BackoffBelongsToRead
<1>2. ASSUME NEW h \in Overlaps, SetOverlap(h) PROVE ReadInv'
  BY <1>2 DEF SetOverlap, position, ReadInv, CursorInRange, CallFits, RootMeetsCursor, IsEmpty,
              BackoffBelongsToRead
<1>3. ASSUME NEW n \in CacheSizes, CacheModelSize(n) PROVE ReadInv'
  BY <1>3 DEF CacheModelSize, position, ReadInv, CursorInRange, CallFits, RootMeetsCursor,
              IsEmpty, BackoffBelongsToRead
<1>4. ASSUME NEW start \in Bounds, NEW end \in Bounds, SetRange(start, end) PROVE ReadInv'
  <2>1. start \in Int /\ end \in Int
    BY ReadLoopAssumption
  <2>2. CursorInRange'
    BY <1>root, <1>4, <2>1, ReadLoopAssumption
       DEF SetRange, CursorInRange, Larger, Smaller, Verifying
  <2>3. RootMeetsCursor'
    <3>1. UNCHANGED <<root, strays>> /\ cursor' \in {cursor, first'} /\ first' \in Int
      BY <1>4, <2>1, ReadLoopAssumption DEF SetRange, Larger
    <3>2. ~cut' /\ ~IsEmpty(root) =>
            ~cut /\ ~(first' > root.end) /\ ~(cursor' < root.begin)
      BY <1>4 DEF SetRange
    <3>3. root.begin \in Int /\ root.end \in Int
      BY <1>root DEF Roots
    <3> QED
      BY <1>root, <3>1, <3>2, <3>3, ReadLoopAssumption DEF ReadInv, RootMeetsCursor, IsEmpty, TypeOK
  <2>4. CallFits' /\ BackoffBelongsToRead'
    BY <1>4, <1>idle DEF SetRange, CallFits, BackoffBelongsToRead, Verifying
  <2> QED
    BY <2>2, <2>3, <2>4 DEF ReadInv
<1>5. CASE SeekPanics
  BY <1>5, <1>idle DEF SeekPanics, position, ReadInv, CursorInRange, CallFits, RootMeetsCursor,
                       IsEmpty, BackoffBelongsToRead, Verifying
<1>6. ASSUME NEW delta \in Moves, NEW whence \in {"start", "current", "end"}, Seek(delta, whence)
      PROVE  ReadInv'
  <2>1. SeekBase(whence) + delta \in Int
    BY <1>root, ReadLoopAssumption DEF SeekBase
  <2>2. CursorInRange'
    BY <1>root, <1>6, <2>1 DEF Seek, ReadInv, CursorInRange, Larger, Smaller, Verifying
  <2>3. RootMeetsCursor' /\ CallFits' /\ BackoffBelongsToRead'
    BY <1>6, <1>idle DEF Seek, RootMeetsCursor, IsEmpty, EmptyRoot, CallFits, Verifying,
                         BackoffBelongsToRead
  <2> QED
    BY <2>2, <2>3 DEF ReadInv
<1>7. ASSUME NEW n \in RetryLimits, ReadLimited(n) PROVE ReadInv'
  <2>1. CASE ReadBeyondEnd(n)
    BY <1>idle, <2>1, RefuseInv DEF ReadBeyondEnd
  <2>2. CASE ReadUnverified(n)
    BY <1>idle, <2>2 DEF ReadUnverified, position, ReadInv, CursorInRange, CallFits,
                         RootMeetsCursor, IsEmpty, BackoffBelongsToRead, Verifying
  <2>3. CASE ReadFromRoot(n)
    BY <1>root, <1>idle, <2>3, DeliverInv DEF ReadFromRoot, Covers
  <2>4. CASE StartBatch(n)
    <3>1. call' = [NoCall EXCEPT !.max = n, !.begin = BatchBegin, !.end = BatchEnd]
      BY <2>4 DEF StartBatch
    <3>2. call'.max = n /\ call'.retry = 0 /\ call'.begin = BatchBegin /\ call'.end = BatchEnd
      BY <3>1, StartFields
    <3>3. cursor <= last /\ UNCHANGED <<first, last, cursor, root, strays, cut>>
      BY <2>4 DEF StartBatch, position
    <3>4. pc' = IF n > 0 THEN "batch" ELSE "fallback"
      BY <2>4 DEF StartBatch
    <3>5. CallFits'
      BY <3>2, <3>3, <3>4, BatchFits DEF CallFits
    <3>6. CursorInRange' /\ RootMeetsCursor'
      BY <3>3 DEF ReadInv, CursorInRange, RootMeetsCursor, IsEmpty
    <3>7. backoff' = Fresh
      BY <1>idle, <2>4, FreshStrategy, ResetIsFresh DEF StartBatch
    <3> QED
      BY <3>4, <3>5, <3>6, <3>7 DEF ReadInv, BackoffBelongsToRead
  <2> QED
    BY <1>7, <2>1, <2>2, <2>3, <2>4 DEF ReadLimited
<1>8. CASE DirectRead
  BY <1>root, <1>idle, <1>low, <1>8, DeliverInv, FailedInv DEF DirectRead
<1>9. CASE LastRead
  BY <1>root, <1>idle, <1>low, <1>v, <1>9, DeliverInv, FailedInv DEF LastRead
<1>10. CASE BatchRecognised
  BY <1>10, <1>v, ErrorsCarry, HalvesType, MergeAndReturnInv DEF BatchRecognised, TypeOK, Calls
<1>11. CASE BatchUnknown
  BY <1>11, ErrorsCarry
     DEF BatchUnknown, position, ReadInv, CursorInRange, CallFits, RootMeetsCursor, IsEmpty,
         BackoffBelongsToRead, Verifying, Carries
<1>12. CASE pc \in Verifying \ {"fallback"} /\ pc' = "seekback"
            /\ backoff' = RecordError(backoff, cursor)
            /\ UNCHANGED <<first, last, root, cursor, call, out, strays, cut>>
  BY <1>12, ErrorsCarry
     DEF ReadInv, CursorInRange, CallFits, RootMeetsCursor, IsEmpty, BackoffBelongsToRead, Carries
<1>13. CASE BatchFails
  <2>1. CASE TryAgain(RecordError(backoff, cursor))
    BY <1>13, <1>v, <2>1, ErrorsCarry, TryAgainInv DEF BatchFails
  <2>2. CASE backoff' = ResetErrorState(RecordError(backoff, cursor)) /\ Failed
    BY <1>13, <1>low, <1>v, <2>2, ErrorsCarry, ResetIsFresh, FailedInv DEF BatchFails, Carries
  <2> QED
    BY <1>12, <1>13, <1>v, <2>1, <2>2 DEF BatchFails
<1>14. CASE SeekAway
  BY <1>14, <1>v, ErrorsCarry, TryAgainInv DEF SeekAway
<1>15. CASE SecondFails
  <2>1. CASE TryAgain(RecordError(backoff, cursor))
    BY <1>15, <1>v, <2>1, ErrorsCarry, TryAgainInv DEF SecondFails
  <2> QED
    BY <1>12, <1>15, <1>v, <2>1 DEF SecondFails
<1>16. CASE SecondMatches
  BY <1>16, <1>v, ErrorsCarry, HalvesType, MergeAndReturnInv DEF SecondMatches, TypeOK, Calls
<1>17. CASE SecondDiffers
  BY <1>17, CallFields, ReadLoopAssumption
     DEF SecondDiffers, position, ReadInv, CursorInRange, CallFits, RootMeetsCursor, IsEmpty,
         BackoffBelongsToRead, Verifying
<1>18. CASE JitterSearchPanics
  BY <1>18 DEF JitterSearchPanics, position, ReadInv, CursorInRange, CallFits, RootMeetsCursor,
               IsEmpty, BackoffBelongsToRead, Verifying
<1>19. CASE ConsensusRead
  <2>. call'.max = call.max /\ call'.retry = call.retry /\ call'.tries = call.tries + 1
       /\ call'.begin = call.begin /\ call'.end = call.end
    BY <1>19, CallFields DEF ConsensusRead
  <2>. pc = "consensus" /\ UNCHANGED <<first, last, cursor, pc>> /\ call.tries < MaxAdditional
    BY <1>19 DEF ConsensusRead, AnotherRead, position
  <2>. call.tries \in Nat
    BY DEF TypeOK, Calls
  <2>1. CallFits'
    BY ReadLoopAssumption DEF ReadInv, CallFits, Verifying
  <2> QED
    BY <1>19, <2>1 DEF ConsensusRead, AnotherRead, position, ReadInv, CursorInRange,
                       RootMeetsCursor, IsEmpty, BackoffBelongsToRead, Verifying
<1>20. CASE ConsensusReadFails
  <2>. call'.max = call.max /\ call'.retry = call.retry /\ call'.tries = call.tries + 1
       /\ call'.begin = call.begin /\ call'.end = call.end
    BY <1>20, CallFields DEF ConsensusReadFails
  <2>. pc = "consensus" /\ UNCHANGED <<first, last, cursor, pc>> /\ call.tries < MaxAdditional
    BY <1>20 DEF ConsensusReadFails, AnotherRead, position
  <2>. call.tries \in Nat
    BY DEF TypeOK, Calls
  <2>1. CallFits'
    BY ReadLoopAssumption DEF ReadInv, CallFits, Verifying
  <2> QED
    BY <1>20, <2>1, ErrorsCarry
       DEF ConsensusReadFails, AnotherRead, position, ReadInv, CursorInRange,
           RootMeetsCursor, IsEmpty, BackoffBelongsToRead, Verifying, Carries
<1>21. CASE OffsetSearchPanics
  BY <1>21 DEF OffsetSearchPanics, AnotherRead, position, ReadInv, CursorInRange, CallFits,
               RootMeetsCursor, IsEmpty, BackoffBelongsToRead, Verifying
<1>22. CASE ConsensusVote
  <2>1. PICK w \in SUBSET Halves(call.begin, call.end) : MergeAndReturn(w, backoff)
    BY <1>22 DEF ConsensusVote
  <2>2. w \in SUBSET Int
    BY HalvesType DEF TypeOK, Calls
  <2> QED
    BY <1>22, <1>v, <2>1, <2>2, ErrorsCarry, MergeAndReturnInv DEF ConsensusVote
<1>23. CASE ConsensusStarved
  BY <1>23, <1>v, ErrorsCarry, TryAgainInv DEF ConsensusStarved
<1>24. CASE UNCHANGED vars
  BY <1>24 DEF vars, position, ReadInv, CursorInRange, CallFits, RootMeetsCursor, IsEmpty,
               BackoffBelongsToRead
<1> QED
  BY <1>1, <1>2, <1>3, <1>4, <1>5, <1>6, <1>7, <1>8, <1>9, <1>10, <1>11, <1>13, <1>14, <1>15,
     <1>16, <1>17, <1>18, <1>19, <1>20, <1>21, <1>22, <1>23, <1>24 DEF Next, Caller, Reader

(* Where the cursor, the batch, the root and the errors stand to each      *)
(* other: the inductive invariant.                                         *)
THEOREM ReadInvariant == Spec => [](TypeOK /\ ReadInv)
<1>1. Init => TypeOK /\ ReadInv
  BY TypeInit, InvInit
<1>2. TypeOK /\ ReadInv /\ [Next]_vars => (TypeOK /\ ReadInv)'
  BY TypeStep, InvStep
<1> QED
  BY <1>1, <1>2, PTL DEF Spec

-----------------------------------------------------------------------------
(* No way out of a read leaves errors behind for the next one.             *)
THEOREM ErrorsStayWithTheirRead == Spec => []BackoffBelongsToRead
<1>1. ReadInv => BackoffBelongsToRead
  BY DEF ReadInv
<1> QED
  BY <1>1, ReadInvariant, PTL

(* Every request to the drive is a non-empty piece of the reading range,   *)
(* that of a backoff included.                                             *)
THEOREM RequestsStayInRange == Spec => []RequestsInRange
<1>1. ASSUME TypeOK, ReadInv PROVE RequestsInRange
  <2> SUFFICES ASSUME pc \in Verifying \cup {"direct"}
               PROVE  /\ first <= Request.begin /\ Request.begin < Request.end
                      /\ Request.end <= last + 1
                      /\ pc # "direct" => call.begin <= cursor /\ cursor < call.end
    BY DEF RequestsInRange
  <2>1. /\ first \in Int /\ last \in Int /\ cursor \in Int
        /\ call.begin \in Int /\ call.end \in Int
    BY <1>1 DEF TypeOK, Calls
  <2>2. pc # "direct" => /\ first <= call.begin /\ call.begin <= cursor
                         /\ cursor < call.end /\ call.end <= last + 1
    BY <1>1 DEF ReadInv, CallFits
  <2>3. first <= cursor /\ cursor <= last
    BY <1>1 DEF ReadInv, CursorInRange
  <2>4. CASE pc = "seekback"
    <3>1. backoff.sectors \in Nat
      BY <1>1, BackoffAssumption DEF TypeOK, Strategy
    <3>2. BackoffTarget \in Int /\ first <= BackoffTarget /\ BackoffTarget <= cursor
      BY <2>1, <2>3, <3>1 DEF BackoffTarget, Larger
    <3>3. Request.begin = BackoffTarget /\ Request.end = BackoffTarget + 1
      BY <2>4 DEF Request
    <3> QED
      BY <2>1, <2>2, <2>3, <3>2, <3>3
  <2>5. CASE pc \in {"batch", "second", "consensus"}
    <3>1. Request.begin = call.begin /\ Request.end = call.end
      BY <2>5 DEF Request
    <3> QED
      BY <2>1, <2>2, <2>5, <3>1
  <2>6. CASE pc \in {"fallback", "direct"}
    <3>1. Request.begin = cursor /\ Request.end = cursor + 1
      BY <2>6 DEF Request
    <3> QED
      BY <2>1, <2>2, <2>3, <2>6, <3>1
  <2> QED
    BY <2>4, <2>5, <2>6 DEF Verifying
<1> QED
  BY <1>1, ReadInvariant, PTL

(* A gap between batch and root, on which the merge panics, needs more     *)
(* than MinOverlap frames in a row that bypassed the root, or a set_range  *)
(* that left the root behind: that put the cursor before its begin, or the *)
(* range's first sector past its end.                                      *)
THEOREM GapsNeedStrays == Spec => []GapNeedsStrays
<1>1. ASSUME TypeOK, ReadInv PROVE GapNeedsStrays
  <2> SUFFICES ASSUME pc \in Verifying, Separated(root, call.begin, call.end),
                      ~cut, strays # TooMany
               PROVE  FALSE
    BY DEF GapNeedsStrays
  <2>1. /\ strays \in Nat /\ strays <= MinOverlap
        /\ strays < TooMany
    BY <1>1, ReadLoopAssumption DEF TypeOK, TooMany
  <2>2. /\ first \in Int /\ last \in Int /\ cursor \in Int
        /\ call.begin \in Int /\ call.end \in Int
        /\ root.begin \in Int /\ root.end \in Int
    BY <1>1 DEF TypeOK, Calls, Roots
  <2>3. ~IsEmpty(root) /\ (call.begin > root.end \/ call.end < root.begin)
    BY DEF Separated
  <2>4. first <= root.end /\ root.begin <= cursor /\ cursor <= root.end + strays
    BY <1>1, <2>1, <2>3 DEF ReadInv, RootMeetsCursor
  <2>5. /\ call.begin <= cursor /\ cursor < call.end
        /\ call.begin = first \/ call.begin <= cursor - MinOverlap
    BY <1>1 DEF ReadInv, CallFits
  <2> QED
    BY <2>1, <2>2, <2>3, <2>4, <2>5, ReadLoopAssumption
<1> QED
  BY <1>1, ReadInvariant, PTL

-----------------------------------------------------------------------------
(* Every answer of the drive moves the read on, so that no pattern of      *)
(* errors and disagreements keeps it going for ever: what the liveness     *)
(* run shows on one instance, as a step property for all of them.          *)

LEMMA TryAgainAdvances ==
  ASSUME TypeOK, ReadInv, pc \in Verifying \ {"fallback"}, NEW b, TryAgain(b)
  PROVE  ReadAdvances
<1>1. CASE call.retry + 1 < call.max
  <2>1. pc' \in Verifying /\ call'.max = call.max /\ call'.retry = call.retry + 1
    BY <1>1, CallFields DEF TryAgain, Verifying
  <2> QED
    BY <1>1, <2>1 DEF ReadAdvances
<1>2. CASE ~(call.retry + 1 < call.max)
  BY <1>2 DEF TryAgain, ReadAdvances
<1> QED
  BY <1>1, <1>2

LEMMA MergeAndReturnAdvances ==
  ASSUME TypeOK, ReadInv, pc \in Verifying \ {"fallback"}, NEW v, NEW b, MergeAndReturn(v, b)
  PROVE  ReadAdvances
<1>1. TryAgain(b) \/ pc' \in {"idle", "panicked"}
  BY DEF MergeAndReturn, Deliver
<1> QED
  BY <1>1, TryAgainAdvances DEF ReadAdvances

LEMMA StepAdvances == TypeOK /\ ReadInv /\ [Next]_vars => [ReadAdvances]_vars
<1> SUFFICES ASSUME TypeOK, ReadInv, Next, pc \in Verifying PROVE ReadAdvances
  BY DEF ReadAdvances
<1>v. Verifying \ {"fallback"} = {"batch", "seekback", "second", "consensus"}
  BY DEF Verifying
<1>idle. pc \notin {"idle", "direct"}
  BY DEF Verifying
<1>n. call.tries \in Nat /\ MaxAdditional \in Nat
  BY ReadLoopAssumption DEF TypeOK, Calls
<1>c. pc = "consensus" => call.tries <= MaxAdditional
  BY DEF ReadInv, CallFits, Verifying
<1>1. CASE \E source : Deliver(source) \/ Refuse(source)
  BY <1>1 DEF Deliver, Refuse, ReadAdvances
<1>2. CASE LastRead
  BY <1>1, <1>2 DEF LastRead, Failed
<1>3. CASE BatchRecognised
  BY <1>3, <1>v, MergeAndReturnAdvances DEF BatchRecognised
<1>4. CASE BatchUnknown
  <2>1. pc' = "second" /\ pc = "batch" /\ call' = call
    BY <1>4 DEF BatchUnknown
  <2>2. StepsLeft = MaxAdditional + 3 /\ StepsLeft' = MaxAdditional + 2
    BY <2>1 DEF StepsLeft
  <2> QED
    BY <1>n, <2>1, <2>2 DEF ReadAdvances, Verifying
<1>5. CASE pc \in {"batch", "second"} /\ pc' = "seekback" /\ call' = call
  <2>1. StepsLeft >= MaxAdditional + 2 /\ StepsLeft' = 1 /\ StepsLeft \in Int
    BY <1>5, <1>n DEF StepsLeft
  <2> QED
    BY <1>5, <1>n, <2>1 DEF ReadAdvances, Verifying
<1>6. CASE BatchFails
  BY <1>1, <1>5, <1>6, <1>v, TryAgainAdvances DEF BatchFails, Failed
<1>7. CASE SeekAway
  BY <1>7, <1>v, TryAgainAdvances DEF SeekAway
<1>8. CASE SecondFails
  BY <1>5, <1>8, <1>v, TryAgainAdvances DEF SecondFails
<1>9. CASE SecondMatches
  BY <1>9, <1>v, MergeAndReturnAdvances DEF SecondMatches
<1>10. CASE SecondDiffers
  <2>1. pc = "second" /\ pc' = "consensus"
    BY <1>10 DEF SecondDiffers
  <2>2. call'.max = call.max /\ call'.retry = call.retry /\ call'.tries = 0
    BY <1>10, CallFields DEF SecondDiffers
  <2>3. StepsLeft = MaxAdditional + 2 /\ StepsLeft' = (MaxAdditional - 0) + 1
    BY <2>1, <2>2 DEF StepsLeft
  <2> QED
    BY <1>n, <2>1, <2>2, <2>3 DEF ReadAdvances, Verifying
<1>11. CASE JitterSearchPanics \/ OffsetSearchPanics
  BY <1>11 DEF JitterSearchPanics, OffsetSearchPanics, ReadAdvances
<1>12. CASE ConsensusRead \/ ConsensusReadFails
  <2>1. pc = "consensus" /\ pc' = "consensus" /\ call.tries < MaxAdditional
    BY <1>12 DEF ConsensusRead, ConsensusReadFails, AnotherRead
  <2>2. call'.max = call.max /\ call'.retry = call.retry /\ call'.tries = call.tries + 1
    BY <1>12, CallFields DEF ConsensusRead, ConsensusReadFails
  <2>3. /\ StepsLeft = (MaxAdditional - call.tries) + 1
        /\ StepsLeft' = (MaxAdditional - (call.tries + 1)) + 1
    BY <2>1, <2>2 DEF StepsLeft
  <2> QED
    BY <1>n, <2>1, <2>2, <2>3 DEF ReadAdvances, Verifying
<1>13. CASE ConsensusVote
  BY <1>13, <1>v, MergeAndReturnAdvances DEF ConsensusVote
<1>14. CASE ConsensusStarved
  BY <1>14, <1>v, TryAgainAdvances DEF ConsensusStarved
<1>15. ~Caller /\ ~DirectRead
  BY <1>idle
     DEF Caller, DirectRead, SetMode, SetOverlap, CacheModelSize, SetRange, SeekPanics, Seek,
         ReadLimited, ReadBeyondEnd, ReadUnverified, ReadFromRoot, StartBatch
<1> QED
  BY <1>2, <1>3, <1>4, <1>6, <1>7, <1>8, <1>9, <1>10, <1>11, <1>12, <1>13, <1>14, <1>15
     DEF Next, Reader

(* No step of a read leaves it where it was: the retry counter rises below *)
(* its limit, or less of the attempt is left, or the loop is left.         *)
THEOREM EveryReadAdvances == Spec => ReadsAdvance
  BY StepAdvances, ReadInvariant, PTL DEF Spec, ReadsAdvance

-----------------------------------------------------------------------------
(* The reader keeps the promise of FrameReader: each of its steps is one   *)
(* of the abstract reader's, or changes nothing its caller can see.        *)

Busy == Verifying \cup {"direct"}

LEMMA PhaseIs ==
  /\ pc = "idle" => Phase = "ready"
  /\ pc = "panicked" => Phase = "panicked"
  /\ pc \in Busy => Phase = "reading"
  BY DEF Phase, Busy, Verifying

LEMMA PhaseIsNext ==
  /\ pc' = "idle" => Phase' = "ready"
  /\ pc' = "panicked" => Phase' = "panicked"
  /\ pc' \in Busy => Phase' = "reading"
  BY DEF Phase, Busy, Verifying

LEMMA InternalStutters ==
  ASSUME pc \in Busy, pc' \in Busy, UNCHANGED <<first, last, cursor, enableSkip, out>>
  PROVE  UNCHANGED Promised!vars
  BY PhaseIs, PhaseIsNext DEF Promised!vars, Answer

LEMMA PanicPanics ==
  ASSUME pc' = "panicked", UNCHANGED <<first, last, cursor, enableSkip, out>>
  PROVE  Promised!Next
  BY PhaseIsNext DEF Promised!Next, Promised!Panic, Answer

LEMMA DeliverReturns ==
  ASSUME NEW source \in {"root", "direct", "lastread", "silence"}, Deliver(source),
         pc \in Busy \cup {"idle"}, cursor <= last, source = "silence" => enableSkip,
         UNCHANGED <<first, last, enableSkip>>
  PROVE  Promised!Next
<1> DEFINE kind == IF source = "silence" THEN "silence" ELSE "frame"
<1>1. Phase \in {"ready", "reading"} /\ Phase' = "ready"
  BY PhaseIs, PhaseIsNext DEF Deliver
<1>2. Answer' = [kind |-> kind, sector |-> cursor]
  BY DEF Deliver, Answer
<1>3. Promised!Return(kind)
  BY <1>1, <1>2 DEF Promised!Return, Deliver
<1> QED
  BY <1>3 DEF Promised!Next

LEMMA FailedReturns ==
  ASSUME TypeOK, Failed, pc \in Busy, cursor <= last, UNCHANGED <<first, last, enableSkip>>
  PROVE  Promised!Next
<1>1. CASE enableSkip
  BY <1>1, DeliverReturns DEF Failed
<1>2. CASE ~enableSkip
  <2>0. Refuse("error")
    BY <1>2 DEF Failed
  <2>1. Phase \in {"ready", "reading"} /\ Phase' = "ready"
    BY <2>0, PhaseIs, PhaseIsNext DEF Refuse
  <2>2. Answer' = [kind |-> "error", sector |-> cursor] /\ cursor' = cursor
    BY <2>0 DEF Refuse, Answer
  <2>3. Promised!Return("error")
    BY <1>2, <2>1, <2>2 DEF Promised!Return
  <2> QED
    BY <2>3 DEF Promised!Next
<1> QED
  BY <1>1, <1>2

LEMMA TryAgainStutters ==
  ASSUME pc \in Busy, NEW b, TryAgain(b), UNCHANGED <<first, last, enableSkip>>
  PROVE  UNCHANGED Promised!vars
<1>1. pc' \in Busy
  BY DEF TryAgain, Busy, Verifying
<1> QED
  BY <1>1, InternalStutters DEF TryAgain

LEMMA MergeAndReturnReturns ==
  ASSUME pc \in Busy, cursor <= last, NEW v, NEW b, MergeAndReturn(v, b),
         UNCHANGED <<first, last, enableSkip>>
  PROVE  [Promised!Next]_Promised!vars
<1>1. CASE Separated(root, call.begin, call.end)
  BY <1>1, PanicPanics DEF MergeAndReturn
<1>2. CASE Deliver("root")
  BY <1>2, DeliverReturns
<1>3. CASE TryAgain(b)
  BY <1>3, TryAgainStutters
<1> QED
  BY <1>1, <1>2, <1>3 DEF MergeAndReturn

LEMMA InitPromised == Init => Promised!Init
  BY DEF Init, Promised!Init, Phase, Answer, NoOut

LEMMA StepPromised == TypeOK /\ ReadInv /\ [Next]_vars => [Promised!Next]_Promised!vars
<1> SUFFICES ASSUME TypeOK, ReadInv, [Next]_vars PROVE [Promised!Next]_Promised!vars
  OBVIOUS
<1>low. pc \in Busy => cursor <= last
  BY DEF ReadInv, CursorInRange, Busy
<1>busy. {"batch", "seekback", "second", "consensus", "fallback", "direct"} = Busy
  BY DEF Busy, Verifying
<1>1. ASSUME NEW m \in Modes, SetMode(m) PROVE Promised!Next
  <2>1. Phase = "ready" /\ Phase' = "ready" /\ Answer' = Answer
    BY <1>1 DEF SetMode, Phase, Answer
  <2> QED
    BY <1>1, <2>1 DEF SetMode, position, Promised!Next, Promised!Configure
<1>2. ASSUME NEW h \in Overlaps, SetOverlap(h) PROVE UNCHANGED Promised!vars
  BY <1>2 DEF SetOverlap, position, settings, Promised!vars, Phase, Answer
<1>3. ASSUME NEW n \in CacheSizes, CacheModelSize(n) PROVE UNCHANGED Promised!vars
  BY <1>3 DEF CacheModelSize, position, Promised!vars, Phase, Answer
<1>4. ASSUME NEW start \in Bounds, NEW end \in Bounds, SetRange(start, end) PROVE Promised!Next
  <2>1. start \in Int /\ end \in Int /\ cursor \in Int
    BY ReadLoopAssumption DEF TypeOK
  <2>2. first' >= DiscFirst /\ last' <= DiscLast /\ first' \in Int /\ last' \in Int
    BY <1>4, <2>1, ReadLoopAssumption DEF SetRange, Larger, Smaller
  <2>3. cursor' = IF first' <= cursor /\ cursor <= last' THEN cursor ELSE first'
    BY <1>4, <2>1, <2>2 DEF SetRange
  <2>4. Phase = "ready" /\ Phase' = "ready" /\ Answer' = Answer /\ enableSkip' = enableSkip
    BY <1>4 DEF SetRange, settings, Phase, Answer
  <2> QED
    BY <2>2, <2>3, <2>4 DEF Promised!Next, Promised!SetRange
<1>5. CASE SeekPanics
  BY <1>5, PanicPanics DEF SeekPanics, position, settings
<1>6. ASSUME NEW delta \in Moves, NEW whence \in {"start", "current", "end"}, Seek(delta, whence)
      PROVE  Promised!Next
  <2>1. first \in Int /\ last \in Int /\ cursor \in Int /\ delta \in Int
    BY ReadLoopAssumption DEF TypeOK
  <2>. SeekBase(whence) \in Int
    BY <1>6, <2>1 DEF SeekBase
  <2>2. first <= cursor' /\ cursor' <= last
    BY <1>6, <2>1 DEF Seek, Larger, Smaller
  <2>3. Phase = "ready" /\ Phase' = "ready" /\ Answer' = Answer
    BY <1>6 DEF Seek, Phase, Answer
  <2> QED
    BY <1>6, <2>2, <2>3 DEF Seek, settings, Promised!Next, Promised!Seek
<1>7. ASSUME NEW n \in RetryLimits, ReadLimited(n) PROVE [Promised!Next]_Promised!vars
  <2>1. CASE ReadBeyondEnd(n)
    <3>1. Phase = "ready" /\ Phase' = "ready" /\ Answer' = [kind |-> "error", sector |-> cursor]
      BY <2>1 DEF ReadBeyondEnd, Refuse, Phase, Answer
    <3> QED
      BY <2>1, <3>1 DEF ReadBeyondEnd, Refuse, settings, Promised!Next, Promised!Refuse
  <2>2. CASE ReadFromRoot(n)
    BY <2>2, DeliverReturns DEF ReadFromRoot, settings
  <2>3. CASE pc = "idle" /\ pc' \in Busy /\ cursor <= last
             /\ UNCHANGED <<first, last, cursor, enableSkip, out>>
    <3>1. Phase = "ready" /\ Phase' = "reading" /\ Answer' = Answer
      BY <2>3, PhaseIs, PhaseIsNext DEF Answer
    <3> QED
      BY <2>3, <3>1 DEF Promised!Next, Promised!Begin
  <2>4. CASE ReadUnverified(n)
    BY <1>busy, <2>3, <2>4 DEF ReadUnverified, position, settings
  <2>5. CASE StartBatch(n)
    BY <1>busy, <2>3, <2>5 DEF StartBatch, position, settings
  <2> QED
    BY <1>7, <2>1, <2>2, <2>4, <2>5 DEF ReadLimited
<1>8. CASE DirectRead
  BY <1>8, <1>low, <1>busy, DeliverReturns, FailedReturns DEF DirectRead, settings
<1>9. CASE LastRead
  BY <1>9, <1>low, <1>busy, DeliverReturns, FailedReturns DEF LastRead, settings
<1>10. CASE BatchRecognised \/ SecondMatches
  BY <1>10, <1>low, <1>busy, MergeAndReturnReturns DEF BatchRecognised, SecondMatches, settings
<1>11. CASE BatchUnknown \/ SecondDiffers \/ ConsensusRead \/ ConsensusReadFails
  <2>1. pc \in Busy /\ pc' \in Busy /\ UNCHANGED <<first, last, cursor, enableSkip, out>>
    BY <1>11, <1>busy DEF BatchUnknown, SecondDiffers, ConsensusRead, ConsensusReadFails, AnotherRead,
                          position, settings
  <2> QED
    BY <2>1, InternalStutters
<1>12. CASE BatchFails
  <2>1. pc \in Busy /\ UNCHANGED <<first, last, enableSkip>>
    BY <1>12, <1>busy DEF BatchFails, settings
  <2>2. CASE TryAgain(RecordError(backoff, cursor))
    BY <2>1, <2>2, TryAgainStutters
  <2>3. CASE pc' = "seekback" /\ UNCHANGED <<cursor, out>>
    BY <1>busy, <2>1, <2>3, InternalStutters
  <2>4. CASE Failed
    BY <1>low, <2>1, <2>4, FailedReturns
  <2> QED
    BY <1>12, <2>2, <2>3, <2>4 DEF BatchFails
<1>13. CASE SeekAway \/ ConsensusStarved
  BY <1>13, <1>busy, TryAgainStutters DEF SeekAway, ConsensusStarved, settings
<1>14. CASE SecondFails
  <2>1. pc \in Busy /\ UNCHANGED <<first, last, enableSkip>>
    BY <1>14, <1>busy DEF SecondFails, settings
  <2>2. CASE TryAgain(RecordError(backoff, cursor))
    BY <2>1, <2>2, TryAgainStutters
  <2>3. CASE pc' = "seekback" /\ UNCHANGED <<cursor, out>>
    BY <1>busy, <2>1, <2>3, InternalStutters
  <2> QED
    BY <1>14, <2>2, <2>3 DEF SecondFails
<1>15. CASE JitterSearchPanics \/ OffsetSearchPanics
  BY <1>15, PanicPanics DEF JitterSearchPanics, OffsetSearchPanics, position, settings
<1>16. CASE ConsensusVote
  <2>1. PICK w : MergeAndReturn(w, backoff)
    BY <1>16 DEF ConsensusVote
  <2> QED
    BY <1>16, <1>low, <1>busy, <2>1, MergeAndReturnReturns DEF ConsensusVote, settings
<1>17. CASE UNCHANGED vars
  BY <1>17 DEF vars, position, settings, Promised!vars, Phase, Answer
<1> QED
  BY <1>1, <1>2, <1>3, <1>4, <1>5, <1>6, <1>7, <1>8, <1>9, <1>10, <1>11, <1>12, <1>13, <1>14,
     <1>15, <1>16, <1>17 DEF Next, Caller, Reader

(* Reads answer in order: each returns the frame at the cursor and moves   *)
(* one on, or silence where skipping is enabled, or an error in place.     *)
THEOREM ReadsAnswerInOrder == Spec => ReadsInOrder
<1>1. TypeOK /\ ReadInv /\ [Next]_vars => [Promised!Next]_Promised!vars
  BY StepPromised
<1> QED
  BY <1>1, InitPromised, ReadInvariant, PTL DEF Spec, ReadsInOrder, Promised!Spec

-----------------------------------------------------------------------------
(* While a verified read is under way the root does not have its frame;    *)
(* what it answered without the root is not verified there until the next  *)
(* read, whatever seeks and ranges come between.                           *)

Unvouched == {"silence", "lastread", "direct"}

FlagInv ==
  /\ mode # {} /\ pc # "direct"
  /\ pc \in Verifying => ~Covers(root, cursor)
  /\ (pc = "idle" /\ out.source \in Unvouched) => ~FrameVerified(root, out.sector)

LEMMA EmptyCoversNothing ==
  ASSUME NEW r, r.begin = r.end, r.begin \in Int, NEW s \in Int
  PROVE  ~Covers(r, s)
  BY DEF Covers

LEMMA FlagInit == Init => FlagInv
  BY DEF Init, FlagInv, NoOut, Verifying, Unvouched

(* Each way to end a step, where the root it leaves does not have the frame. *)
LEMMA DeliverFlag ==
  ASSUME FlagInv, NEW source, Deliver(source), mode' = mode,
         source \in Unvouched => root' = root /\ ~Covers(root, cursor)
  PROVE  FlagInv'
  BY DEF FlagInv, Deliver, Verifying, FrameVerified

LEMMA RefuseFlag ==
  ASSUME FlagInv, NEW why, why \notin Unvouched, Refuse(why), mode' = mode
  PROVE  FlagInv'
  BY DEF FlagInv, Refuse, Verifying

LEMMA TryAgainFlag ==
  ASSUME FlagInv, NEW b, TryAgain(b), mode' = mode, ~Covers(root', cursor)
  PROVE  FlagInv'
  BY DEF FlagInv, TryAgain, Verifying

LEMMA FailedFlag ==
  ASSUME FlagInv, pc \in Verifying, Failed, mode' = mode, root' = root
  PROVE  FlagInv'
<1>1. ~Covers(root, cursor)
  BY DEF FlagInv
<1> QED
  BY <1>1, DeliverFlag, RefuseFlag DEF Failed, Unvouched

LEMMA MergeAndReturnFlag ==
  ASSUME FlagInv, NEW verified, NEW b, MergeAndReturn(verified, b), mode' = mode
  PROVE  FlagInv'
<1>1. CASE Separated(root, call.begin, call.end)
  BY <1>1 DEF MergeAndReturn, FlagInv, Verifying
<1>2. CASE ~Separated(root, call.begin, call.end)
  BY <1>2, DeliverFlag, TryAgainFlag DEF MergeAndReturn, Unvouched
<1> QED
  BY <1>1, <1>2

(* Where the read goes on with the root it had. *)
LEMMA StillFlag ==
  ASSUME FlagInv, pc \in Verifying, pc' \in Verifying \cup {"panicked"},
         UNCHANGED <<mode, root, cursor>>
  PROVE  FlagInv'
  BY DEF FlagInv, Verifying

LEMMA FlagStep ==
  ASSUME {} \notin Modes
  PROVE  TypeOK /\ FlagInv /\ [Next]_vars => FlagInv'
<1> SUFFICES ASSUME TypeOK, FlagInv, [Next]_vars PROVE FlagInv'
  OBVIOUS
<1>1. CASE UNCHANGED vars
  BY <1>1 DEF FlagInv, vars, position, settings, FrameVerified, Covers
<1>2. CASE Caller
  <2>1. CASE \E m \in Modes : SetMode(m)
    BY <2>1 DEF SetMode, FlagInv, FrameVerified, Covers, Verifying
  <2>2. CASE \E h \in Overlaps : SetOverlap(h)
    BY <2>2 DEF SetOverlap, position, settings, FlagInv, FrameVerified, Covers, Verifying
  <2>3. CASE \E n \in CacheSizes : CacheModelSize(n)
    BY <2>3 DEF CacheModelSize, FlagInv, FrameVerified, Covers, Verifying
  <2>4. CASE \E start, end \in Bounds : SetRange(start, end)
    BY <2>4 DEF SetRange, settings, FlagInv, FrameVerified, Covers, Verifying
  <2>5. CASE SeekPanics
    BY <2>5 DEF SeekPanics, settings, FlagInv, Verifying
  <2>6. CASE \E delta \in Moves, whence \in {"start", "current", "end"} : Seek(delta, whence)
    <3>1. pc = "idle" /\ pc' = pc /\ out' = out /\ mode' = mode /\ root' = EmptyRoot
      BY <2>6 DEF Seek, settings
    <3>2. out.sector \in Int
      BY DEF TypeOK, Outs
    <3>3. ~Covers(EmptyRoot, out.sector)
      BY <3>2, EmptyCoversNothing DEF EmptyRoot
    <3> QED
      BY <3>1, <3>3 DEF FlagInv, FrameVerified, Verifying
  <2>7. CASE \E n \in RetryLimits : ReadLimited(n)
    <3>1. PICK n \in RetryLimits : ReadLimited(n)
      BY <2>7
    <3>2. CASE ReadBeyondEnd(n)
      BY <3>2, RefuseFlag DEF ReadBeyondEnd, settings, Unvouched
    <3>3. ~ReadUnverified(n)
      BY DEF ReadUnverified, FlagInv
    <3>4. CASE ReadFromRoot(n)
      BY <3>4, DeliverFlag DEF ReadFromRoot, settings, Unvouched
    <3>5. CASE StartBatch(n)
      <4>1. ~Covers(root, cursor)
        <5>1. root.begin \in Int /\ cursor \in Int
          BY DEF TypeOK, Roots
        <5> QED
          BY <3>5, <5>1, EmptyCoversNothing DEF StartBatch, IsEmpty
      <4>2. pc' \in {"batch", "fallback"} /\ root' = root /\ cursor' = cursor /\ mode' = mode
        BY <3>5 DEF StartBatch, position, settings
      <4> QED
        BY <4>1, <4>2 DEF FlagInv, Covers
    <3> QED
      BY <3>1, <3>2, <3>3, <3>4, <3>5 DEF ReadLimited
  <2> QED
    BY <1>2, <2>1, <2>2, <2>3, <2>4, <2>5, <2>6, <2>7 DEF Caller
<1>3. CASE Reader
  <2>1. ~DirectRead
    BY DEF DirectRead, FlagInv
  <2>2. CASE LastRead
    <3>1. pc \in Verifying /\ mode' = mode /\ root' = root /\ ~Covers(root, cursor)
      BY <2>2 DEF LastRead, settings, Verifying, FlagInv
    <3> QED
      BY <2>2, <3>1, DeliverFlag, FailedFlag DEF LastRead
  <2>3. CASE BatchRecognised
    BY <2>3, MergeAndReturnFlag DEF BatchRecognised, settings
  <2>4. CASE SecondMatches
    BY <2>4, MergeAndReturnFlag DEF SecondMatches, settings
  <2>5. CASE ConsensusVote
    BY <2>5, MergeAndReturnFlag DEF ConsensusVote, settings
  <2>6. CASE BatchUnknown \/ SecondDiffers \/ JitterSearchPanics \/ ConsensusRead
             \/ ConsensusReadFails \/ OffsetSearchPanics
    <3>1. /\ pc \in Verifying /\ pc' \in Verifying \cup {"panicked"}
          /\ UNCHANGED <<mode, root, cursor>>
      BY <2>6 DEF BatchUnknown, SecondDiffers, JitterSearchPanics, ConsensusRead, AnotherRead,
                  ConsensusReadFails, OffsetSearchPanics, position, settings, Verifying
    <3> QED
      BY <3>1, StillFlag
  <2>7. CASE BatchFails
    <3>1. pc \in Verifying /\ mode' = mode /\ root' = root /\ ~Covers(root, cursor)
      BY <2>7 DEF BatchFails, settings, Verifying, FlagInv
    <3> QED
      BY <2>7, <3>1, TryAgainFlag, FailedFlag, StillFlag DEF BatchFails, Verifying
  <2>8. CASE SecondFails
    <3>1. pc \in Verifying /\ mode' = mode /\ root' = root /\ ~Covers(root, cursor)
      BY <2>8 DEF SecondFails, settings, Verifying, FlagInv
    <3> QED
      BY <2>8, <3>1, TryAgainFlag, StillFlag DEF SecondFails, Verifying
  <2>9. CASE SeekAway \/ ConsensusStarved
    <3>1. pc \in Verifying /\ mode' = mode /\ root' = root /\ ~Covers(root, cursor)
      BY <2>9 DEF SeekAway, ConsensusStarved, settings, Verifying, FlagInv
    <3> QED
      BY <2>9, <3>1, TryAgainFlag DEF SeekAway, ConsensusStarved
  <2> QED
    BY <1>3, <2>1, <2>2, <2>3, <2>4, <2>5, <2>6, <2>7, <2>8, <2>9 DEF Reader
<1> QED
  BY <1>1, <1>2, <1>3 DEF Next

(* A caller that never turns verification off is never told by             *)
(* last_frame_verified that silence or a single read was verified.         *)
THEOREM VerifiedComesFromRoot ==
  ASSUME {} \notin Modes
  PROVE  Spec => []VerifiedMeansFromRoot
<1>1. FlagInv => VerifiedMeansFromRoot
  BY DEF FlagInv, VerifiedMeansFromRoot, Unvouched
<1>2. TypeOK /\ FlagInv /\ [Next]_vars => FlagInv'
  BY FlagStep
<1> QED
  BY <1>1, <1>2, FlagInit, TypeCorrect, PTL DEF Spec

-----------------------------------------------------------------------------
(* The cache *)

LEMMA TrimmedLength ==
  ASSUME TypeOK, NEW x \in Extent
  PROVE  Len(TrimCache(Append(cache, x))) <= CacheLimit
<1> DEFINE c == Append(cache, x)
<1>1. c \in Seq(Extent) /\ Len(c) \in Nat
  BY DEF TypeOK
<1>2. CacheLimit \in Nat \ {0}
  BY ReadLoopAssumption DEF CacheLimit, Larger, TypeOK
<1>3. CASE Len(c) > CacheLimit
  <2>1. Len(SubSeq(c, Len(c) - CacheLimit + 1, Len(c))) = CacheLimit
    BY <1>1, <1>2, <1>3
  <2> QED
    BY <1>2, <1>3, <2>1 DEF TrimCache
<1>4. CASE ~(Len(c) > CacheLimit)
  BY <1>1, <1>2, <1>4 DEF TrimCache
<1> QED
  BY <1>3, <1>4

LEMMA MergeTrims ==
  ASSUME TypeOK, NEW verified, NEW b, MergeAndReturn(verified, b), UNCHANGED settings
  PROVE  ~(Len(cache') > CacheLimit')
<1> DEFINE x == [begin |-> call.begin, end |-> call.end]
<1>1. x \in Extent
  BY DEF TypeOK, Calls, Extent
<1>2. cache' = TrimCache(Append(cache, x)) /\ CacheLimit' = CacheLimit
  BY DEF MergeAndReturn, settings, CacheLimit
<1>3. Len(cache') <= CacheLimit
  BY <1>1, <1>2, TrimmedLength
<1>4. cache' \in Seq(Extent) /\ CacheLimit \in Nat
  BY <1>1, <1>2, CacheType, ReadLoopAssumption DEF TypeOK, CacheLimit, Larger
<1> QED
  BY <1>2, <1>3, <1>4

LEMMA StepBounds == TypeOK /\ [Next]_vars => [Len(cache') > CacheLimit' => cache' = cache]_vars
<1> SUFFICES ASSUME TypeOK, Next, cache' # cache PROVE ~(Len(cache') > CacheLimit')
  OBVIOUS
<1>1. CASE \E delta \in Moves, whence \in {"start", "current", "end"} : Seek(delta, whence)
  <2>1. cache' = <<>> /\ cacheModel' = cacheModel
    BY <1>1 DEF Seek, settings
  <2>2. CacheLimit' \in Nat
    BY <2>1, ReadLoopAssumption DEF CacheLimit, Larger, TypeOK
  <2> QED
    BY <2>1, <2>2
<1>2. CASE BatchRecognised \/ SecondMatches \/ ConsensusVote
  BY <1>2, MergeTrims DEF BatchRecognised, SecondMatches, ConsensusVote, settings
<1>3. CASE Caller /\ ~(\E delta \in Moves, whence \in {"start", "current", "end"} : Seek(delta, whence))
  BY <1>3 DEF Caller, SetMode, SetOverlap, CacheModelSize, SetRange, SeekPanics, ReadLimited,
              ReadBeyondEnd, ReadUnverified, ReadFromRoot, StartBatch
<1>4. CASE Reader /\ ~(BatchRecognised \/ SecondMatches \/ ConsensusVote)
  BY <1>4 DEF Reader, DirectRead, LastRead, BatchUnknown, BatchFails, SeekAway, SecondFails,
              SecondDiffers, JitterSearchPanics, ConsensusRead, ConsensusReadFails,
              OffsetSearchPanics, ConsensusStarved
<1> QED
  BY <1>1, <1>2, <1>3, <1>4 DEF Next

(* No push leaves the cache above its limit, whatever limits the caller    *)
(* sets and however many batches are read.                                 *)
THEOREM CacheBounded == Spec => CacheStaysBounded
  BY StepBounds, TypeCorrect, PTL DEF Spec, CacheStaysBounded

-----------------------------------------------------------------------------
(* The ladder of backoffs *)

LEMMA PowerOfTwoSteps ==
  /\ PowerOfTwo \in [Nat -> Nat] /\ PowerOfTwo[0] = 1
  /\ \A n \in Nat : PowerOfTwo[n + 1] = 2 * PowerOfTwo[n]
<1> DEFINE N == Nat
           Double == [x \in N \X Nat |-> 2 * x[1]]
           Def(f) == f = [n \in Nat |-> IF n = 0 THEN 1 ELSE 2 * f[n - 1]]
<1>1. 1 \in N /\ Double \in Steps(N)
  BY DEF Steps
<1>2. \A f \in [Nat -> N], n \in Nat : Double[<<f[n], n>>] = 2 * f[n]
  OBVIOUS
<1>3. PICK f : f \in [Nat -> N] /\ f[0] = 1 /\ \A n \in Nat : f[n + 1] = Double[<<f[n], n>>]
  <2> HIDE DEF N, Double
  <2> QED BY <1>1, Iteration
<1>4. ASSUME NEW n \in Nat
      PROVE  f[n] = IF n = 0 THEN 1 ELSE 2 * f[n - 1]
  <2>1. CASE n = 0
    BY <1>3, <2>1
  <2>2. CASE n # 0
    <3>1. n - 1 \in Nat /\ n - 1 + 1 = n
      BY <2>2
    <3>2. f[n - 1 + 1] = 2 * f[n - 1]
      BY <1>2, <1>3, <3>1
    <3> QED BY <2>2, <3>1, <3>2
  <2> QED BY <2>1, <2>2
<1>5. Def(f)
  BY <1>3, <1>4
<1>6. PowerOfTwo = CHOOSE g : Def(g)
  BY DEF PowerOfTwo
<1>7. Def(PowerOfTwo)
  <2> HIDE DEF Def
  <2> QED BY <1>5, <1>6
<1> DEFINE P == PowerOfTwo
<1> HIDE DEF P
<1>8. P = [n \in Nat |-> IF n = 0 THEN 1 ELSE 2 * P[n - 1]]
  BY <1>7 DEF P
<1>9. P[0] = 1 /\ \A n \in Nat : P[n + 1] = 2 * P[n]
  <2>1. ASSUME NEW n \in Nat PROVE P[n + 1] = 2 * P[n]
    <3>1. n + 1 \in Nat /\ n + 1 # 0 /\ n + 1 - 1 = n
      OBVIOUS
    <3> QED BY <1>8, <3>1
  <2> QED BY <1>8, <2>1
<1>10. \A n \in Nat : P[n] \in Nat
  <2> DEFINE S == {n \in Nat : P[n] \in Nat}
  <2>1. 0 \in S /\ \A n \in Nat : n \in S => n + 1 \in S
    BY <1>9
  <2>2. \A n \in Nat : n \in S
    <3> HIDE DEF S
    <3> QED BY <2>1, InductionOnSet
  <2> QED BY <2>2
<1>11. P \in [Nat -> Nat]
  BY <1>8, <1>10
<1> QED BY <1>9, <1>11 DEF P

OnLadder(b) ==
  /\ b.backoffCount <= MaxBackoffs
  /\ b.sectors = AtMost(BaseSectors * PowerOfTwo[b.backoffCount], MaxSectors)
  /\ b.delay = AtMost(BaseDelay * PowerOfTwo[b.backoffCount], MaxDelay)

LEMMA FreshOnLadder == OnLadder(Fresh)
<1>1. BaseSectors * 1 = BaseSectors /\ BaseDelay * 1 = BaseDelay
  BY BackoffAssumption
<1> QED
  BY <1>1, PowerOfTwoSteps, BackoffAssumption, ReadLoopAssumption DEF OnLadder, Fresh, AtMost

LEMMA RecordErrorOnLadder ==
  ASSUME NEW b \in Strategy, OnLadder(b), NEW s \in Int
  PROVE  OnLadder(RecordError(b, s))
<1>1. ASSUME NEW n \in Nat, NEW c \in Strategy, OnLadder(c)
      PROVE  /\ OnLadder([c EXCEPT !.errorCount = n])
             /\ OnLadder([c EXCEPT !.errorCount = n, !.lastError = s])
  BY <1>1 DEF OnLadder, Strategy
<1>2. Fresh \in Strategy /\ OnLadder(Fresh)
  BY FreshStrategy, FreshOnLadder
<1>3. b.errorCount + 1 \in Nat
  BY DEF Strategy
<1> QED
  BY <1>1, <1>2, <1>3 DEF RecordError

LEMMA ClimbOnLadder ==
  ASSUME NEW b \in Strategy, OnLadder(b), b.backoffCount < MaxBackoffs
  PROVE  OnLadder(RecordBackoff(b))
<1> DEFINE n == b.backoffCount
           c == RecordBackoff(b)
<1>1. n \in Nat /\ PowerOfTwo[n] \in Nat /\ PowerOfTwo[n + 1] = 2 * PowerOfTwo[n]
  BY PowerOfTwoSteps DEF Strategy
<1>2. ASSUME NEW base \in Nat, NEW limit \in Nat, NEW p \in Nat, NEW q, q = 2 * p
      PROVE  AtMost(2 * AtMost(base * p, limit), limit) = AtMost(base * q, limit)
  <2>1. base * p \in Nat /\ base * q = 2 * (base * p)
    BY <1>2
  <2> QED BY <2>1 DEF AtMost
<1>3. /\ c.backoffCount = n + 1
      /\ c.sectors = AtMost(2 * b.sectors, MaxSectors)
      /\ c.delay = AtMost(2 * b.delay, MaxDelay)
  BY DEF RecordBackoff, Strategy
<1>4. n + 1 <= MaxBackoffs
  BY <1>1, ReadLoopAssumption
<1>5. BaseSectors \in Nat /\ MaxSectors \in Nat /\ BaseDelay \in Nat /\ MaxDelay \in Nat
  BY BackoffAssumption
<1>6. /\ b.sectors = AtMost(BaseSectors * PowerOfTwo[n], MaxSectors)
      /\ b.delay = AtMost(BaseDelay * PowerOfTwo[n], MaxDelay)
  BY DEF OnLadder
<1> HIDE DEF n, c
<1>7. /\ c.sectors = AtMost(BaseSectors * PowerOfTwo[n + 1], MaxSectors)
      /\ c.delay = AtMost(BaseDelay * PowerOfTwo[n + 1], MaxDelay)
  BY <1>1, <1>2, <1>3, <1>5, <1>6
<1> QED
  BY <1>3, <1>4, <1>7 DEF OnLadder, c

LadderInv ==
  /\ OnLadder(backoff)
  /\ pc = "seekback" => backoff.backoffCount < MaxBackoffs

LEMMA ResetOnLadder ==
  ASSUME NEW b \in Strategy
  PROVE  OnLadder(ResetErrorState(b))
  BY ResetIsFresh, FreshOnLadder

LEMMA TryAgainLadder ==
  ASSUME NEW b \in Strategy, OnLadder(b), TryAgain(b)
  PROVE  LadderInv'
<1>1. OnLadder(backoff')
  BY ResetOnLadder DEF TryAgain
<1>2. pc' # "seekback"
  BY DEF TryAgain
<1> QED BY <1>1, <1>2 DEF LadderInv, OnLadder

LEMMA MergeAndReturnLadder ==
  ASSUME NEW v, NEW b \in Strategy, OnLadder(b), MergeAndReturn(v, b)
  PROVE  LadderInv'
<1>1. CASE TryAgain(b)
  BY <1>1, TryAgainLadder
<1>2. CASE pc' \in {"panicked", "idle"} /\ backoff' \in {b, ResetErrorState(b)}
  BY <1>2, ResetOnLadder DEF LadderInv, OnLadder
<1> QED BY <1>1, <1>2 DEF MergeAndReturn, Deliver

LEMMA LadderStep == TypeOK /\ LadderInv /\ [Next]_vars => LadderInv'
<1> SUFFICES ASSUME TypeOK, LadderInv, [Next]_vars PROVE LadderInv'
  OBVIOUS
<1>0. backoff \in Strategy /\ cursor \in Int /\ OnLadder(backoff)
  BY DEF TypeOK, LadderInv
<1>1. RecordError(backoff, cursor) \in Strategy /\ OnLadder(RecordError(backoff, cursor))
  BY <1>0, RecordErrorType, RecordErrorOnLadder
<1>2. RecordSuccess(backoff, cursor) \in Strategy /\ OnLadder(RecordSuccess(backoff, cursor))
  BY <1>0, RecordSuccessType, ResetOnLadder DEF RecordSuccess
<1>3. ASSUME pc' # "seekback", NEW b \in Strategy, OnLadder(b),
             backoff' \in {b, ResetErrorState(b)}
      PROVE  LadderInv'
  BY <1>3, ResetOnLadder DEF LadderInv, OnLadder
<1>4. ASSUME pc' = "seekback", ~ShouldGiveUp(RecordError(backoff, cursor), MaxBackoffs),
             backoff' = RecordError(backoff, cursor)
      PROVE  LadderInv'
  <2>1. backoff'.backoffCount \in Nat /\ ~(backoff'.backoffCount >= MaxBackoffs)
    BY <1>1, <1>4 DEF ShouldGiveUp, Strategy
  <2>2. backoff'.backoffCount < MaxBackoffs
    BY <2>1, ReadLoopAssumption
  <2> QED BY <1>1, <1>4, <2>2 DEF LadderInv, OnLadder
<1>5. CASE UNCHANGED vars
  BY <1>5 DEF vars, LadderInv, OnLadder
<1>6. CASE Caller
  <2>1. backoff' \in {backoff, ResetErrorState(backoff)}
    BY <1>6 DEF Caller, SetMode, SetOverlap, CacheModelSize, SetRange, SeekPanics, Seek, ReadLimited,
                ReadBeyondEnd, ReadUnverified, ReadFromRoot, StartBatch
  <2>2. pc' # "seekback"
    BY <1>6 DEF Caller, SetMode, SetOverlap, CacheModelSize, SetRange, SeekPanics, Seek, ReadLimited,
                ReadBeyondEnd, ReadUnverified, ReadFromRoot, StartBatch, Refuse, Deliver
  <2> QED BY <1>0, <1>3, <2>1, <2>2
<1>7. CASE DirectRead \/ LastRead
  BY <1>0, <1>3, <1>7 DEF DirectRead, LastRead, Failed, Deliver, Refuse
<1>8. CASE BatchRecognised
  BY <1>2, <1>8, MergeAndReturnLadder DEF BatchRecognised
<1>9. CASE SecondMatches \/ ConsensusVote
  BY <1>0, <1>9, MergeAndReturnLadder DEF SecondMatches, ConsensusVote
<1>10. CASE BatchUnknown
  BY <1>2, <1>3, <1>10 DEF BatchUnknown
<1>11. CASE BatchFails
  <2>1. CASE TryAgain(RecordError(backoff, cursor))
    BY <1>1, <2>1, TryAgainLadder
  <2>2. CASE /\ ~ShouldGiveUp(RecordError(backoff, cursor), MaxBackoffs)
             /\ pc' = "seekback" /\ backoff' = RecordError(backoff, cursor)
    BY <1>4, <2>2
  <2>3. CASE backoff' = ResetErrorState(RecordError(backoff, cursor)) /\ Failed
    BY <1>1, <1>3, <2>3 DEF Failed, Deliver, Refuse
  <2> QED BY <1>11, <2>1, <2>2, <2>3 DEF BatchFails
<1>12. CASE SecondFails
  <2>1. CASE TryAgain(RecordError(backoff, cursor))
    BY <1>1, <2>1, TryAgainLadder
  <2>2. CASE /\ ~ShouldGiveUp(RecordError(backoff, cursor), MaxBackoffs)
             /\ pc' = "seekback" /\ backoff' = RecordError(backoff, cursor)
    BY <1>4, <2>2
  <2> QED BY <1>12, <2>1, <2>2 DEF SecondFails
<1>13. CASE SeekAway
  <2>1. backoff.backoffCount < MaxBackoffs
    BY <1>13 DEF SeekAway, LadderInv
  <2>2. RecordBackoff(backoff) \in Strategy /\ OnLadder(RecordBackoff(backoff))
    BY <1>0, <2>1, ClimbOnLadder, RecordBackoffType
  <2> QED BY <1>13, <2>2, TryAgainLadder DEF SeekAway
<1>14. CASE SecondDiffers \/ JitterSearchPanics \/ ConsensusRead \/ ConsensusReadFails
            \/ OffsetSearchPanics
  <2>1. pc' # "seekback" /\ backoff' \in {backoff, RecordError(backoff, cursor)}
    BY <1>14 DEF SecondDiffers, JitterSearchPanics, ConsensusRead, ConsensusReadFails, AnotherRead,
                 OffsetSearchPanics
  <2> QED BY <1>0, <1>1, <1>3, <2>1
<1>15. CASE ConsensusStarved
  BY <1>0, <1>15, TryAgainLadder DEF ConsensusStarved
<1> QED
  BY <1>5, <1>6, <1>7, <1>8, <1>9, <1>10, <1>11, <1>12, <1>13, <1>14, <1>15
     DEF Next, Reader

(* Whatever the limits and however errors and successes follow each other, *)
(* distance and pause are the powers of two that the number of backoffs at *)
(* this sector says, up to their limits, and that number stays within the  *)
(* limit after which the read gives up.                                    *)
THEOREM BackoffsClimbLadder == Spec => []BackoffLadder
<1>1. Init => LadderInv
  BY FreshOnLadder DEF Init, LadderInv, OnLadder
<1>2. LadderInv => BackoffLadder
  BY DEF LadderInv, OnLadder, BackoffLadder
<1> QED
  BY <1>1, <1>2, LadderStep, TypeCorrect, PTL DEF Spec

-----------------------------------------------------------------------------
(* What the reader keeps of the disc: while a verified read is under way   *)
(* the root does not have its frame, and between reads there is no batch.  *)

KeepInv ==
  /\ pc \in Verifying => ~Covers(root, cursor)
  /\ pc = "idle" => call = NoCall

Kept == KeepInv' /\ [Keeper!Next]_Keeper!vars

LEMMA KeepInit == Init => KeepInv /\ Keeper!Init
  BY ReadLoopAssumption DEF Init, KeepInv, Verifying, Keeper!Init, Keeper!EmptyRoot, EmptyRoot,
                            MergePanicked

LEMMA StillKept ==
  ASSUME KeepInv, pc \in Verifying, pc' \in Verifying, UNCHANGED <<root, cursor>>
  PROVE  Kept
<1>1. KeepInv'
  BY DEF KeepInv, Covers, Verifying
<1>2. MergePanicked = FALSE /\ MergePanicked' = FALSE
  BY DEF MergePanicked, Verifying
<1> QED
  BY <1>1, <1>2 DEF Kept, Keeper!vars

LEMMA DeliverKept ==
  ASSUME TypeOK, pc # "panicked", NEW source, Deliver(source), root' = root
  PROVE  Kept
<1>1. KeepInv'
  BY DEF KeepInv, Deliver, Verifying
<1>2. MergePanicked = FALSE /\ MergePanicked' = FALSE
  BY DEF MergePanicked, Deliver
<1>3. cursor' \in Int
  BY DEF TypeOK, Deliver
<1> QED
  BY <1>1, <1>2, <1>3 DEF Kept, Keeper!Next, Keeper!Move

LEMMA RefuseKept ==
  ASSUME pc # "panicked", NEW why, Refuse(why), root' = root
  PROVE  Kept
<1>1. KeepInv'
  BY DEF KeepInv, Refuse, Verifying
<1>2. MergePanicked = FALSE /\ MergePanicked' = FALSE
  BY DEF MergePanicked, Refuse
<1> QED
  BY <1>1, <1>2 DEF Kept, Keeper!vars, Refuse

LEMMA FailedKept ==
  ASSUME TypeOK, pc # "panicked", Failed, root' = root
  PROVE  Kept
  BY DeliverKept, RefuseKept DEF Failed

LEMMA TryAgainKept ==
  ASSUME KeepInv, pc \in Verifying, NEW b, TryAgain(b), root' = root
  PROVE  Kept
<1>1. pc' \in Verifying /\ cursor' = cursor
  BY DEF TryAgain, Verifying
<1> QED
  BY <1>1, StillKept

(* A batch of the read in progress, merged or not. *)
LEMMA MergeAndReturnKept ==
  ASSUME TypeOK, ReadInv, KeepInv, pc \in Verifying, NEW b,
         NEW verified \in SUBSET Halves(call.begin, call.end), MergeAndReturn(verified, b)
  PROVE  Kept
<1> DEFINE v == Halves(call.begin, call.end) \cap root'.verified
<1>1. /\ cursor \in Int /\ call.begin \in Int /\ call.end \in Int
      /\ root \in Roots /\ DiscFirst \in Int /\ DiscLast \in Int
  BY ReadLoopAssumption DEF TypeOK, Calls
<1>2. call.begin <= cursor /\ cursor < call.end
  BY DEF ReadInv, CallFits
<1>3. call.begin \in DiscFirst .. cursor /\ call.end \in (cursor + 1) .. (DiscLast + 1)
  <2>1. first \in Int /\ last \in Int
    BY DEF TypeOK
  <2>2. DiscFirst <= first /\ first <= call.begin /\ call.end <= last + 1 /\ last <= DiscLast
    BY DEF ReadInv, CallFits, CursorInRange
  <2> QED
    BY <1>1, <1>2, <2>1, <2>2
<1>4. MergePanicked = FALSE /\ ~Covers(root, cursor)
  BY DEF MergePanicked, KeepInv, Verifying
<1>5. CASE Separated(root, call.begin, call.end)
  <2>1. pc' = "panicked" /\ UNCHANGED <<cursor, root, call>>
    BY <1>5 DEF MergeAndReturn
  <2>2. MergePanicked' /\ KeepInv'
    BY <1>1, <1>2, <1>5, <2>1 DEF MergePanicked, KeepInv, Verifying
  <2>3. Separated(root, cursor, cursor + 1)
    BY <1>1, <1>2, <1>5 DEF Separated, Roots
  <2>4. Keeper!Panic
    BY <1>4, <2>1, <2>2, <2>3 DEF Keeper!Panic, Keeper!Separated, Separated, Keeper!IsEmpty, IsEmpty
  <2> QED
    BY <2>2, <2>4 DEF Kept, Keeper!Next
<1>6. CASE ~Separated(root, call.begin, call.end)
  <2>1. root' = MergeFragment(root, call.begin, call.end, verified)
    BY <1>6 DEF MergeAndReturn
  <2>2. Covers(root', cursor)
    BY <1>1, <1>2, <2>1, MergeCovers DEF ReadInv, RootMeetsCursor
  <2>3. Deliver("root")
    BY <1>6, <2>1, <2>2 DEF MergeAndReturn
  <2>4. KeepInv'
    BY <2>3 DEF KeepInv, Deliver, Verifying
  <2>5. MergePanicked' = FALSE
    BY <2>3 DEF MergePanicked, Deliver
  <2>6. root' = MergeFragment(root, call.begin, call.end, v)
    <3>1. CASE IsEmpty(root)
      <4>1. root'.verified = verified
        BY <2>1, <3>1 DEF MergeFragment
      <4> QED
        BY <2>1, <3>1, <4>1 DEF MergeFragment
    <3>2. CASE ~IsEmpty(root)
      <4>1. root'.verified = root.verified \cup verified
        BY <2>1, <3>2 DEF MergeFragment
      <4>2. root.verified \cup verified = root.verified \cup v
        BY <4>1
      <4> QED
        BY <2>1, <3>2, <4>2 DEF MergeFragment
    <3> QED
      BY <3>1, <3>2
  <2>7. Keeper!Merge(call.begin, call.end, v)
    BY <1>2, <1>4, <1>6, <2>3, <2>5, <2>6 DEF Keeper!Merge, Deliver, Keeper!Separated, Separated,
       Keeper!IsEmpty, IsEmpty, Keeper!Covers, Covers, Keeper!MergeFragment, MergeFragment,
       Keeper!Larger, Larger, Keeper!Smaller, Smaller
  <2> QED
    BY <1>3, <2>4, <2>7 DEF Kept, Keeper!Next, Keeper!Halves, Halves
<1> QED
  BY <1>5, <1>6

(* The two searches that panic: a step of the root's only where the batch  *)
(* stands apart from it.                                                   *)
LEMMA SearchPanicKept ==
  ASSUME TypeOK, ReadInv, pc \in Verifying, pc' = "panicked", UNCHANGED <<cursor, root, call>>
  PROVE  Kept
<1>1. MergePanicked = FALSE /\ KeepInv'
  BY DEF MergePanicked, KeepInv, Verifying
<1>2. CASE ~MergePanicked'
  <2>1. MergePanicked' = FALSE
    BY <1>2 DEF MergePanicked
  <2> QED
    BY <1>1, <2>1 DEF Kept, Keeper!vars
<1>3. CASE MergePanicked'
  <2>1. Separated(root, call.begin, call.end)
    BY <1>3 DEF MergePanicked, Separated, IsEmpty
  <2>2. /\ cursor \in Int /\ call.begin \in Int /\ call.end \in Int
        /\ root.begin \in Int /\ root.end \in Int
    BY DEF TypeOK, Calls, Roots
  <2>3. call.begin <= cursor /\ cursor < call.end
    BY DEF ReadInv, CallFits
  <2>4. Separated(root, cursor, cursor + 1)
    BY <2>1, <2>2, <2>3 DEF Separated
  <2>5. Keeper!Panic
    BY <1>1, <1>3, <2>4 DEF Keeper!Panic, Keeper!Separated, Separated, Keeper!IsEmpty, IsEmpty
  <2> QED
    BY <1>1, <2>5 DEF Kept, Keeper!Next
<1> QED
  BY <1>2, <1>3

(* A call that leaves the reader idle and the root alone. *)
LEMMA IdleKept ==
  ASSUME KeepInv, pc = "idle", pc' = "idle", UNCHANGED <<root, call>>, cursor' \in Int
  PROVE  Kept
<1>1. KeepInv' /\ MergePanicked = FALSE /\ MergePanicked' = FALSE
  BY DEF KeepInv, MergePanicked, Verifying
<1> QED
  BY <1>1 DEF Kept, Keeper!Next, Keeper!Move

LEMMA StepKept == TypeOK /\ ReadInv /\ KeepInv /\ [Next]_vars => Kept
<1> SUFFICES ASSUME TypeOK, ReadInv, KeepInv, [Next]_vars PROVE Kept
  OBVIOUS
<1>1. CASE UNCHANGED vars
  BY <1>1 DEF vars, position, Kept, KeepInv, Covers, Keeper!vars, MergePanicked, Separated, IsEmpty
<1>2. CASE Caller
  <2>int. cursor \in Int
    BY DEF TypeOK
  <2>1. CASE \E m \in Modes : SetMode(m)
    BY <2>int, <2>1, IdleKept DEF SetMode, position
  <2>2. CASE \E h \in Overlaps : SetOverlap(h)
    BY <2>int, <2>2, IdleKept DEF SetOverlap, position
  <2>3. CASE \E n \in CacheSizes : CacheModelSize(n)
    BY <2>int, <2>3, IdleKept DEF CacheModelSize, position
  <2>4. ASSUME NEW start \in Bounds, NEW end \in Bounds, SetRange(start, end) PROVE Kept
    <3>1. start \in Int /\ DiscFirst \in Int
      BY ReadLoopAssumption
    <3>2. first' \in Int
      BY <2>4, <3>1 DEF SetRange, Larger
    <3>3. cursor' \in Int
      BY <2>int, <2>4, <3>2 DEF SetRange
    <3> QED
      BY <2>4, <3>3, IdleKept DEF SetRange
  <2>5. CASE SeekPanics
    <3>1. pc = "idle" /\ pc' = "panicked" /\ call = NoCall /\ UNCHANGED <<cursor, root, call>>
      BY <2>5 DEF SeekPanics, position, KeepInv
    <3>2. MergePanicked = FALSE /\ MergePanicked' = FALSE /\ KeepInv'
      BY <3>1 DEF MergePanicked, NoCall, KeepInv, Verifying
    <3> QED
      BY <3>1, <3>2 DEF Kept, Keeper!vars
  <2>6. ASSUME NEW delta \in Moves, NEW whence \in {"start", "current", "end"}, Seek(delta, whence)
        PROVE  Kept
    <3>1. first \in Int /\ last \in Int /\ delta \in Int
      BY ReadLoopAssumption DEF TypeOK
    <3>2. SeekBase(whence) \in Int
      BY <2>int, <2>6, <3>1 DEF SeekBase
    <3>3. cursor' \in Int
      BY <2>6, <3>1, <3>2 DEF Seek, Larger, Smaller
    <3>4. pc = "idle" /\ pc' = "idle" /\ call' = call /\ root' = EmptyRoot
      BY <2>6 DEF Seek
    <3>5. MergePanicked = FALSE /\ MergePanicked' = FALSE /\ KeepInv'
      BY <3>4 DEF MergePanicked, KeepInv, Verifying
    <3> QED
      BY <3>3, <3>4, <3>5 DEF Kept, Keeper!Next, Keeper!Forget, Keeper!EmptyRoot, EmptyRoot
  <2>7. ASSUME NEW n \in RetryLimits, ReadLimited(n) PROVE Kept
    <3>1. CASE ReadBeyondEnd(n)
      BY <3>1, RefuseKept DEF ReadBeyondEnd
    <3>2. CASE ReadUnverified(n)
      <4>1. pc = "idle" /\ pc' = "direct" /\ UNCHANGED <<root, cursor, call>>
        BY <3>2 DEF ReadUnverified, position
      <4> QED
        BY <4>1 DEF Kept, KeepInv, Verifying, Keeper!vars, MergePanicked
    <3>3. CASE ReadFromRoot(n)
      BY <3>3, DeliverKept DEF ReadFromRoot
    <3>4. CASE StartBatch(n)
      <4>1. ~Covers(root, cursor)
        <5>1. root.begin \in Int
          BY DEF TypeOK, Roots
        <5> QED
          BY <2>int, <3>4, <5>1, EmptyCoversNothing DEF StartBatch, IsEmpty
      <4>2. pc = "idle" /\ pc' \in {"batch", "fallback"} /\ UNCHANGED <<root, cursor>>
        BY <3>4 DEF StartBatch, position
      <4>3. KeepInv' /\ MergePanicked = FALSE /\ MergePanicked' = FALSE
        BY <4>1, <4>2 DEF KeepInv, Covers, MergePanicked
      <4> QED
        BY <4>2, <4>3 DEF Kept, Keeper!vars
    <3> QED
      BY <2>7, <3>1, <3>2, <3>3, <3>4 DEF ReadLimited
  <2> QED
    BY <1>2, <2>1, <2>2, <2>3, <2>4, <2>5, <2>6, <2>7 DEF Caller
<1>3. CASE Reader
  <2>1. CASE DirectRead \/ LastRead
    BY <2>1, DeliverKept, FailedKept DEF DirectRead, LastRead
  <2>2. CASE BatchRecognised \/ SecondMatches
    <3>1. pc \in Verifying
      BY <2>2 DEF BatchRecognised, SecondMatches, Verifying
    <3>2. call.begin \in Int /\ call.end \in Int
      BY DEF TypeOK, Calls
    <3>3. InnerHalves(call.begin, call.end) \in SUBSET Halves(call.begin, call.end)
      BY <3>2 DEF InnerHalves, Halves
    <3> QED
      BY <2>2, <3>1, <3>3, MergeAndReturnKept DEF BatchRecognised, SecondMatches
  <2>3. CASE ConsensusVote
    <3>1. pc \in Verifying
      BY <2>3 DEF ConsensusVote, Verifying
    <3> QED
      BY <2>3, <3>1, MergeAndReturnKept DEF ConsensusVote
  <2>4. CASE BatchUnknown \/ SecondDiffers \/ ConsensusRead \/ ConsensusReadFails
    <3>1. pc \in Verifying /\ pc' \in Verifying /\ UNCHANGED <<root, cursor>>
      BY <2>4 DEF BatchUnknown, SecondDiffers, ConsensusRead, AnotherRead, ConsensusReadFails,
                  position, Verifying
    <3> QED
      BY <3>1, StillKept
  <2>5. CASE JitterSearchPanics \/ OffsetSearchPanics
    <3>1. pc \in Verifying /\ pc' = "panicked" /\ UNCHANGED <<cursor, root, call>>
      BY <2>5 DEF JitterSearchPanics, OffsetSearchPanics, AnotherRead, position, Verifying
    <3> QED
      BY <3>1, SearchPanicKept
  <2>6. CASE BatchFails
    <3>1. pc \in Verifying /\ pc # "panicked" /\ root' = root
      BY <2>6 DEF BatchFails, Verifying
    <3>2. CASE pc' \in Verifying /\ UNCHANGED cursor
      BY <3>1, <3>2, StillKept
    <3> QED
      BY <2>6, <3>1, <3>2, TryAgainKept, FailedKept DEF BatchFails, Verifying
  <2>7. CASE SecondFails
    <3>1. pc \in Verifying /\ root' = root
      BY <2>7 DEF SecondFails, Verifying
    <3>2. CASE pc' \in Verifying /\ UNCHANGED cursor
      BY <3>1, <3>2, StillKept
    <3> QED
      BY <2>7, <3>1, <3>2, TryAgainKept DEF SecondFails, Verifying
  <2>8. CASE SeekAway \/ ConsensusStarved
    <3>1. pc \in Verifying /\ root' = root
      BY <2>8 DEF SeekAway, ConsensusStarved, Verifying
    <3> QED
      BY <2>8, <3>1, TryAgainKept DEF SeekAway, ConsensusStarved
  <2> QED
    BY <1>3, <2>1, <2>2, <2>3, <2>4, <2>5, <2>6, <2>7, <2>8 DEF Reader
<1> QED
  BY <1>1, <1>2, <1>3 DEF Next

(* The root is one gapless stretch that grows by batches which hold the    *)
(* frame at the cursor and touch it; only a seek forgets it; and the merge *)
(* panics only where that frame itself stands apart from the root.         *)
THEOREM RootIsKeptAroundCursor == Spec => RootGrowsAroundCursor
<1>1. TypeOK /\ ReadInv /\ KeepInv /\ [Next]_vars => KeepInv' /\ [Keeper!Next]_Keeper!vars
  BY StepKept DEF Kept
<1> QED
  BY <1>1, KeepInit, ReadInvariant, PTL DEF Spec, RootGrowsAroundCursor, Keeper!Spec
=============================================================================
