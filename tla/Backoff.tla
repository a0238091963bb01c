------------------------------ MODULE Backoff ------------------------------
(***************************************************************************)
(* The error-recovery strategy of src/backoff.rs, as operators on the      *)
(* strategy's record: every method takes the record it is called on and    *)
(* yields the record it leaves behind.  The two lifetime totals and the    *)
(* time of the last backoff feed no decision and are left out.             *)
(***************************************************************************)
EXTENDS Integers

CONSTANTS
  ErrorThreshold, (* errors at one sector that call for a backoff          *)
  BaseSectors,    (* distance of the first backoff                         *)
  MaxSectors,     (* longest backoff                                       *)
  BaseDelay,      (* milliseconds slept by the first backoff               *)
  MaxDelay,       (* longest sleep                                         *)
  NoSector        (* last_error_sector = None                              *)

ASSUME BackoffAssumption ==
  /\ ErrorThreshold \in Nat \ {0}
  /\ BaseSectors \in Nat \ {0}
  /\ MaxSectors \in Nat /\ BaseSectors <= MaxSectors
  /\ BaseDelay \in Nat
  /\ MaxDelay \in Nat /\ BaseDelay <= MaxDelay
  /\ NoSector \notin Int

Strategy ==
  [errorCount   : Nat,
   backoffCount : Nat,
   sectors      : BaseSectors .. MaxSectors,
   delay        : BaseDelay .. MaxDelay,
   lastError    : Int \cup {NoSector}]

Fresh ==
  [errorCount |-> 0, backoffCount |-> 0, sectors |-> BaseSectors,
   delay |-> BaseDelay, lastError |-> NoSector]

(* record_error: the strategy afterwards ...                               *)
RecordError(b, sector) ==
  IF b.lastError # sector
  THEN [Fresh EXCEPT !.errorCount = 1, !.lastError = sector]
  ELSE [b EXCEPT !.errorCount = @ + 1]

(* ... and its answer: a first error at a sector never calls for a backoff *)
NeedsBackoff(b, sector) ==
  b.lastError = sector /\ b.errorCount + 1 >= ErrorThreshold

ResetErrorState(b) == [b EXCEPT !.errorCount = 0, !.backoffCount = 0,
                                !.sectors = BaseSectors, !.delay = BaseDelay,
                                !.lastError = NoSector]

RecordSuccess(b, sector) ==
  IF b.lastError # NoSector /\ sector > b.lastError THEN ResetErrorState(b) ELSE b

AtMost(n, limit) == IF n <= limit THEN n ELSE limit

RecordBackoff(b) ==
  [b EXCEPT !.errorCount = 0,
            !.backoffCount = @ + 1,
            !.sectors = AtMost(2 * @, MaxSectors),
            !.delay = AtMost(2 * @, MaxDelay)]

(* mutant: one backoff too many *)
ShouldGiveUpLate(b, maxBackoffs) == b.backoffCount > maxBackoffs
ShouldGiveUp(b, maxBackoffs) == b.backoffCount >= maxBackoffs
=============================================================================
