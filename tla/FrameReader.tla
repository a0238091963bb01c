---------------------------- MODULE FrameReader ----------------------------
(***************************************************************************)
(* What the reader promises its caller (the documentation of Paranoia's    *)
(* seek, set_range, read and read_limited): a cursor that stays in the     *)
(* range or one past it, and reads that hand out exactly the frame at the  *)
(* cursor and move on by one, or stop where they are.  Nothing is said of  *)
(* drives, caches and retries.                                             *)
(***************************************************************************)
EXTENDS Integers

CONSTANTS Lowest, Highest

VARIABLES first, last, cursor, maySkip, phase, answer
vars == <<first, last, cursor, maySkip, phase, answer>>

Answers == [kind : {"none", "frame", "silence", "error"}, sector : Int]

Init ==
  /\ first = Lowest /\ last = Highest /\ cursor = Lowest
  /\ maySkip \in BOOLEAN
  /\ phase = "ready" /\ answer = [kind |-> "none", sector |-> 0]

Configure ==
  /\ phase = "ready"
  /\ maySkip' \in BOOLEAN
  /\ UNCHANGED <<first, last, cursor, phase, answer>>

SetRange ==
  /\ phase = "ready"
  /\ first' >= Lowest /\ last' <= Highest
  /\ cursor' = IF first' <= cursor /\ cursor <= last' THEN cursor ELSE first'
  /\ UNCHANGED <<maySkip, phase, answer>>

Seek ==
  /\ phase = "ready"
  /\ first <= cursor' /\ cursor' <= last
  /\ UNCHANGED <<first, last, maySkip, phase, answer>>

Begin ==
  /\ phase = "ready" /\ cursor <= last
  /\ phase' = "reading"
  /\ UNCHANGED <<first, last, cursor, maySkip, answer>>

(* a read from what is known already, or after a while *)
Return(kind) ==
  /\ phase \in {"ready", "reading"} /\ cursor <= last
  /\ phase' = "ready"
  /\ answer' = [kind |-> kind, sector |-> cursor]
  /\ cursor' = IF kind = "error" THEN cursor ELSE cursor + 1
  /\ kind = "silence" => maySkip
  /\ kind = "error" => ~maySkip
  /\ UNCHANGED <<first, last, maySkip>>

Refuse ==
  /\ phase = "ready" /\ cursor > last
  /\ answer' = [kind |-> "error", sector |-> cursor]
  /\ UNCHANGED <<first, last, cursor, maySkip, phase>>

(* the one thing the documentation does not mention *)
Panic ==
  /\ phase' = "panicked"
  /\ UNCHANGED <<first, last, cursor, maySkip, answer>>

Next ==
  \/ Configure \/ SetRange \/ Seek \/ Begin \/ Refuse \/ Panic
  \/ \E kind \in {"frame", "silence", "error"} : Return(kind)

Spec == Init /\ [][Next]_vars

(* Every read that was begun returns, or panics.                           *)
ReadsEnd == phase = "reading" ~> phase # "reading"
=============================================================================
