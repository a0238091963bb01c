----------------------------- MODULE RootKeeper -----------------------------
(***************************************************************************)
(* What the read loop keeps of the disc around its cursor, and nothing     *)
(* else of it: one gapless stretch of sectors.  It grows by batches that   *)
(* hold the frame at the cursor and touch the stretch, each of which lets  *)
(* the reader move on by one frame; only a seek forgets it; and the merge  *)
(* fails only where that very frame stands apart from the stretch.         *)
(* ReadLoop keeps the root like this with batches it knows by their        *)
(* extent, and Fragments with batches it knows sample by sample.           *)
(***************************************************************************)
EXTENDS SectorRoot

CONSTANTS Lowest, Highest (* sectors of the disc *)

VARIABLES cursor, root, panicked
vars == <<cursor, root, panicked>>

Init == cursor \in Int /\ root = EmptyRoot /\ panicked = FALSE

(* a seek *)
Forget ==
  /\ ~panicked
  /\ root' = EmptyRoot /\ cursor' \in Int
  /\ UNCHANGED panicked

(* a frame out of the root, or past it, or another range *)
Move ==
  /\ ~panicked
  /\ cursor' \in Int
  /\ UNCHANGED <<root, panicked>>

(* a batch, whichever halves of it come out verified *)
Merge(b, e, verified) ==
  /\ ~panicked
  /\ b <= cursor /\ cursor < e /\ cursor' = cursor + 1
  /\ ~Covers(root, cursor) /\ ~Separated(root, b, e)
  /\ root' = MergeFragment(root, b, e, verified)
  /\ UNCHANGED panicked

Panic ==
  /\ ~panicked /\ panicked'
  /\ Separated(root, cursor, cursor + 1)
  /\ UNCHANGED <<cursor, root>>

Next ==
  \/ \E b \in Lowest .. cursor, e \in (cursor + 1) .. (Highest + 1) :
       Merge(b, e, Halves(b, e) \cap root'.verified)
  \/ Panic \/ Move \/ Forget

Spec == Init /\ [][Next]_vars
=============================================================================
