---------------------------- MODULE PipeOwnership ----------------------------
(***************************************************************************)
(* What the pipe book promises to the displays that share the hardware     *)
(* pipes (overlay.h, the comments of nextPipe and of the usage bitmap): a  *)
(* pipe belongs to one display at a time, it is staged only on the mixer   *)
(* of that display, and it reaches another display only after it has been  *)
(* unset and handed back.                                                  *)
(***************************************************************************)

CONSTANTS
  Pipes,      (* the hardware pipes                    *)
  Displays,   (* the displays that compete for them    *)
  NoDisplay   (* the owner of a pipe nobody owns, not a display *)

VARIABLES
  owner,      (* owner[p]: the display that may use p                     *)
  staged,     (* staged[p]: the mixer p is set on in the kernel           *)
  playing     (* the pipes that scan out a buffer                         *)

ovars == <<owner, staged, playing>>

Init ==
  /\ owner   = [p \in Pipes |-> NoDisplay]
  /\ staged  = [p \in Pipes |-> NoDisplay]
  /\ playing = {}

(* A free pipe is given to a display. *)
Acquire(p, d) ==
  /\ owner[p] = NoDisplay
  /\ owner' = [owner EXCEPT ![p] = d]
  /\ UNCHANGED <<staged, playing>>

(* The owner sets the pipe on its mixer. *)
Stage(p) ==
  /\ owner[p] # NoDisplay
  /\ staged' = [staged EXCEPT ![p] = owner[p]]
  /\ UNCHANGED <<owner, playing>>

(* A buffer is queued to a pipe that is set. *)
Play(p) ==
  /\ staged[p] # NoDisplay
  /\ playing' = playing \cup {p}
  /\ UNCHANGED <<owner, staged>>

(* Pipes are handed back, and are unset in the same step. *)
Release(S) ==
  /\ owner'   = [p \in Pipes |-> IF p \in S THEN NoDisplay ELSE owner[p]]
  /\ staged'  = [p \in Pipes |-> IF p \in S THEN NoDisplay ELSE staged[p]]
  /\ playing' = playing \ S

Next ==
  \/ \E p \in Pipes, d \in Displays : Acquire(p, d)
  \/ \E p \in Pipes : Stage(p)
  \/ \E p \in Pipes : Play(p)
  \/ \E S \in SUBSET Pipes : Release(S)

Spec == Init /\ [][Next]_ovars
=============================================================================
