------------------------------- MODULE Window -------------------------------
(***************************************************************************)
(* The circular buffer window_t (src/processor/window.cc) under the        *)
(* instruction window, the load and store queues and the store buffer.     *)
(* With several hardware contexts entries leave from the middle: by        *)
(* pop_head() of an entry that is not the head, which moves the older      *)
(* entries up by one, and by a squash that leaves holes, after which       *)
(* collapse() moves what is left to the front.                             *)
(***************************************************************************)
EXTENDS Subseq

CONSTANT None   (* an empty slot *)

WindowType(D, n) ==
  [size : {n}, w : [0 .. n - 1 -> D \cup {None}],
   last_created : 0 .. n - 1, last_committed : 0 .. n - 1]

EmptyWindow(n) ==
  [size |-> n, w |-> [s \in 0 .. n - 1 |-> None],
   last_created |-> n - 1, last_committed |-> n - 1]

window_increment(q, s) == IF s = q.size - 1 THEN 0 ELSE s + 1

(* Mutant of window_decrement: it does not wrap around. *)
window_decrementUnwrapped(q, s) == s - 1

window_decrement(q, s) == IF s = 0 THEN q.size - 1 ELSE s - 1

HeadSlot(q) == window_increment(q, q.last_committed)
head(q) == q.w[HeadSlot(q)]
slot_avail(q) == q.w[window_increment(q, q.last_created)] = None
full(q) == ~slot_avail(q)
empty(q) == q.last_created = q.last_committed /\ slot_avail(q)

(* How many increments lead from slot a to slot b. *)
Steps(q, a, b) == IF b >= a THEN b - a ELSE b - a + q.size

(* The slots from s to last_created. *)
SquashRange(q, s) ==
  {r \in DOMAIN q.w : Steps(q, s, r) <= Steps(q, s, q.last_created)}

(* The slots that a walk over a window visits, in the order of their age.  *)
(* It begins at the head and ASSERTs that it never meets an empty slot.    *)
Reach(q) == IF empty(q) THEN {} ELSE SquashRange(q, HeadSlot(q))
Age(q, s) == Steps(q, HeadSlot(q), s)
OldestSlot(q, S) == CHOOSE s \in S : \A r \in S : Age(q, s) <= Age(q, r)
YoungestSlot(q, S) == CHOOSE s \in S : \A r \in S : Age(q, r) <= Age(q, s)

(* Every slot from the head to last_created is taken and no other. *)
NoHoles(q) == {s \in DOMAIN q.w : q.w[s] # None} = Reach(q)

(* The caller has checked slot_avail(). *)
Inserted(q, d) ==
  LET s == window_increment(q, q.last_created)
  IN [q EXCEPT !.last_created = s, !.w[s] = d]

(* pop_head(d): from the head up to the slot of d every entry takes its    *)
(* predecessor's, and the head slot is emptied.  The answer says whether   *)
(* anything moved, so that the owner must renumber its entries.            *)
SlotOf(q, d) == CHOOSE s \in DOMAIN q.w : q.w[s] = d
Moves(q, d) == head(q) # d

(* Mutant of Popped: the head leaves, whoever d is. *)
PoppedHead(q, d) == [q EXCEPT !.last_committed = HeadSlot(q), !.w[HeadSlot(q)] = None]

Popped(q, d) ==
  [q EXCEPT
     !.last_committed = HeadSlot(q),
     !.w = [s \in DOMAIN q.w |->
              IF s = HeadSlot(q) THEN None
              ELSE IF Steps(q, HeadSlot(q), s) <= Steps(q, HeadSlot(q), SlotOf(q, d))
              THEN q.w[window_decrement(q, s)] ELSE q.w[s]]]

(* collapse(): what is left, in order, from slot 0 on. *)
Walk(q) ==
  [k \in 1 .. Age(q, q.last_created) + 1 |->
     q.w[CHOOSE s \in DOMAIN q.w : Age(q, s) = k - 1]]
Collapsed(q) ==
  LET left == Pick(Walk(q), {k \in DOMAIN Walk(q) : Walk(q)[k] # None})
  IN [q EXCEPT
        !.w = [s \in DOMAIN q.w |-> IF s < Len(left) THEN left[s + 1] ELSE None],
        !.last_committed = q.size - 1,
        !.last_created = Len(left) - 1]

(* The squash of iwindow_t and memq_t: from a slot to last_created the     *)
(* entries in dead go.  When others stand between them the rest is         *)
(* collapsed, otherwise last_created moves back.                           *)

(* Mutant of NeedCollapse: holes are left. *)
NeedCollapseNever(q, s, dead) == FALSE

NeedCollapse(q, s, dead) == \E r \in SquashRange(q, s) : q.w[r] \notin dead
Squashed(q, s, dead) ==
  LET erased == [q EXCEPT !.w = [r \in DOMAIN q.w |->
                   IF r \in SquashRange(q, s) /\ q.w[r] \in dead THEN None ELSE q.w[r]]]
  IN IF NeedCollapse(q, s, dead) THEN Collapsed(erased)
     ELSE [erased EXCEPT !.last_created = window_decrement(q, s)]
=============================================================================
