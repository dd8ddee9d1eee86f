---------------------------- MODULE SlotLifecycle ----------------------------
(***************************************************************************)
(* What a slot of the pool promises its successive owners.  It is free,    *)
(* owned or quarantined; a request is answered at most once, and only by   *)
(* the claim it was submitted under, while that claim lasts.               *)
(*                                                                         *)
(* A quarantine is for ever, with two exceptions: a host that may tear the *)
(* slot down joins its threads and takes it out of quarantine as it        *)
(* releases it, and once a shutdown has retired the slot the mark means    *)
(* nothing any more.  The promises about owners and answers stay.          *)
(***************************************************************************)
EXTENDS Integers

CONSTANTS
  Requests,
  Stoppable,     \* TRUE: the pool may be shut down
  Rebuildable    \* TRUE: a host may tear the slot down and have it rebuilt

VARIABLES
  generation,    \* even = free, odd = the claim that owns the slot
  quarantined,   \* the claim will not end by itself
  retired,       \* a shutdown has come
  answers        \* every answer given, with the claim of its request

vars == <<generation, quarantined, retired, answers>>

Owned == generation % 2 = 1
Answered == {a.req : a \in answers}

Init ==
  /\ generation = 0
  /\ quarantined = FALSE
  /\ retired = FALSE
  /\ answers = {}

Claim ==
  /\ ~Owned
  /\ generation' = generation + 1
  /\ UNCHANGED <<quarantined, retired, answers>>

Answer(S) ==
  /\ Owned
  /\ S \cap Answered = {}
  /\ answers' = answers \union {[req |-> r, claim |-> generation] : r \in S}
  /\ UNCHANGED <<generation, quarantined, retired>>

Release ==
  /\ Owned
  /\ quarantined => retired
  /\ generation' = generation + 1
  /\ UNCHANGED <<quarantined, retired, answers>>

Quarantine ==
  /\ Owned
  /\ quarantined' = TRUE
  /\ UNCHANGED <<generation, retired, answers>>

TearDown ==
  /\ Rebuildable
  /\ Owned
  /\ generation' = generation + 1
  /\ quarantined' = FALSE
  /\ UNCHANGED <<retired, answers>>

Retire ==
  /\ Stoppable
  /\ retired' = TRUE
  /\ UNCHANGED <<generation, quarantined, answers>>

Remark ==
  /\ retired
  /\ quarantined' \in BOOLEAN
  /\ UNCHANGED <<generation, retired, answers>>

Next ==
  \/ Claim \/ Release \/ Quarantine \/ TearDown \/ Retire \/ Remark
  \/ \E S \in SUBSET Requests : Answer(S)

Spec == Init /\ [][Next]_vars
=============================================================================
