---------------------------- MODULE SpaceAlerts ----------------------------
(***************************************************************************)
(* What an open space is promised (proto/v1/spaces.proto, OpenSpace):      *)
(* after a change of the space, everyone who had it open when the change   *)
(* was made is alerted.  One alert may stand for many changes: the page    *)
(* then reads the space as it is.  How the backend keeps the promise is    *)
(* SpaceNotify.                                                            *)
(***************************************************************************)
EXTENDS Naturals

CONSTANT Pages   \* pages that may open the space

VARIABLES
  posted,   \* the changes made so far
  open,     \* the pages that have the space open
  seen      \* the changes there were when each page was last alerted

vars == <<posted, open, seen>>

Init ==
  /\ posted = 0
  /\ open = {}
  /\ seen = [p \in Pages |-> 0]

Post ==
  /\ posted' = posted + 1
  /\ UNCHANGED <<open, seen>>

(* A page owes nothing to the past: it reads the space itself.             *)
Open(p) ==
  /\ open' = open \cup {p}
  /\ seen' = [seen EXCEPT ![p] = posted]
  /\ UNCHANGED posted

Alert(p) ==
  /\ p \in open
  /\ seen' = [seen EXCEPT ![p] = posted]
  /\ UNCHANGED <<posted, open>>

(* Pages leave, or are cut off together.                                   *)
Leave(gone) ==
  /\ open' = open \ gone
  /\ UNCHANGED <<posted, seen>>

Next ==
  \/ Post
  \/ \E p \in Pages : Open(p) \/ Alert(p)
  \/ \E gone \in SUBSET Pages : Leave(gone)

(* A page that is behind is alerted, if it stays.                          *)
Fairness == \A p \in Pages : WF_vars(Alert(p))

Spec == Init /\ [][Next]_vars
FairSpec == Spec /\ Fairness
=============================================================================
