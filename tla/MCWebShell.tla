----------------------------- MODULE MCWebShell -----------------------------
(* The frame (WebShell) and the pages that list (ListPages), for TLC: two  *)
(* users in the frame; in the pages a project of another, two projects and *)
(* two spaces to create, and two asynchronous functions at once.  The two  *)
(* share no state: the pages of one user and one workspace are taken while *)
(* the frame rests with both, and the frame while no page has been opened. *)
EXTENDS WebShell, ListPages

CONSTANTS u1, u2, p1, p2, p3, s1, s2, o1, j1, j2

MCUsers == {u1, u2}
MCProjects == {p1, p2, p3}
MCSpaces == {s1, s2}
MCTheirs == {p1}
MCCandidates == {o1}
MCTasks == {j1, j2}

(* One user is in the application, in the workspace there was.             *)
Resting ==
    /\ Screen(account) = "app" /\ account.user = u1 /\ Current(provider) # NoWorkspace
    /\ \A c \in Slots : calls[c] = NoCall
    /\ page = "projects" /\ members = <<Users>> /\ changes = 0

EitherInit == Init /\ ListsInit
EitherNext ==
    \/ ListsInit /\ Next /\ UNCHANGED listVars
    \/ Resting /\ ListsNext /\ UNCHANGED vars

(* A frame that rests has no call to answer.                               *)
EitherSpec == EitherInit /\ [][EitherNext]_<<vars, listVars>> /\ Fairness /\ ListsFairness
=============================================================================
