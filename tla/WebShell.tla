------------------------------ MODULE WebShell ------------------------------
(***************************************************************************)
(* The frame around the pages of the web application: who is signed in      *)
(* (providers/AuthProvider.tsx), which screen that gives (App.tsx), the      *)
(* completion of a sign-up (auth/CompleteOnboarding.tsx), the workspaces    *)
(* and the selected one (providers/WorkspaceProvider.tsx) and the settings   *)
(* page that changes them (settings/Settings.tsx), with the handlers of the *)
(* user and workspace services they call.  Firebase tells every tab of the  *)
(* browser who signed in or out in any of them, so that this may happen at   *)
(* any time. A call carries the token of whoever is signed in when it is    *)
(* made (lib/client.ts), and its answer may come late, lost or after others.*)
(***************************************************************************)
EXTENDS Naturals, Sequences, FiniteSetsExt

CONSTANTS
    Users,
    Nobody,
    MaxCalls,       \* calls under way at once
    MaxChanges,     \* sign-ins and sign-outs
    MaxWorkspaces

ASSUME NobodyAssumption == Nobody \notin Users
ASSUME BoundsAssumption == MaxCalls \in Nat \ {0} /\ MaxChanges \in Nat /\ MaxWorkspaces \in Nat

Ids == 1 .. MaxWorkspaces
NoWorkspace == 0
Slots == 1 .. MaxCalls
Pages == {"projects", "settings"}               \* "projects" for every other

VARIABLES
    firebase,   \* auth.currentUser
    account,    \* the state of AuthProvider
    provider,   \* the state of WorkspaceProvider
    stored,     \* localStorage's vynfo_selected_workspace_id
    page,       \* the route
    submitting, \* a sign-up or the addition of a user is being submitted
    calls,      \* calls under way
    onboarded,  \* users.onboarded_at is set
    members,    \* workspace_members, a set per workspace in creation order
    changes,    \* for the bound
    crossed,    \* history: an answer for an earlier user was taken over
    resubmitted \* history: users whose sign-up was submitted again

client == <<firebase, account, provider, stored, page, submitting>>
server == <<onboarded, members>>
history == <<changes, crossed, resubmitted>>
vars == <<client, calls, server, history>>

NoCall == [kind |-> "none", user |-> Nobody, served |-> FALSE, ok |-> FALSE,
           needs |-> FALSE, gone |-> FALSE, left |-> FALSE,
           id |-> NoWorkspace, other |-> Nobody, list |-> <<>>]
Call(kind, u) == [NoCall EXCEPT !.kind = kind, !.user = u]

Unmounted == [known |-> <<>>, selected |-> NoWorkspace, loading |-> TRUE]

(* Addable users share a workspace already: the first shared one, if there  *)
(* is one, was put into the database.                                       *)
Init ==
    /\ firebase \in Users \cup {Nobody}
    /\ account = [ready |-> FALSE, loadingMe |-> FALSE, signedIn |-> FALSE,
                  user |-> Nobody, needs |-> FALSE, error |-> FALSE]
    /\ provider = Unmounted /\ stored = NoWorkspace /\ page = "projects" /\ submitting = FALSE
    /\ calls = [c \in Slots |-> NoCall]
    /\ \/ onboarded = {} /\ members = <<>>
       \/ onboarded \in {{}, Users} /\ members = <<Users>>
    /\ changes = 0 /\ crossed = FALSE /\ resubmitted = {}

-----------------------------------------------------------------------------
(* What AppShell shows.                                                     *)

Loading(a) == ~a.ready \/ a.loadingMe

Screen(a) ==
    IF Loading(a) THEN "loading"
    ELSE IF ~a.signedIn THEN "sign in"
    ELSE IF a.error \/ a.user = Nobody THEN "error"
    ELSE IF a.needs THEN "onboarding"
    ELSE "app"

Known(p) == {id \in Ids : id <= Len(p.known) /\ p.known[id] # {}}
Current(p) == IF p.selected \in Known(p) THEN p.selected ELSE NoWorkspace

Free(k) == Cardinality({c \in Slots : calls[c].kind = "none"}) >= k

(* The calls after the answer of slot c (or of none, 0) and new calls.      *)
Placed(after, new) ==
    LET free == {c \in Slots : after[c].kind = "none"}
        place(c) == Cardinality({d \in free : d < c}) + 1
    IN  [c \in Slots |-> IF c \in free /\ place(c) <= Len(new) THEN new[place(c)] ELSE after[c]]

(* Mutant: what the application knew of the workspaces survives it.         *)
AccountKept(a, after, new, keep) ==
    LET enter == Screen(a) = "app" /\ Screen(account) # "app"
    IN  /\ account' = a
        /\ calls' = Placed(after, new \o (IF enter THEN <<Call("list", firebase')>> ELSE <<>>))
        /\ Free(Len(new) + (IF enter THEN 1 ELSE 0) - keep)
        /\ UNCHANGED <<provider, submitting>>

(* The account changes, with calls made on the way. A screen that is no      *)
(* longer shown is unmounted with what it knew, its calls go on; the         *)
(* workspaces are listed when the application's is mounted.                 *)
Account(a, after, new, keep) ==
    LET was == Screen(account)
        is == Screen(a)
        enter == is = "app" /\ was # "app"
        leave == was # is
    IN  /\ account' = a
        /\ calls' = LET left == [c \in Slots |->
                            IF leave /\ after[c].kind # "me" /\ after[c].kind # "none"
                            THEN [after[c] EXCEPT !.gone = TRUE] ELSE after[c]]
                    IN  Placed(left, new \o (IF enter THEN <<Call("list", firebase')>> ELSE <<>>))
        /\ Free(Len(new) + (IF enter THEN 1 ELSE 0) - keep)
        /\ provider' = IF is = "app" /\ ~enter THEN provider ELSE Unmounted
        /\ submitting' = IF leave THEN FALSE ELSE submitting

-----------------------------------------------------------------------------
(* Signing in and out.                                                      *)

(* Mutant: the account known so far is shown until the new one is there.    *)
AuthStateChangedLate(u) ==
    IF u = Nobody
    THEN Account([account EXCEPT !.ready = TRUE, !.signedIn = FALSE, !.user = Nobody,
                                 !.needs = FALSE, !.error = FALSE], calls, <<>>, 0)
    ELSE Account([account EXCEPT !.ready = TRUE, !.signedIn = TRUE, !.error = FALSE],
                 calls, <<Call("me", u)>>, 0)

(* onAuthStateChanged. A sign-out leaves loadingMe as it is.                *)
AuthStateChanged(u) ==
    IF u = Nobody
    THEN Account([account EXCEPT !.ready = TRUE, !.signedIn = FALSE, !.user = Nobody,
                                 !.needs = FALSE, !.error = FALSE], calls, <<>>, 0)
    ELSE Account([account EXCEPT !.ready = TRUE, !.signedIn = TRUE, !.loadingMe = TRUE,
                                 !.error = FALSE], calls, <<Call("me", u)>>, 0)

(* Firebase knows at start-up who was signed in.                            *)
AuthReady ==
    /\ ~account.ready
    /\ UNCHANGED firebase
    /\ AuthStateChanged(firebase)
    /\ UNCHANGED <<stored, page, server, history>>

(* Here, where a button for it is shown, or in another tab.                 *)
SignInOrOut(u) ==
    /\ account.ready /\ u # firebase
    /\ changes < MaxChanges /\ changes' = changes + 1
    /\ firebase' = u
    /\ AuthStateChanged(u)
    /\ page' \in IF Screen(account) = "sign in" THEN {"projects", page} ELSE {page}
    /\ UNCHANGED <<stored, server, crossed, resubmitted>>

RefreshMe(after, keep) ==
    Account([account EXCEPT !.loadingMe = TRUE, !.error = FALSE], after,
            <<Call("me", firebase)>>, keep)

ClickRetry ==
    /\ Screen(account) = "error"
    /\ UNCHANGED firebase
    /\ RefreshMe(calls, 0)
    /\ UNCHANGED <<stored, page, server, history>>

-----------------------------------------------------------------------------
(* Sign-up, workspaces and settings.                                        *)

(* The photo is read before the call is made (displayPhoto.arrayBuffer()):  *)
(* both are one step, so that the call is of the user who submits.          *)
SubmitSignUp ==
    /\ Screen(account) = "onboarding" /\ ~submitting
    /\ Free(1) /\ Len(members) < MaxWorkspaces
    /\ submitting' = TRUE
    /\ calls' = Placed(calls, <<Call("onboard", firebase)>>)
    /\ resubmitted' = IF \/ firebase \in onboarded
                         \/ \E c \in Slots : calls[c].kind = "onboard" /\ calls[c].user = firebase
                      THEN resubmitted \cup {firebase} ELSE resubmitted
    /\ UNCHANGED <<firebase, account, provider, stored, page, server, changes, crossed>>

(* What a page did not finish goes on, but it is not there to see it.       *)
LeavePage(to) ==
    /\ page' = to
    /\ submitting' = FALSE
    /\ calls' = [c \in Slots |-> IF calls[c].kind \in {"add", "relist"}
                                THEN [calls[c] EXCEPT !.left = TRUE] ELSE calls[c]]

ClickSidebar(to) ==
    /\ Screen(account) = "app" /\ page # to
    /\ LeavePage(to)
    /\ UNCHANGED <<firebase, account, provider, stored, server, history>>

OnSettings == Screen(account) = "app" /\ page = "settings"

(* handleSelectWorkspace goes to the projects; the effect stores the id.    *)
SelectWorkspace(id) ==
    /\ OnSettings /\ ~provider.loading /\ id \in Known(provider)
    /\ provider' = [provider EXCEPT !.selected = id]
    /\ stored' = id
    /\ LeavePage("projects")
    /\ UNCHANGED <<firebase, account, server, history>>

(* Users known from any workspace who are not in the current one.           *)
Addable ==
    UNION {provider.known[id] : id \in Known(provider)}
        \ ({account.user} \cup provider.known[Current(provider)])

AddWorkspaceUser(u) ==
    /\ OnSettings /\ ~submitting /\ Current(provider) # NoWorkspace /\ u \in Addable
    /\ Free(1)
    /\ submitting' = TRUE
    /\ calls' = Placed(calls, <<[Call("add", firebase) EXCEPT !.id = Current(provider),
                                                             !.other = u]>>)
    /\ UNCHANGED <<firebase, account, provider, stored, page, server, history>>

-----------------------------------------------------------------------------
(* The server. All but the first two want a user whose sign-up is complete. *)

Asked(c, kinds) == calls[c].kind \in kinds /\ ~calls[c].served
Reply(c, call) == calls' = [calls EXCEPT ![c] = [call EXCEPT !.served = TRUE]]

ServeGetMe(c) ==
    /\ Asked(c, {"me"})
    /\ Reply(c, [calls[c] EXCEPT !.ok = calls[c].user # Nobody,
                                 !.needs = calls[c].user \notin onboarded])
    /\ UNCHANGED <<client, server, history>>

(* Mutant: onboarded_at is forgotten.                                       *)
ServeCompleteOnboardingUnmarked(c) ==
    /\ Asked(c, {"onboard"})
    /\ calls[c].user # Nobody /\ Len(members) < MaxWorkspaces
    /\ members' = Append(members, {calls[c].user})
    /\ Reply(c, [calls[c] EXCEPT !.ok = TRUE])
    /\ UNCHANGED <<client, onboarded, history>>

(* The user's onboarded_at and a workspace of his, whether or not he has one.*)
ServeCompleteOnboarding(c) ==
    /\ Asked(c, {"onboard"})
    /\ LET u == calls[c].user IN
       IF u = Nobody THEN Reply(c, calls[c]) /\ UNCHANGED server
       ELSE /\ Len(members) < MaxWorkspaces
            /\ onboarded' = onboarded \cup {u}
            /\ members' = Append(members, {u})
            /\ Reply(c, [calls[c] EXCEPT !.ok = TRUE])
    /\ UNCHANGED <<client, history>>

ServeListWorkspaces(c) ==
    /\ Asked(c, {"list", "relist"})
    /\ LET u == calls[c].user IN
       Reply(c, [calls[c] EXCEPT !.ok = u \in onboarded,
                 !.list = [id \in 1 .. Len(members) |->
                              IF u \in members[id] THEN members[id] ELSE {}]])
    /\ UNCHANGED <<client, server, history>>

ServeAddWorkspaceUser(c) ==
    /\ Asked(c, {"add"})
    /\ LET call == calls[c]
           may == call.user \in onboarded /\ call.user \in members[call.id]
       IN  /\ Reply(c, [call EXCEPT !.ok = may])
           /\ members' = IF may THEN [members EXCEPT ![call.id] = @ \cup {call.other}] ELSE members
    /\ UNCHANGED <<client, onboarded, history>>

-----------------------------------------------------------------------------
(* Answers, with what the code does after its await. Any call may fail,      *)
(* before or after the server has served it.                                *)

Without(c) == [calls EXCEPT ![c] = NoCall]
Good(c, kinds) == calls[c].kind \in kinds /\ calls[c].served /\ calls[c].ok
Bad(c, kinds) == calls[c].kind \in kinds

AnswerGetMe(c) ==
    /\ Good(c, {"me"})
    /\ UNCHANGED firebase
    /\ Account([account EXCEPT !.user = calls[c].user, !.needs = calls[c].needs,
                               !.loadingMe = FALSE], Without(c), <<>>, 1)
    /\ crossed' = (crossed \/ calls[c].user # firebase)
    /\ UNCHANGED <<stored, page, server, changes, resubmitted>>

(* Mutant: no finally block.                                                *)
FailGetMeStillLoading(c) ==
    /\ Bad(c, {"me"})
    /\ UNCHANGED firebase
    /\ Account([account EXCEPT !.user = Nobody, !.error = TRUE], Without(c), <<>>, 1)
    /\ UNCHANGED <<stored, page, server, history>>

FailGetMe(c) ==
    /\ Bad(c, {"me"})
    /\ UNCHANGED firebase
    /\ Account([account EXCEPT !.user = Nobody, !.error = TRUE, !.loadingMe = FALSE],
               Without(c), <<>>, 1)
    /\ UNCHANGED <<stored, page, server, history>>

(* refreshMe is called even if the form is gone.                            *)
AnswerCompleteOnboarding(c) ==
    /\ Good(c, {"onboard"})
    /\ UNCHANGED firebase
    /\ RefreshMe(Without(c), 1)
    /\ UNCHANGED <<stored, page, server, history>>

FailCall(c) ==
    /\ Bad(c, {"onboard", "add"})
    /\ calls' = Without(c)
    /\ submitting' = (submitting /\ (calls[c].gone \/ calls[c].left))
    /\ UNCHANGED <<firebase, account, provider, stored, page, server, history>>

(* Mutant: a refresh goes back to the first workspace.                      *)
ChosenFirst(list) ==
    LET own == {id \in Ids : id <= Len(list) /\ list[id] # {}}
    IN  IF own = {} THEN NoWorkspace ELSE Min(own)

(* refreshWorkspaces keeps the selected workspace, else takes the stored one,*)
(* else the first.                                                          *)
Chosen(list) ==
    LET has(id) == id # NoWorkspace /\ id <= Len(list) /\ list[id] # {}
    IN  IF has(provider.selected) THEN provider.selected
        ELSE IF has(stored) THEN stored
        ELSE IF \E id \in Ids : has(id) THEN Min({id \in Ids : has(id)})
        ELSE NoWorkspace

AnswerListWorkspaces(c) ==
    /\ Good(c, {"list", "relist"})
    /\ calls' = Without(c)
    /\ IF calls[c].gone THEN UNCHANGED <<provider, stored, submitting>>
       ELSE /\ provider' = [known |-> calls[c].list, selected |-> Chosen(calls[c].list),
                            loading |-> FALSE]
            /\ stored' = IF provider'.selected # NoWorkspace THEN provider'.selected ELSE stored
            /\ submitting' = (submitting /\ (calls[c].kind = "list" \/ calls[c].left))
    /\ UNCHANGED <<firebase, account, page, server, history>>

FailListWorkspaces(c) ==
    /\ Bad(c, {"list", "relist"})
    /\ calls' = Without(c)
    /\ IF calls[c].gone THEN UNCHANGED <<provider, submitting>>
       ELSE /\ provider' = [provider EXCEPT !.loading = FALSE]
            /\ submitting' = (submitting /\ (calls[c].kind = "list" \/ calls[c].left))
    /\ UNCHANGED <<firebase, account, stored, page, server, history>>

AnswerAddWorkspaceUser(c) ==
    /\ Good(c, {"add"})
    /\ calls' = [calls EXCEPT ![c] = [Call("relist", firebase) EXCEPT !.gone = calls[c].gone,
                                                                  !.left = calls[c].left]]
    /\ provider' = IF calls[c].gone THEN provider ELSE [provider EXCEPT !.loading = TRUE]
    /\ UNCHANGED <<firebase, account, stored, page, submitting, server, history>>

-----------------------------------------------------------------------------
Serve(c) ==
    \/ ServeGetMe(c) \/ ServeCompleteOnboarding(c) \/ ServeListWorkspaces(c)
    \/ ServeAddWorkspaceUser(c)
Answer(c) ==
    \/ AnswerGetMe(c) \/ AnswerCompleteOnboarding(c) \/ AnswerListWorkspaces(c)
    \/ AnswerAddWorkspaceUser(c)
Fail(c) == FailGetMe(c) \/ FailCall(c) \/ FailListWorkspaces(c)

Next ==
    \/ AuthReady \/ ClickRetry \/ SubmitSignUp
    \/ \E u \in Users \cup {Nobody} : SignInOrOut(u)
    \/ \E u \in Users : AddWorkspaceUser(u)
    \/ \E to \in Pages : ClickSidebar(to)
    \/ \E id \in Ids : SelectWorkspace(id)
    \/ \E c \in Slots : Serve(c) \/ Answer(c) \/ Fail(c)

(* Firebase starts up, and every call is answered or fails.                 *)
Fairness == WF_vars(AuthReady) /\ \A c \in Slots : WF_vars(Answer(c) \/ Fail(c))

Spec == Init /\ [][Next]_vars /\ Fairness

-----------------------------------------------------------------------------
(* Properties.                                                              *)

(* A page other than the settings keeps the workspace it works in, as the    *)
(* lists that pages load are not cancelled and would mix two workspaces if   *)
(* it changed under them. It would for a listing under way that was made     *)
(* before the workspace was.                                                *)
Lacks(call) ==
    /\ call.list # <<>>
    /\ Current(provider) \notin {id \in 1 .. Len(call.list) : call.list[id] # {}}

PageKeepsWorkspace ==
    [][(/\ Screen(account) = "app" /\ Screen(account') = "app"
        /\ page # "settings" /\ page' = page /\ Current(provider) # NoWorkspace
        /\ \A c \in Slots : ~Lacks(calls[c]))
        => Current(provider') = Current(provider)]_vars

(* The workspace worked in is one that whoever is signed in belongs to, also *)
(* when the browser stored another user's selection.                        *)
WorkspaceIsOwn ==
    Screen(account) = "app" /\ Current(provider) # NoWorkspace
        => firebase \in members[Current(provider)]

(* The application shows the account of whoever is signed in, until an       *)
(* answer for an earlier user, which nothing tells apart, was taken over.    *)
ShowsSignedInUser == Screen(account) = "app" /\ ~crossed => account.user = firebase

(* A user gets one workspace of his own, unless his sign-up was submitted    *)
(* again after the server had completed it or while it might.               *)
OneWorkspaceEach ==
    \A u \in Users \ resubmitted :
        Cardinality({id \in 1 .. Len(members) : members[id] = {u}}) <= 1

(* The loading screen does not stay.                                        *)
LoadingEnds == Screen(account) = "loading" ~> Screen(account) # "loading"
=============================================================================
