--------------------------- MODULE WebShellProofs ---------------------------
(***************************************************************************)
(* Theorems of WebShell for any users, numbers of calls and workspaces.    *)
(***************************************************************************)
EXTENDS WebShell, TLAPS, FiniteSetTheorems, WellFoundedInduction

USE NobodyAssumption, BoundsAssumption

Someone == Users \cup {Nobody}
Lists == Seq(SUBSET Users)

CallType ==
  [kind : {"none", "me", "onboard", "list", "relist", "add"},
   user : Someone, served : BOOLEAN, ok : BOOLEAN, needs : BOOLEAN,
   gone : BOOLEAN, left : BOOLEAN, id : Nat, other : Someone, list : Lists]

AccountType ==
  [ready : BOOLEAN, loadingMe : BOOLEAN, signedIn : BOOLEAN,
   user : Someone, needs : BOOLEAN, error : BOOLEAN]

ProviderType == [known : Lists, selected : Nat, loading : BOOLEAN]

TypeOK ==
  /\ firebase \in Someone
  /\ account \in AccountType
  /\ provider \in ProviderType
  /\ stored \in Nat /\ page \in Pages /\ submitting \in BOOLEAN
  /\ calls \in [Slots -> CallType]
  /\ \A c \in Slots : calls[c].kind = "add" => calls[c].other \in Users
  /\ onboarded \in SUBSET Users
  /\ members \in Lists
  /\ changes \in Nat /\ crossed \in BOOLEAN /\ resubmitted \in SUBSET Someone

-----------------------------------------------------------------------------
(* Lemmas about the operators of WebShell *)

(* A set of slots is finite, and can be counted.                            *)
LEMMA SlotCounts ==
  ASSUME NEW S \in SUBSET Slots
  PROVE  IsFiniteSet(S) /\ Cardinality(S) \in Nat
BY FS_Interval, FS_Subset, FS_CardinalityType, MaxCalls \in Int, 1 \in Int DEF Slots

(* A free slot gets at most one of the new calls, any other keeps its own. *)
LEMMA PlacedFrom ==
  ASSUME NEW after \in [Slots -> CallType], NEW new \in Seq(CallType)
  PROVE  /\ Placed(after, new) \in [Slots -> CallType]
         /\ \A c \in Slots :
              \/ Placed(after, new)[c] = after[c]
              \/ /\ after[c].kind = "none"
                 /\ \E i \in 1..Len(new) : Placed(after, new)[c] = new[i]
<1> DEFINE free == {c \in Slots : after[c].kind = "none"}
           place(c) == Cardinality({d \in free : d < c}) + 1
<1>1. \A c \in Slots : place(c) \in Nat \ {0}
  <2> SUFFICES ASSUME NEW c \in Slots PROVE place(c) \in Nat \ {0}
    OBVIOUS
  <2>1. Cardinality({d \in free : d < c}) \in Nat
    BY SlotCounts
  <2> QED
    BY <2>1
<1>2. Placed(after, new) = [c \in Slots |-> IF c \in free /\ place(c) <= Len(new)
                                            THEN new[place(c)] ELSE after[c]]
  BY DEF Placed
<1>3. Len(new) \in Nat /\ \A i \in 1..Len(new) : new[i] \in CallType
  OBVIOUS
<1> HIDE DEF place
<1>4. ASSUME NEW c \in Slots
      PROVE  /\ Placed(after, new)[c] \in CallType
             /\ \/ Placed(after, new)[c] = after[c]
                \/ /\ after[c].kind = "none"
                   /\ \E i \in 1..Len(new) : Placed(after, new)[c] = new[i]
  <2>1. CASE c \in free /\ place(c) <= Len(new)
    <3>1. place(c) \in 1..Len(new)
      BY <1>1, <1>3, <2>1
    <3>2. Placed(after, new)[c] = new[place(c)]
      BY <1>2, <2>1
    <3> QED
      BY <1>3, <2>1, <3>1, <3>2
  <2>2. CASE ~(c \in free /\ place(c) <= Len(new))
    BY <1>2, <2>2
  <2> QED
    BY <2>1, <2>2
<1>5. Placed(after, new) \in [Slots -> CallType]
  BY <1>2, <1>4
<1> QED
  BY <1>4, <1>5

(* A new call has its type, and differs from none in its kind and user only. *)
LEMMA NoCallType ==
  /\ NoCall \in CallType
  /\ \A u \in Someone, kind \in {"me", "onboard", "list", "relist", "add"} :
       /\ Call(kind, u) \in CallType
       /\ Call(kind, u) = [NoCall EXCEPT !.kind = kind, !.user = u]
<1>1. <<>> \in Lists
  BY DEF Lists
<1>2. NoCall \in CallType
  BY <1>1 DEF NoCall, CallType, Someone, NoWorkspace
<1>3. ASSUME NEW u \in Someone, NEW kind \in {"me", "onboard", "list", "relist", "add"}
      PROVE  /\ Call(kind, u) \in CallType
             /\ Call(kind, u) = [NoCall EXCEPT !.kind = kind, !.user = u]
  BY <1>2, <1>3 DEF Call, CallType
<1> QED
  BY <1>2, <1>3

(* When the application is shown.                                           *)
LEMMA AppScreen ==
  ASSUME NEW a \in AccountType
  PROVE  Screen(a) = "app" <=> /\ a.ready /\ ~a.loadingMe /\ a.signedIn
                               /\ ~a.error /\ a.user # Nobody /\ ~a.needs
BY DEF Screen, Loading, AccountType

-----------------------------------------------------------------------------
(* What a change of the account does to the calls and the workspaces known: *)
(* a call of a screen that was left is marked as gone.                      *)
LEMMA AccountStep ==
  ASSUME NEW a \in AccountType, NEW after \in [Slots -> CallType],
         NEW new \in Seq(CallType), NEW keep,
         \A i \in 1..Len(new) : new[i].kind = "me",
         account \in AccountType, provider \in ProviderType,
         submitting \in BOOLEAN, firebase' \in Someone,
         Account(a, after, new, keep)
  PROVE  /\ account' = a
         /\ calls' \in [Slots -> CallType]
         /\ submitting' \in BOOLEAN
         /\ \/ (provider' = Unmounted /\ ~(Screen(account) = "app" /\ Screen(a) = "app"))
            \/ (provider' = provider /\ Screen(account) = "app" /\ Screen(a) = "app")
         /\ \A c \in Slots :
              \/ /\ calls'[c] = after[c]
                 /\ Screen(a) = Screen(account) \/ after[c].kind \in {"me", "none"}
              \/ calls'[c] = [after[c] EXCEPT !.gone = TRUE]
              \/ calls'[c].kind = "me"
              \/ (Screen(a) = "app" /\ calls'[c] = Call("list", firebase'))
<1> DEFINE enter == Screen(a) = "app" /\ Screen(account) # "app"
           leave == Screen(account) # Screen(a)
           left == [c \in Slots |->
                      IF leave /\ after[c].kind # "me" /\ after[c].kind # "none"
                      THEN [after[c] EXCEPT !.gone = TRUE] ELSE after[c]]
           more == IF enter THEN <<Call("list", firebase')>> ELSE <<>>
           all == new \o more
<1>1. /\ account' = a
      /\ calls' = Placed(left, all)
      /\ provider' = IF Screen(a) = "app" /\ ~enter THEN provider ELSE Unmounted
      /\ submitting' = IF leave THEN FALSE ELSE submitting
  BY DEF Account
<1>2. left \in [Slots -> CallType]
  <2> SUFFICES ASSUME NEW c \in Slots PROVE [after[c] EXCEPT !.gone = TRUE] \in CallType
    OBVIOUS
  <2>1. after[c] \in CallType
    OBVIOUS
  <2> QED
    BY <2>1 DEF CallType
<1>3. PICK listing : listing = Call("list", firebase')
  OBVIOUS
<1>4. listing \in CallType
  BY <1>3, NoCallType
<1>5. more = <<>> \/ (Screen(a) = "app" /\ more = <<listing>>)
  BY <1>3
<1> HIDE DEF more
<1>6. all \in Seq(CallType) /\ \A i \in 1..Len(all) :
        all[i].kind = "me" \/ (Screen(a) = "app" /\ all[i] = listing)
  <2>1. CASE more = <<>>
    <3>1. all = new
      BY <2>1
    <3> QED
      BY <3>1
  <2>2. CASE Screen(a) = "app" /\ more = <<listing>>
    <3>1. all = Append(new, listing)
      BY <2>2, <1>4
    <3> HIDE DEF all
    <3>2. /\ all \in Seq(CallType) /\ Len(all) = Len(new) + 1
          /\ \A i \in 1..Len(all) : all[i] = IF i = Len(new) + 1 THEN listing ELSE new[i]
      BY <3>1, <1>4
    <3> QED
      BY <3>2, <2>2
  <2> QED
    BY <1>5, <2>1, <2>2
<1> HIDE DEF all, left
<1>7. /\ Placed(left, all) \in [Slots -> CallType]
      /\ \A c \in Slots :
           \/ Placed(left, all)[c] = left[c]
           \/ \E i \in 1..Len(all) : Placed(left, all)[c] = all[i]
  BY <1>2, <1>6, PlacedFrom
<1>8. ASSUME NEW c \in Slots
      PROVE  \/ /\ calls'[c] = after[c]
                /\ Screen(a) = Screen(account) \/ after[c].kind \in {"me", "none"}
             \/ calls'[c] = [after[c] EXCEPT !.gone = TRUE]
             \/ calls'[c].kind = "me"
             \/ (Screen(a) = "app" /\ calls'[c] = Call("list", firebase'))
  <2>1. CASE calls'[c] = left[c]
    BY <2>1 DEF left
  <2>2. CASE \E i \in 1..Len(all) : calls'[c] = all[i]
    BY <1>3, <1>6, <2>2
  <2> QED
    BY <1>1, <1>7, <2>1, <2>2
<1> QED
  BY <1>1, <1>7, <1>8

(* A change of the account, whatever brings it about: sign-ins and sign-outs *)
(* show the application to nobody, and a call is kept, marked as gone with   *)
(* its screen, ended, or one of those made on the way.                      *)
Moves ==
  /\ account' \in AccountType /\ firebase' \in Someone
  /\ firebase' = firebase \/ Screen(account') # "app"
  /\ \/ (provider' = Unmounted /\ ~(Screen(account) = "app" /\ Screen(account') = "app"))
     \/ (provider' = provider /\ Screen(account) = "app" /\ Screen(account') = "app")
  /\ submitting' \in BOOLEAN /\ page' \in Pages
  /\ calls' \in [Slots -> CallType]
  /\ \A c \in Slots :
       \/ /\ calls'[c] = calls[c]
          /\ Screen(account') = Screen(account) \/ calls[c].kind \in {"me", "none"}
       \/ calls'[c] = [calls[c] EXCEPT !.gone = TRUE]
       \/ calls'[c].kind \in {"me", "none"}
       \/ (Screen(account') = "app" /\ calls'[c] = Call("list", firebase'))
  /\ changes' \in Nat /\ crossed' \in BOOLEAN
  /\ UNCHANGED <<stored, server, resubmitted>>

(* The account is nobody's or that of whoever is signed in, unless the       *)
(* answer for an earlier user was taken over or a later one is awaited.     *)
ShowsInv == ~crossed /\ ~account.loadingMe => account.user \in {Nobody, firebase}

(* Every use of Account in the module is a move.                            *)
LEMMA MovesFrom ==
  ASSUME TypeOK, NEW a \in AccountType, NEW after \in [Slots -> CallType],
         NEW new \in Seq(CallType), NEW keep, Account(a, after, new, keep),
         \A c \in Slots : after[c] = calls[c] \/ after[c] = NoCall,
         new = <<>> \/ (\E u \in Someone : new = <<Call("me", u)>>),
         firebase' \in Someone, firebase' = firebase \/ Screen(a) # "app",
         page' \in Pages, changes' \in Nat, crossed' \in BOOLEAN,
         UNCHANGED <<stored, server, resubmitted>>
  PROVE  Moves /\ account' = a
<1>1. \A i \in 1..Len(new) : new[i].kind = "me"
  <2>1. CASE new = <<>>
    BY <2>1
  <2>2. ASSUME NEW u \in Someone, new = <<Call("me", u)>>
        PROVE  \A i \in 1..Len(new) : new[i].kind = "me"
    <3>1. Call("me", u).kind = "me"
      BY NoCallType DEF Call, NoCall
    <3> QED
      BY <2>2, <3>1
  <2> QED
    BY <2>1, <2>2
<1>2. /\ account \in AccountType /\ provider \in ProviderType /\ submitting \in BOOLEAN
  BY DEF TypeOK
<1>3. /\ account' = a
      /\ calls' \in [Slots -> CallType]
      /\ submitting' \in BOOLEAN
      /\ \/ (provider' = Unmounted /\ ~(Screen(account) = "app" /\ Screen(a) = "app"))
         \/ (provider' = provider /\ Screen(account) = "app" /\ Screen(a) = "app")
      /\ \A c \in Slots :
           \/ /\ calls'[c] = after[c]
              /\ Screen(a) = Screen(account) \/ after[c].kind \in {"me", "none"}
           \/ calls'[c] = [after[c] EXCEPT !.gone = TRUE]
           \/ calls'[c].kind = "me"
           \/ (Screen(a) = "app" /\ calls'[c] = Call("list", firebase'))
  BY <1>1, <1>2, AccountStep
<1>4. NoCall.kind = "none" /\ [NoCall EXCEPT !.gone = TRUE].kind = "none"
  BY DEF NoCall
<1>5. ASSUME NEW c \in Slots
      PROVE  \/ /\ calls'[c] = calls[c]
                /\ Screen(account') = Screen(account) \/ calls[c].kind \in {"me", "none"}
             \/ calls'[c] = [calls[c] EXCEPT !.gone = TRUE]
             \/ calls'[c].kind \in {"me", "none"}
             \/ (Screen(account') = "app" /\ calls'[c] = Call("list", firebase'))
  <2>1. CASE after[c] = calls[c]
    BY <1>3, <2>1
  <2>2. CASE after[c] = NoCall
    BY <1>3, <1>4, <2>2
  <2> QED
    BY <2>1, <2>2
<1> QED
  BY <1>3, <1>5 DEF Moves

(* Ending a call leaves the others as they are.                             *)
LEMMA WithoutType ==
  ASSUME TypeOK, NEW c \in Slots
  PROVE  /\ Without(c) \in [Slots -> CallType]
         /\ \A d \in Slots : Without(c)[d] = calls[d] \/ Without(c)[d] = NoCall
BY NoCallType DEF TypeOK, Without

(* Firebase's callback is a move that shows a screen other than the application. *)
LEMMA SignedIn ==
  ASSUME TypeOK, NEW u \in Someone, firebase' = u, AuthStateChanged(u),
         page' \in Pages, changes' \in Nat, UNCHANGED <<stored, server, crossed, resubmitted>>
  PROVE  Moves /\ ShowsInv' /\ Screen(account') # "app"
<1>1. /\ account \in AccountType /\ calls \in [Slots -> CallType]
      /\ crossed' \in BOOLEAN /\ UNCHANGED <<stored, server, resubmitted>>
  BY DEF TypeOK
<1>2. CASE u = Nobody
  <2> DEFINE a == [account EXCEPT !.ready = TRUE, !.signedIn = FALSE, !.user = Nobody,
                                  !.needs = FALSE, !.error = FALSE]
  <2>1. /\ a \in AccountType /\ a.user = Nobody /\ ~a.signedIn
    BY <1>1 DEF AccountType, Someone
  <2>2. Screen(a) # "app"
    BY <2>1, AppScreen
  <2>3. Account(a, calls, <<>>, 0)
    BY <1>2 DEF AuthStateChanged
  <2>4. <<>> \in Seq(CallType)
    OBVIOUS
  <2> HIDE DEF a
  <2>5. Moves /\ account' = a
    BY <1>1, <2>1, <2>2, <2>3, <2>4, MovesFrom
  <2> QED
    BY <2>1, <2>2, <2>5 DEF ShowsInv
<1>3. CASE u # Nobody
  <2> DEFINE a == [account EXCEPT !.ready = TRUE, !.signedIn = TRUE, !.loadingMe = TRUE,
                                  !.error = FALSE]
             new == <<Call("me", u)>>
  <2>1. /\ a \in AccountType /\ a.loadingMe
    BY <1>1 DEF AccountType
  <2>2. Screen(a) # "app"
    BY <2>1, AppScreen
  <2>3. Account(a, calls, new, 0)
    BY <1>3 DEF AuthStateChanged
  <2>4. Call("me", u) \in CallType
    BY NoCallType
  <2>5. new \in Seq(CallType) /\ \E v \in Someone : new = <<Call("me", v)>>
    BY <2>4
  <2> HIDE DEF a, new
  <2>6. Moves /\ account' = a
    BY <1>1, <2>1, <2>2, <2>3, <2>5, MovesFrom
  <2> QED
    BY <2>1, <2>2, <2>6 DEF ShowsInv
<1> QED
  BY <1>2, <1>3

(* refreshMe is a move that shows the loading screen.                       *)
LEMMA Refreshed ==
  ASSUME TypeOK, NEW after \in [Slots -> CallType], NEW keep,
         \A c \in Slots : after[c] = calls[c] \/ after[c] = NoCall,
         UNCHANGED <<firebase, stored, page, server, history>>, RefreshMe(after, keep)
  PROVE  Moves /\ ShowsInv'
<1> DEFINE a == [account EXCEPT !.loadingMe = TRUE, !.error = FALSE]
           new == <<Call("me", firebase)>>
<1>1. /\ account \in AccountType /\ firebase \in Someone
      /\ changes' \in Nat /\ crossed' \in BOOLEAN /\ page' \in Pages /\ firebase' \in Someone
      /\ firebase' = firebase
      /\ UNCHANGED <<stored, server, resubmitted>>
  BY DEF TypeOK, history
<1>2. a \in AccountType /\ a.loadingMe
  BY <1>1 DEF AccountType
<1>3. Call("me", firebase) \in CallType
  BY <1>1, NoCallType
<1>4. new \in Seq(CallType) /\ \E v \in Someone : new = <<Call("me", v)>>
  BY <1>1, <1>3
<1>5. Account(a, after, new, keep)
  BY DEF RefreshMe
<1> HIDE DEF a, new
<1>6. Moves /\ account' = a
  BY <1>1, <1>2, <1>4, <1>5, MovesFrom
<1> QED
  BY <1>2, <1>6 DEF ShowsInv

(* The answer to GetMe, or its failure.                                     *)
LEMMA Told ==
  ASSUME TypeOK, NEW c \in Slots, NEW a \in AccountType, Account(a, Without(c), <<>>, 1),
         ~crossed' => a.user \in {Nobody, firebase}, crossed' \in BOOLEAN,
         UNCHANGED <<firebase, stored, page, server, changes, resubmitted>>
  PROVE  Moves /\ ShowsInv'
<1>1. /\ firebase' \in Someone /\ firebase' = firebase /\ page' \in Pages /\ changes' \in Nat
      /\ UNCHANGED <<stored, server, resubmitted>>
  BY DEF TypeOK
<1>2. <<>> \in Seq(CallType)
  OBVIOUS
<1>3. Moves /\ account' = a
  BY <1>1, <1>2, WithoutType, MovesFrom
<1> QED
  BY <1>1, <1>3 DEF ShowsInv

(* Every action that changes the account is such a move.                    *)
AccountMoves ==
  \/ AuthReady \/ ClickRetry
  \/ \E u \in Someone : SignInOrOut(u)
  \/ \E c \in Slots : AnswerGetMe(c) \/ FailGetMe(c) \/ AnswerCompleteOnboarding(c)

(* A change of the account is a move, and shows who is signed in.           *)
LEMMA Moving ==
  ASSUME TypeOK, AccountMoves
  PROVE  Moves /\ ShowsInv'
<1> USE DEF TypeOK
<1>1. CASE AuthReady
  <2>1. /\ firebase \in Someone /\ firebase' = firebase /\ AuthStateChanged(firebase)
        /\ page' \in Pages /\ changes' \in Nat
        /\ UNCHANGED <<stored, server, crossed, resubmitted>>
    BY <1>1 DEF AuthReady, history
  <2> QED
    BY <2>1, SignedIn
<1>2. CASE ClickRetry
  <2>1. /\ UNCHANGED <<firebase, stored, page, server, history>> /\ RefreshMe(calls, 0)
        /\ calls \in [Slots -> CallType]
    BY <1>2 DEF ClickRetry
  <2> QED
    BY <2>1, Refreshed
<1>3. ASSUME NEW u \in Someone, SignInOrOut(u)
      PROVE  Moves /\ ShowsInv'
  <2>1. /\ firebase' = u /\ AuthStateChanged(u)
        /\ UNCHANGED <<stored, server, crossed, resubmitted>>
    BY <1>3 DEF SignInOrOut
  <2>2. page' \in {"projects", page} /\ changes' = changes + 1
    BY <1>3 DEF SignInOrOut
  <2>3. page' \in Pages /\ changes' \in Nat
    BY <2>2 DEF Pages
  <2> QED
    BY <2>1, <2>3, SignedIn
<1>4. ASSUME NEW c \in Slots, AnswerGetMe(c)
      PROVE  Moves /\ ShowsInv'
  <2> DEFINE a == [account EXCEPT !.user = calls[c].user, !.needs = calls[c].needs,
                                  !.loadingMe = FALSE]
  <2>1. /\ calls[c].user \in Someone /\ calls[c].needs \in BOOLEAN
    BY DEF CallType
  <2>2. a \in AccountType /\ a.user = calls[c].user
    BY <2>1 DEF AccountType
  <2>3. /\ UNCHANGED <<firebase, stored, page, server, changes, resubmitted>>
        /\ Account(a, Without(c), <<>>, 1)
        /\ crossed' = (crossed \/ calls[c].user # firebase)
    BY <1>4 DEF AnswerGetMe
  <2>4. crossed' \in BOOLEAN /\ (~crossed' => a.user \in {Nobody, firebase})
    BY <2>2, <2>3
  <2> HIDE DEF a
  <2> QED
    BY <2>2, <2>3, <2>4, Told
<1>5. ASSUME NEW c \in Slots, FailGetMe(c)
      PROVE  Moves /\ ShowsInv'
  <2> DEFINE a == [account EXCEPT !.user = Nobody, !.error = TRUE, !.loadingMe = FALSE]
  <2>1. a \in AccountType /\ a.user = Nobody
    BY DEF AccountType, Someone
  <2>2. /\ UNCHANGED <<firebase, stored, page, server, changes, resubmitted>>
        /\ Account(a, Without(c), <<>>, 1) /\ crossed' \in BOOLEAN
    BY <1>5 DEF FailGetMe, history
  <2> HIDE DEF a
  <2> QED
    BY <2>1, <2>2, Told
<1>6. ASSUME NEW c \in Slots, AnswerCompleteOnboarding(c)
      PROVE  Moves /\ ShowsInv'
  <2>1. UNCHANGED <<firebase, stored, page, server, history>> /\ RefreshMe(Without(c), 1)
    BY <1>6 DEF AnswerCompleteOnboarding
  <2> QED
    BY <2>1, WithoutType, Refreshed
<1> QED
  BY <1>1, <1>2, <1>3, <1>4, <1>5, <1>6 DEF AccountMoves

-----------------------------------------------------------------------------
(* Type correctness *)

(* The initial states have their types.                                     *)
LEMMA TypeInit == Init => TypeOK
<1> SUFFICES ASSUME Init PROVE TypeOK
  OBVIOUS
<1>1. account \in AccountType /\ firebase \in Someone
  BY DEF Init, AccountType, Someone
<1>2. calls \in [Slots -> CallType] /\ \A c \in Slots : calls[c].kind # "add"
  <2>1. calls = [c \in Slots |-> NoCall] /\ NoCall.kind = "none"
    BY DEF Init, NoCall
  <2> QED
    BY <2>1, NoCallType
<1>3. <<>> \in Lists /\ <<Users>> \in Lists
  BY DEF Lists
<1>4. provider \in ProviderType
  BY <1>3 DEF Init, Unmounted, ProviderType, NoWorkspace
<1>5. members \in Lists /\ onboarded \in SUBSET Users
  BY <1>3 DEF Init
<1> QED
  BY <1>1, <1>2, <1>4, <1>5 DEF Init, TypeOK, NoWorkspace, Pages

(* A move keeps the types.                                                  *)
LEMMA MovesType ==
  ASSUME TypeOK, Moves
  PROVE  TypeOK'
<1>1. Unmounted \in ProviderType
  <2>1. <<>> \in Lists
    BY DEF Lists
  <2> QED
    BY <2>1 DEF Unmounted, ProviderType, NoWorkspace
<1>2. provider' \in ProviderType
  BY <1>1 DEF Moves, TypeOK
<1>3. ASSUME NEW c \in Slots
      PROVE  calls'[c].kind = "add" => calls'[c].other \in Users
  <2>1. CASE calls'[c] = [calls[c] EXCEPT !.gone = TRUE]
    <3>1. calls[c] \in CallType
      BY DEF TypeOK
    <3>2. calls'[c].kind = calls[c].kind /\ calls'[c].other = calls[c].other
      BY <2>1, <3>1 DEF CallType
    <3> QED
      BY <3>2 DEF TypeOK
  <2>2. CASE calls'[c] = calls[c] \/ calls'[c].kind \in {"me", "none"}
    BY <2>2 DEF TypeOK
  <2>3. CASE calls'[c] = Call("list", firebase')
    BY <2>3 DEF Call, NoCall
  <2> QED
    BY <2>1, <2>2, <2>3 DEF Moves
<1> QED
  BY <1>2, <1>3 DEF Moves, TypeOK, server

(* What a handler answers, and that its lists are typed.                    *)
LEMMA Replied ==
  ASSUME TypeOK, NEW c \in Slots, NEW call \in CallType,
         call.kind = calls[c].kind, call.other = calls[c].other, Reply(c, call)
  PROVE  /\ calls' \in [Slots -> CallType]
         /\ \A d \in Slots : calls'[d].kind = "add" => calls'[d].other \in Users
         /\ calls' = [calls EXCEPT ![c] = [call EXCEPT !.served = TRUE]]
<1> DEFINE served == [call EXCEPT !.served = TRUE]
<1>1. served \in CallType /\ served.kind = call.kind /\ served.other = call.other
  BY DEF CallType
<1>2. calls' = [calls EXCEPT ![c] = served]
  BY DEF Reply
<1> HIDE DEF served
<1>3. ASSUME NEW d \in Slots
      PROVE  calls'[d].kind = "add" => calls'[d].other \in Users
  <2>1. CASE d = c
    BY <1>1, <1>2, <2>1 DEF TypeOK
  <2>2. CASE d # c
    BY <1>2, <2>2 DEF TypeOK
  <2> QED
    BY <2>1, <2>2
<1> QED
  BY <1>1, <1>2, <1>3 DEF TypeOK, served

Listed(u) == [id \in 1 .. Len(members) |-> IF u \in members[id] THEN members[id] ELSE {}]

(* What is listed for a user is a list of sets of users.                    *)
LEMMA ListedType ==
  ASSUME TypeOK, NEW u \in Someone
  PROVE  Listed(u) \in Lists /\ Len(Listed(u)) = Len(members)
<1>1. Len(members) \in Nat /\ \A id \in 1..Len(members) : members[id] \in SUBSET Users
  BY DEF TypeOK, Lists
<1> QED
  BY <1>1 DEF Listed, Lists

(* Adding a user to one workspace leaves as many, each with its users.      *)
LEMMA AddedMember ==
  ASSUME NEW mem \in Lists, NEW id \in Nat, NEW u \in Users, NEW more,
         more = [i \in 1..Len(mem) |-> IF i = id THEN mem[i] \cup {u} ELSE mem[i]]
  PROVE  /\ more \in Lists /\ Len(more) = Len(mem) /\ Len(mem) \in Nat
         /\ \A i \in 1..Len(mem) : mem[i] \subseteq more[i]
<1>1. /\ Len(mem) \in Nat
      /\ \A i \in 1..Len(mem) : mem[i] \in SUBSET Users
  BY DEF Lists
<1>2. more \in Seq(SUBSET Users) /\ Len(more) = Len(mem)
  BY <1>1
<1> QED
  BY <1>1, <1>2 DEF Lists

(* What an AddWorkspaceUser writes.                                         *)
AddedTo(c) ==
  [i \in 1..Len(members) |-> IF i = calls[c].id THEN members[i] \cup {calls[c].other}
                             ELSE members[i]]

(* The handler's update of the members, as a function of the index.         *)
LEMMA MembersAdded ==
  ASSUME TypeOK, NEW c \in Slots
  PROVE  [members EXCEPT ![calls[c].id] = @ \cup {calls[c].other}] = AddedTo(c)
<1>1. members = [i \in 1..Len(members) |-> members[i]]
  BY DEF TypeOK, Lists
<1> QED
  BY <1>1 DEF AddedTo

(* The handlers of the server keep the types.                               *)
LEMMA ServeType ==
  ASSUME TypeOK, NEW c \in Slots, Serve(c)
  PROVE  TypeOK'
<1> USE DEF TypeOK
<1>1. calls[c] \in CallType
  OBVIOUS
<1>2. CASE ServeGetMe(c)
  <2> DEFINE call == [calls[c] EXCEPT !.ok = calls[c].user # Nobody,
                                      !.needs = calls[c].user \notin onboarded]
  <2>1. call \in CallType /\ call.kind = calls[c].kind /\ call.other = calls[c].other
    BY <1>1 DEF CallType
  <2>2. Reply(c, call)
    BY <1>2 DEF ServeGetMe
  <2> HIDE DEF call
  <2> QED
    BY <1>2, <2>1, <2>2, Replied DEF ServeGetMe, client, server, history
<1>3. CASE ServeCompleteOnboarding(c)
  <2>1. CASE calls[c].user = Nobody
    BY <1>1, <1>3, <2>1, Replied DEF ServeCompleteOnboarding, client, server, history
  <2>2. CASE calls[c].user # Nobody
    <3> DEFINE call == [calls[c] EXCEPT !.ok = TRUE]
    <3>1. call \in CallType /\ call.kind = calls[c].kind /\ call.other = calls[c].other
      BY <1>1 DEF CallType
    <3>2. calls[c].user \in Users
      BY <1>1, <2>2 DEF CallType, Someone
    <3>3. /\ Reply(c, call) /\ members' = Append(members, {calls[c].user})
          /\ onboarded' = onboarded \cup {calls[c].user}
      BY <1>3, <2>2 DEF ServeCompleteOnboarding
    <3>4. members' \in Lists /\ onboarded' \in SUBSET Users
      BY <3>2, <3>3 DEF Lists
    <3> HIDE DEF call
    <3> QED
      BY <1>3, <3>1, <3>3, <3>4, Replied DEF ServeCompleteOnboarding, client, history
  <2> QED
    BY <2>1, <2>2
<1>4. CASE ServeListWorkspaces(c)
  <2> DEFINE ok == calls[c].user \in onboarded
             list == Listed(calls[c].user)
             call == [calls[c] EXCEPT !.ok = ok, !.list = list]
  <2>1. calls[c].user \in Someone
    BY <1>1 DEF CallType
  <2>2. ok \in BOOLEAN /\ list \in Lists
    BY <2>1, ListedType
  <2>3. Reply(c, call)
    BY <1>4 DEF ServeListWorkspaces, Listed
  <2> HIDE DEF ok, list
  <2>4. call \in CallType /\ call.kind = calls[c].kind /\ call.other = calls[c].other
    BY <1>1, <2>2 DEF CallType
  <2> HIDE DEF call
  <2> QED
    BY <1>4, <2>3, <2>4, Replied DEF ServeListWorkspaces, client, server, history
<1>5. CASE ServeAddWorkspaceUser(c)
  <2> DEFINE may == calls[c].user \in onboarded /\ calls[c].user \in members[calls[c].id]
             call == [calls[c] EXCEPT !.ok = may]
  <2>1. call \in CallType /\ call.kind = calls[c].kind /\ call.other = calls[c].other
    BY <1>1 DEF CallType
  <2>2. /\ Reply(c, call)
        /\ members' = IF may THEN [members EXCEPT ![calls[c].id] = @ \cup {calls[c].other}]
                      ELSE members
        /\ calls[c].other \in Users
    BY <1>5 DEF ServeAddWorkspaceUser, Asked
  <2>3. members' \in Lists
    <3>1. CASE ~may
      BY <2>2, <3>1
    <3>2. CASE may
      <4>1. members' = AddedTo(c)
        BY <2>2, <3>2, MembersAdded
      <4>2. members \in Lists /\ calls[c].id \in Nat /\ calls[c].other \in Users
        BY <1>1, <2>2 DEF CallType
      <4>3. AddedTo(c) \in Lists
        BY <4>2, AddedMember DEF AddedTo
      <4> QED
        BY <4>1, <4>3
    <3> QED
      BY <3>1, <3>2
  <2> HIDE DEF call, may
  <2> QED
    BY <1>5, <2>1, <2>2, <2>3, Replied DEF ServeAddWorkspaceUser, client, history
<1> QED
  BY <1>2, <1>3, <1>4, <1>5 DEF Serve

(* The steps of a page and of its calls that leave the account as it is.     *)
PageSteps ==
  \/ SubmitSignUp
  \/ \E u \in Users : AddWorkspaceUser(u)
  \/ \E to \in Pages : ClickSidebar(to)
  \/ \E id \in Ids : SelectWorkspace(id)
  \/ \E c \in Slots : FailCall(c) \/ AnswerListWorkspaces(c) \/ FailListWorkspaces(c)
                      \/ AnswerAddWorkspaceUser(c)

(* Every step changes the account, is one of a page, or is one of the server. *)
LEMMA NextSplit == Next <=> AccountMoves \/ PageSteps \/ \E c \in Slots : Serve(c)
BY DEF Next, AccountMoves, PageSteps, Someone, Answer, Fail

(* One call is made, on a free slot.                                        *)
LEMMA Made ==
  ASSUME TypeOK, NEW call \in CallType, calls' = Placed(calls, <<call>>)
  PROVE  /\ calls' \in [Slots -> CallType]
         /\ \A c \in Slots : calls'[c] = calls[c] \/ calls'[c] = call
<1> DEFINE new == <<call>>
<1>1. new \in Seq(CallType) /\ Len(new) = 1 /\ new[1] = call
  OBVIOUS
<1> HIDE DEF new
<1>2. /\ Placed(calls, new) \in [Slots -> CallType]
      /\ \A c \in Slots :
           \/ Placed(calls, new)[c] = calls[c]
           \/ \E i \in 1..Len(new) : Placed(calls, new)[c] = new[i]
  BY <1>1, PlacedFrom DEF TypeOK
<1>3. calls' = Placed(calls, new)
  BY DEF new
<1> QED
  BY <1>1, <1>2, <1>3

(* Leaving a page marks its calls and no more.                              *)
LEMMA Left ==
  ASSUME TypeOK, NEW to \in Pages, LeavePage(to)
  PROVE  /\ calls' \in [Slots -> CallType]
         /\ \A c \in Slots : calls'[c] = calls[c] \/ calls'[c] = [calls[c] EXCEPT !.left = TRUE]
         /\ \A c \in Slots : calls'[c].kind = "add" => calls'[c].other \in Users
         /\ page' \in Pages /\ submitting' \in BOOLEAN
<1>1. ASSUME NEW c \in Slots
      PROVE  LET call == [calls[c] EXCEPT !.left = TRUE]
             IN  call \in CallType /\ call.kind = calls[c].kind /\ call.other = calls[c].other
  <2>1. calls[c] \in CallType
    BY DEF TypeOK
  <2> QED
    BY <2>1 DEF CallType
<1>2. \A c \in Slots : calls'[c] = calls[c] \/ calls'[c] = [calls[c] EXCEPT !.left = TRUE]
  BY DEF LeavePage
<1> QED
  BY <1>1, <1>2 DEF LeavePage, TypeOK

(* The least of a set of natural numbers is in it.                          *)
LEMMA MinIn ==
  ASSUME NEW S \in SUBSET Nat, S # {}
  PROVE  Min(S) \in S
<1> DEFINE less == OpToRel(<, Nat)
<1>1. less = {ss \in Nat \X Nat : ss[1] < ss[2]}
  BY DEF OpToRel
<1>2. IsWellFoundedOn(less, Nat)
  BY NatLessThanWellFounded
<1> HIDE DEF less
<1>3. PICK x \in S : \A y \in S : <<y, x>> \notin less
  BY <1>2, WFMin
<1>4. \A y \in S : x <= y
  <2> SUFFICES ASSUME NEW y \in S, y < x PROVE FALSE
    OBVIOUS
  <2>1. <<y, x>> \in less
    BY <1>1
  <2> QED
    BY <1>3, <2>1
<1> QED
  BY <1>4 DEF Min

(* The workspace chosen is a workspace or none.                             *)
LEMMA ChosenType ==
  ASSUME TypeOK, NEW list \in Lists
  PROVE  Chosen(list) \in Nat
<1> DEFINE has(id) == id # NoWorkspace /\ id <= Len(list) /\ list[id] # {}
           some == {id \in Ids : has(id)}
<1>1. ASSUME some # {} PROVE Min(some) \in Nat
  BY <1>1, MinIn DEF Ids
<1>2. Chosen(list) = IF has(provider.selected) THEN provider.selected
                     ELSE IF has(stored) THEN stored
                     ELSE IF some # {} THEN Min(some)
                     ELSE NoWorkspace
  <2> HIDE DEF some
  <2>1. some = {id \in Ids : has(id)}
    BY DEF some
  <2>2. (\E id \in Ids : has(id)) <=> some # {}
    BY <2>1
  <2> QED
    BY <2>1, <2>2 DEF Chosen
<1>3. provider.selected \in Nat /\ stored \in Nat
  BY DEF TypeOK, ProviderType
<1> HIDE DEF has, some
<1> QED
  BY <1>1, <1>2, <1>3 DEF NoWorkspace

(* An answer or a failure ends a call.                                      *)
LEMMA Ended ==
  ASSUME TypeOK, NEW c \in Slots, calls' = Without(c)
  PROVE  /\ calls' \in [Slots -> CallType]
         /\ \A d \in Slots : calls'[d] = calls[d] \/ calls'[d] = NoCall
         /\ \A d \in Slots : calls'[d].kind = "add" => calls'[d].other \in Users
<1>1. NoCall.kind = "none"
  BY DEF NoCall
<1> QED
  BY <1>1, WithoutType DEF TypeOK

(* The steps of a page keep the types.                                      *)
LEMMA PageType ==
  ASSUME TypeOK, PageSteps
  PROVE  TypeOK'
<1> USE DEF TypeOK
<1>1. CASE SubmitSignUp
  <2> DEFINE call == Call("onboard", firebase)
  <2>1. call \in CallType
    BY NoCallType
  <2>2. call.kind = "onboard"
    BY DEF Call, NoCall
  <2>3. calls' = Placed(calls, <<call>>)
    BY <1>1 DEF SubmitSignUp
  <2> HIDE DEF call
  <2>4. /\ calls' \in [Slots -> CallType]
        /\ \A c \in Slots : calls'[c] = calls[c] \/ calls'[c] = call
    BY <2>1, <2>3, Made
  <2>5. \A c \in Slots : calls'[c].kind = "add" => calls'[c].other \in Users
    BY <2>2, <2>4
  <2>6. resubmitted' \in SUBSET Someone
    BY <1>1 DEF SubmitSignUp
  <2> QED
    BY <1>1, <2>4, <2>5, <2>6 DEF SubmitSignUp, server
<1>2. ASSUME NEW u \in Users, AddWorkspaceUser(u)
      PROVE  TypeOK'
  <2> DEFINE call == [Call("add", firebase) EXCEPT !.id = Current(provider), !.other = u]
  <2>1. Current(provider) \in Nat
    BY DEF Current, Known, Ids, NoWorkspace
  <2>2. Call("add", firebase) \in CallType
    BY NoCallType
  <2>3. call \in CallType /\ call.other = u
    BY <2>1, <2>2 DEF CallType, Someone
  <2>4. calls' = Placed(calls, <<call>>)
    BY <1>2 DEF AddWorkspaceUser
  <2> HIDE DEF call
  <2>5. /\ calls' \in [Slots -> CallType]
        /\ \A c \in Slots : calls'[c] = calls[c] \/ calls'[c] = call
    BY <2>3, <2>4, Made
  <2>6. \A c \in Slots : calls'[c].kind = "add" => calls'[c].other \in Users
    BY <2>3, <2>5
  <2> QED
    BY <1>2, <2>5, <2>6 DEF AddWorkspaceUser, server, history
<1>3. ASSUME NEW to \in Pages, ClickSidebar(to)
      PROVE  TypeOK'
  BY <1>3, Left DEF ClickSidebar, server, history
<1>4. ASSUME NEW id \in Ids, SelectWorkspace(id)
      PROVE  TypeOK'
  <2>1. "projects" \in Pages /\ id \in Nat
    BY DEF Pages, Ids
  <2>2. provider' \in ProviderType
    BY <1>4, <2>1 DEF SelectWorkspace, ProviderType
  <2> QED
    BY <1>4, <2>1, <2>2, Left DEF SelectWorkspace, server, history
<1>5. ASSUME NEW c \in Slots, FailCall(c)
      PROVE  TypeOK'
  BY <1>5, Ended DEF FailCall, server, history
<1>6. ASSUME NEW c \in Slots, AnswerListWorkspaces(c)
      PROVE  TypeOK'
  <2>1. calls' = Without(c) /\ UNCHANGED <<firebase, account, page, server, history>>
    BY <1>6 DEF AnswerListWorkspaces
  <2>2. provider' \in ProviderType /\ stored' \in Nat /\ submitting' \in BOOLEAN
    <3>1. CASE calls[c].gone
      BY <1>6, <3>1 DEF AnswerListWorkspaces
    <3>2. CASE ~calls[c].gone
      <4>1. calls[c].list \in Lists
        BY DEF CallType
      <4>2. Chosen(calls[c].list) \in Nat
        BY <4>1, ChosenType
      <4>3. provider' = [known |-> calls[c].list, selected |-> Chosen(calls[c].list),
                         loading |-> FALSE]
        BY <1>6, <3>2 DEF AnswerListWorkspaces
      <4>4. provider' \in ProviderType /\ provider'.selected \in Nat
        BY <4>1, <4>2, <4>3 DEF ProviderType
      <4> QED
        BY <1>6, <3>2, <4>4 DEF AnswerListWorkspaces
    <3> QED
      BY <3>1, <3>2
  <2> QED
    BY <2>1, <2>2, Ended DEF server, history
<1>7. ASSUME NEW c \in Slots, FailListWorkspaces(c)
      PROVE  TypeOK'
  <2>1. provider' \in ProviderType
    BY <1>7 DEF FailListWorkspaces, ProviderType
  <2> QED
    BY <1>7, <2>1, Ended DEF FailListWorkspaces, server, history
<1>8. ASSUME NEW c \in Slots, AnswerAddWorkspaceUser(c)
      PROVE  TypeOK'
  <2> DEFINE call == [Call("relist", firebase) EXCEPT !.gone = calls[c].gone,
                                                      !.left = calls[c].left]
  <2>1. Call("relist", firebase) \in CallType /\ Call("relist", firebase).kind = "relist"
    BY NoCallType DEF Call, NoCall
  <2>2. call \in CallType /\ call.kind = "relist"
    BY <2>1 DEF CallType
  <2>3. calls' = [calls EXCEPT ![c] = call]
    BY <1>8 DEF AnswerAddWorkspaceUser
  <2> HIDE DEF call
  <2>4. /\ calls' \in [Slots -> CallType]
        /\ \A d \in Slots : calls'[d].kind = "add" => calls'[d].other \in Users
    BY <2>2, <2>3
  <2>5. provider' \in ProviderType
    BY <1>8 DEF AnswerAddWorkspaceUser, ProviderType
  <2> QED
    BY <1>8, <2>4, <2>5 DEF AnswerAddWorkspaceUser, server, history
<1> QED
  BY <1>1, <1>2, <1>3, <1>4, <1>5, <1>6, <1>7, <1>8 DEF PageSteps

(* The state of the browser, the calls and the database stay of their types: *)
(* whoever answers what, and whenever.                                      *)
THEOREM TypeCorrect == Spec => []TypeOK
<1>1. TypeOK /\ [Next]_vars => TypeOK'
  <2> SUFFICES ASSUME TypeOK, [Next]_vars PROVE TypeOK'
    OBVIOUS
  <2>1. CASE UNCHANGED vars
    BY <2>1 DEF TypeOK, vars, client, server, history
  <2>2. CASE Next
    BY <2>2, NextSplit, Moving, MovesType, PageType, ServeType
  <2> QED
    BY <2>1, <2>2
<1> QED
  BY <1>1, TypeInit, PTL DEF Spec

-----------------------------------------------------------------------------
(* The account shown *)

(* Other steps leave the account and who is signed in alone.                *)
LEMMA OthersKeepAccount ==
  ASSUME PageSteps \/ (\E c \in Slots : Serve(c)) \/ UNCHANGED vars
  PROVE  UNCHANGED <<firebase, account, crossed>>
<1>1. CASE PageSteps
  BY <1>1 DEF PageSteps, SubmitSignUp, AddWorkspaceUser, ClickSidebar, SelectWorkspace, FailCall,
     AnswerListWorkspaces, FailListWorkspaces, AnswerAddWorkspaceUser, history
<1>2. CASE \E c \in Slots : Serve(c)
  BY <1>2 DEF Serve, ServeGetMe, ServeCompleteOnboarding, ServeListWorkspaces,
     ServeAddWorkspaceUser, client, history
<1>3. CASE UNCHANGED vars
  BY <1>3 DEF vars, client, history
<1> QED
  BY <1>1, <1>2, <1>3

(* The application shows nobody else's account than that of whoever is signed *)
(* in, until the answer to a GetMe made for an earlier user was taken over:  *)
(* AuthProvider shows "loading" from a sign-in to the next answer.          *)
THEOREM ShowsSignedInUserHolds == Spec => []ShowsSignedInUser
<1>1. Init => ShowsInv
  BY DEF Init, ShowsInv
<1>2. TypeOK /\ ShowsInv /\ [Next]_vars => ShowsInv'
  <2> SUFFICES ASSUME TypeOK, ShowsInv, [Next]_vars PROVE ShowsInv'
    OBVIOUS
  <2>1. CASE AccountMoves
    BY <2>1, Moving
  <2>2. CASE PageSteps \/ (\E c \in Slots : Serve(c)) \/ UNCHANGED vars
    BY <2>2, OthersKeepAccount DEF ShowsInv
  <2> QED
    BY <2>1, <2>2, NextSplit
<1>3. TypeOK /\ ShowsInv => ShowsSignedInUser
  <2> SUFFICES ASSUME TypeOK, ShowsInv, Screen(account) = "app", ~crossed
               PROVE  account.user = firebase
    BY DEF ShowsSignedInUser
  <2>1. ~account.loadingMe /\ account.user # Nobody
    BY AppScreen DEF TypeOK
  <2> QED
    BY <2>1 DEF ShowsInv
<1> QED
  BY <1>1, <1>2, <1>3, TypeCorrect, PTL DEF Spec

-----------------------------------------------------------------------------
(* The workspaces known are those of whoever is signed in *)

Fits(list, u, mem) ==
  \A id \in 1..Len(list) : id <= Len(mem) /\ (list[id] # {} => u \in mem[id])

(* A listing that its screen still waits for was asked for by whoever is     *)
(* signed in, and lists workspaces of the user who asked.                   *)
OwnCall(call, screen, who, mem) ==
  /\ call.kind \in {"list", "relist", "add"} /\ ~call.gone => screen = "app" /\ call.user = who
  /\ call.kind \in {"list", "relist"}
       => Fits(call.list, call.user, mem) /\ (call.ok => call.list # <<>>)

OwnInv ==
  /\ \A c \in Slots : OwnCall(calls[c], Screen(account), firebase, members)
  /\ onboarded # {} => members # <<>>
  /\ Fits(provider.known, firebase, members)

(* Nobody is taken out of a workspace, and none is deleted.                 *)
Grows(mem, more) ==
  /\ Len(mem) <= Len(more)
  /\ \A id \in 1..Len(mem) : mem[id] \subseteq more[id]

(* What fits the members fits more of them.                                 *)
LEMMA FitsGrown ==
  ASSUME NEW list \in Lists, NEW u, NEW mem \in Lists, NEW more \in Lists,
         Grows(mem, more), Fits(list, u, mem)
  PROVE  Fits(list, u, more)
<1> SUFFICES ASSUME NEW id \in 1..Len(list)
             PROVE  id <= Len(more) /\ (list[id] # {} => u \in more[id])
  BY DEF Fits
<1>1. Len(list) \in Nat /\ Len(mem) \in Nat /\ Len(more) \in Nat
  BY DEF Lists
<1>2. id \in 1..Len(mem) /\ (list[id] # {} => u \in mem[id])
  BY <1>1 DEF Fits
<1> QED
  BY <1>1, <1>2 DEF Grows

(* No call and no workspace is known at the start.                          *)
LEMMA OwnInit == Init => OwnInv
<1> SUFFICES ASSUME Init PROVE OwnInv
  OBVIOUS
<1>1. \A c \in Slots : calls[c].kind = "none"
  BY DEF Init, NoCall
<1>2. Len(provider.known) = 0
  BY DEF Init, Unmounted
<1>3. onboarded # {} => members # <<>>
  BY DEF Init
<1> QED
  BY <1>1, <1>2, <1>3 DEF OwnInv, OwnCall, Fits

(* A move keeps only listings for whoever is signed in then.                *)
LEMMA OwnMoves ==
  ASSUME TypeOK, OwnInv, Moves
  PROVE  OwnInv'
<1>1. members' = members /\ onboarded' = onboarded
  BY DEF Moves, server
<1>2. ASSUME NEW c \in Slots
      PROVE  OwnCall(calls'[c], Screen(account'), firebase', members)
  <2>1. CASE /\ calls'[c] = calls[c]
             /\ Screen(account') = Screen(account) \/ calls[c].kind \in {"me", "none"}
    BY <2>1 DEF Moves, OwnInv, OwnCall
  <2>2. CASE calls'[c] = [calls[c] EXCEPT !.gone = TRUE]
    <3>1. calls[c] \in CallType
      BY DEF TypeOK
    <3>2. /\ calls'[c].kind = calls[c].kind /\ calls'[c].gone
          /\ calls'[c].list = calls[c].list /\ calls'[c].user = calls[c].user
          /\ calls'[c].ok = calls[c].ok
      BY <2>2, <3>1 DEF CallType
    <3> QED
      BY <3>2 DEF OwnInv, OwnCall
  <2>3. CASE calls'[c].kind \in {"me", "none"}
    BY <2>3 DEF OwnCall
  <2>4. CASE Screen(account') = "app" /\ calls'[c] = Call("list", firebase')
    <3>1. /\ calls'[c].user = firebase' /\ ~calls'[c].ok /\ Len(calls'[c].list) = 0
      BY <2>4 DEF Call, NoCall
    <3> QED
      BY <2>4, <3>1 DEF OwnCall, Fits
  <2> QED
    BY <2>1, <2>2, <2>3, <2>4 DEF Moves
<1>3. Fits(provider'.known, firebase', members)
  <2>1. CASE provider' = Unmounted
    BY <2>1 DEF Fits, Unmounted
  <2>2. CASE provider' = provider /\ Screen(account') = "app"
    BY <2>2 DEF Moves, OwnInv
  <2> QED
    BY <2>1, <2>2 DEF Moves
<1> QED
  BY <1>1, <1>2, <1>3 DEF OwnInv

(* A step that keeps the account keeps OwnInv if it does for the calls it changes. *)
LEMMA OwnKept ==
  ASSUME TypeOK, TypeOK', OwnInv, UNCHANGED <<firebase, account>>, Grows(members, members'),
         onboarded' # {} => members' # <<>>,
         Fits(provider'.known, firebase, members') \/ provider'.known = provider.known,
         \A c \in Slots : \/ calls'[c] = calls[c]
                          \/ OwnCall(calls'[c], Screen(account), firebase, members')
  PROVE  OwnInv'
<1>1. members \in Lists /\ members' \in Lists /\ provider.known \in Lists
  BY DEF TypeOK, ProviderType
<1>2. ASSUME NEW c \in Slots, calls'[c] = calls[c]
      PROVE  OwnCall(calls'[c], Screen(account), firebase, members')
  <2>1. calls[c].list \in Lists
    BY DEF TypeOK, CallType
  <2>2. OwnCall(calls[c], Screen(account), firebase, members)
    BY DEF OwnInv
  <2> QED
    BY <1>1, <1>2, <2>1, <2>2, FitsGrown DEF OwnCall
<1>3. Fits(provider'.known, firebase, members')
  BY <1>1, FitsGrown DEF OwnInv
<1> QED
  BY <1>2, <1>3 DEF OwnInv

(* The server lists a user's own workspaces, and takes nobody out of one.   *)
LEMMA OwnServe ==
  ASSUME TypeOK, TypeOK', OwnInv, NEW c \in Slots, Serve(c)
  PROVE  OwnInv'
<1>1. /\ calls[c] \in CallType /\ calls'[c] \in CallType /\ members \in Lists
      /\ calls \in [Slots -> CallType]
  BY DEF TypeOK
<1>2. UNCHANGED <<firebase, account, provider>>
  BY DEF Serve, ServeGetMe, ServeCompleteOnboarding, ServeListWorkspaces,
     ServeAddWorkspaceUser, client
<1>3. ASSUME NEW call, calls' = [calls EXCEPT ![c] = call]
      PROVE  \A d \in Slots : calls'[d] = calls[d] \/ (d = c /\ calls'[d] = call)
  BY <1>1, <1>3
<1>4. Grows(members, members)
  BY <1>1 DEF Grows, Lists
<1>5. CASE ServeGetMe(c)
  <2> DEFINE call == [[calls[c] EXCEPT !.ok = calls[c].user # Nobody,
                                       !.needs = calls[c].user \notin onboarded]
                        EXCEPT !.served = TRUE]
  <2>1. call.kind = "me"
    BY <1>1, <1>5 DEF ServeGetMe, Asked, CallType
  <2>2. calls' = [calls EXCEPT ![c] = call]
    BY <1>5 DEF ServeGetMe, Reply
  <2> HIDE DEF call
  <2>3. OwnCall(call, Screen(account), firebase, members)
    BY <2>1 DEF OwnCall
  <2>4. members' = members /\ onboarded' = onboarded
    BY <1>5 DEF ServeGetMe, server
  <2>5. \A d \in Slots : calls'[d] = calls[d]
                         \/ OwnCall(calls'[d], Screen(account), firebase, members')
    BY <1>3, <2>2, <2>3, <2>4
  <2> QED
    BY <1>2, <1>4, <2>4, <2>5, OwnKept DEF OwnInv
<1>6. CASE ServeCompleteOnboarding(c)
  <2>1. calls[c].kind = "onboard"
    BY <1>6 DEF ServeCompleteOnboarding, Asked
  <2>2. PICK call \in {calls[c], [calls[c] EXCEPT !.ok = TRUE]} : Reply(c, call)
    BY <1>6 DEF ServeCompleteOnboarding
  <2>3. [call EXCEPT !.served = TRUE].kind = "onboard"
    BY <1>1, <2>1, <2>2 DEF CallType
  <2>4. OwnCall([call EXCEPT !.served = TRUE], Screen(account), firebase, members')
    BY <2>3 DEF OwnCall
  <2>5. calls' = [calls EXCEPT ![c] = [call EXCEPT !.served = TRUE]]
    BY <2>2 DEF Reply
  <2>6. \A d \in Slots : calls'[d] = calls[d]
                         \/ OwnCall(calls'[d], Screen(account), firebase, members')
    BY <1>3, <2>4, <2>5
  <2>7. Grows(members, members') /\ (onboarded' # {} => members' # <<>>)
    <3>1. CASE calls[c].user = Nobody
      BY <1>4, <1>6, <3>1 DEF ServeCompleteOnboarding, server, OwnInv
    <3>2. CASE calls[c].user # Nobody
      <4>1. members' = Append(members, {calls[c].user}) /\ members \in Seq(SUBSET Users)
        BY <1>1, <1>6, <3>2 DEF ServeCompleteOnboarding, Lists
      <4> QED
        BY <4>1 DEF Grows
    <3> QED
      BY <3>1, <3>2
  <2> QED
    BY <1>2, <2>6, <2>7, OwnKept
<1>7. CASE ServeListWorkspaces(c)
  <2> DEFINE ok == calls[c].user \in onboarded
             list == Listed(calls[c].user)
             call == [[calls[c] EXCEPT !.ok = ok, !.list = list] EXCEPT !.served = TRUE]
  <2>1. /\ calls' = [calls EXCEPT ![c] = call] /\ calls[c].kind \in {"list", "relist"}
    BY <1>7 DEF ServeListWorkspaces, Reply, Listed, Asked
  <2>2. /\ Fits(list, calls[c].user, members)
        /\ ok => list # <<>>
    <3>1. list = [id \in 1 .. Len(members) |->
                     IF calls[c].user \in members[id] THEN members[id] ELSE {}]
      BY DEF Listed
    <3>2. list \in Lists /\ Len(list) = Len(members) /\ Len(members) \in Nat
      BY <1>1, ListedType DEF CallType, Lists
    <3>3. ok => Len(members) # 0
      BY <1>1 DEF OwnInv, Lists
    <3> HIDE DEF list
    <3>4. ok => list # <<>>
      BY <3>2, <3>3
    <3>5. Fits(list, calls[c].user, members)
      BY <3>1, <3>2 DEF Fits
    <3> QED
      BY <3>4, <3>5
  <2> HIDE DEF ok, list
  <2>3. /\ call.kind = calls[c].kind /\ call.gone = calls[c].gone
        /\ call.user = calls[c].user /\ call.list = list /\ call.ok = ok
    BY <1>1 DEF CallType
  <2> HIDE DEF call
  <2>4. OwnCall(call, Screen(account), firebase, members)
    BY <2>1, <2>2, <2>3 DEF OwnCall, OwnInv
  <2>5. members' = members /\ onboarded' = onboarded
    BY <1>7 DEF ServeListWorkspaces, server
  <2>6. \A d \in Slots : calls'[d] = calls[d]
                         \/ OwnCall(calls'[d], Screen(account), firebase, members')
    BY <1>3, <2>1, <2>4, <2>5
  <2> QED
    BY <1>2, <1>4, <2>5, <2>6, OwnKept DEF OwnInv
<1>8. CASE ServeAddWorkspaceUser(c)
  <2> DEFINE may == calls[c].user \in onboarded /\ calls[c].user \in members[calls[c].id]
             call == [[calls[c] EXCEPT !.ok = may] EXCEPT !.served = TRUE]
  <2>1. /\ calls' = [calls EXCEPT ![c] = call] /\ calls[c].kind = "add"
        /\ members' = IF may THEN [members EXCEPT ![calls[c].id] = @ \cup {calls[c].other}]
                      ELSE members
        /\ onboarded' = onboarded
    BY <1>8 DEF ServeAddWorkspaceUser, Reply, Asked
  <2>2. /\ call.kind = calls[c].kind /\ call.gone = calls[c].gone /\ call.user = calls[c].user
    BY <1>1 DEF CallType
  <2> HIDE DEF call, may
  <2>3. OwnCall(call, Screen(account), firebase, members')
    BY <2>1, <2>2 DEF OwnCall, OwnInv
  <2>4. Grows(members, members') /\ Len(members') = Len(members)
    <3>1. CASE ~may
      BY <1>4, <2>1, <3>1
    <3>2. CASE may
      <4>1. calls[c].other \in Users /\ calls[c].id \in Nat
        BY <1>1, <2>1 DEF TypeOK, CallType
      <4>2. members' = AddedTo(c)
        BY <2>1, <3>2, MembersAdded
      <4>3. /\ Len(members') = Len(members) /\ Len(members) \in Nat
            /\ \A i \in 1..Len(members) : members[i] \subseteq members'[i]
        BY <1>1, <4>1, <4>2, AddedMember DEF AddedTo
      <4> QED
        BY <4>3 DEF Grows
    <3> QED
      BY <3>1, <3>2
  <2>5. onboarded' # {} => members' # <<>>
    BY <1>1, <2>1, <2>4 DEF OwnInv, Lists
  <2>6. \A d \in Slots : calls'[d] = calls[d]
                         \/ OwnCall(calls'[d], Screen(account), firebase, members')
    BY <1>3, <2>1, <2>3
  <2> QED
    BY <1>2, <2>4, <2>5, <2>6, OwnKept
<1> QED
  BY <1>5, <1>6, <1>7, <1>8 DEF Serve

(* A page takes over a listing only if its screen is still shown.           *)
LEMMA OwnPage ==
  ASSUME TypeOK, TypeOK', OwnInv, PageSteps
  PROVE  OwnInv'
<1>1. UNCHANGED <<firebase, account, members, onboarded>>
  BY DEF PageSteps, SubmitSignUp, AddWorkspaceUser, ClickSidebar, SelectWorkspace, FailCall,
     AnswerListWorkspaces, FailListWorkspaces, AnswerAddWorkspaceUser, server
<1>2. Grows(members, members') /\ (onboarded' # {} => members' # <<>>)
  BY <1>1 DEF TypeOK, Lists, Grows, OwnInv
<1>3. OwnCall(NoCall, Screen(account), firebase, members')
  BY DEF OwnCall, NoCall
<1>4. \A c \in Slots : calls[c] \in CallType /\ calls[c].list \in Lists
  BY DEF TypeOK, CallType
<1>5. ASSUME NEW c \in Slots
      PROVE  OwnCall([calls[c] EXCEPT !.left = TRUE], Screen(account), firebase, members')
  <2> DEFINE call == [calls[c] EXCEPT !.left = TRUE]
  <2>1. /\ call.kind = calls[c].kind /\ call.gone = calls[c].gone
        /\ call.user = calls[c].user /\ call.list = calls[c].list /\ call.ok = calls[c].ok
    BY <1>4 DEF CallType
  <2> HIDE DEF call
  <2> QED
    BY <1>1, <2>1 DEF OwnInv, OwnCall, call
<1>6. \A to \in Pages : LeavePage(to) =>
        \A c \in Slots : calls'[c] = calls[c]
                         \/ OwnCall(calls'[c], Screen(account), firebase, members')
  BY <1>5, Left
<1>7. \A c \in Slots : calls' = Without(c) =>
        \A d \in Slots : calls'[d] = calls[d]
                         \/ OwnCall(calls'[d], Screen(account), firebase, members')
  BY <1>3, Ended
<1>8. CASE SubmitSignUp
  <2> DEFINE call == Call("onboard", firebase)
  <2>1. call \in CallType /\ call.kind = "onboard"
    BY NoCallType DEF TypeOK, Call, NoCall
  <2>2. calls' = Placed(calls, <<call>>) /\ UNCHANGED provider
    BY <1>8 DEF SubmitSignUp
  <2> HIDE DEF call
  <2>3. OwnCall(call, Screen(account), firebase, members')
    BY <2>1 DEF OwnCall
  <2>4. \A c \in Slots : calls'[c] = calls[c] \/ calls'[c] = call
    BY <2>1, <2>2, Made
  <2> QED
    BY <1>1, <1>2, <2>2, <2>3, <2>4, OwnKept
<1>9. ASSUME NEW u \in Users, AddWorkspaceUser(u)
      PROVE  OwnInv'
  <2> DEFINE base == Call("add", firebase)
             call == [base EXCEPT !.id = Current(provider), !.other = u]
  <2>1. base \in CallType /\ base.kind = "add" /\ base.user = firebase
    BY NoCallType DEF TypeOK, Call, NoCall
  <2>2. Current(provider) \in Nat
    BY DEF Current, Known, Ids, NoWorkspace
  <2>3. calls' = Placed(calls, <<call>>) /\ UNCHANGED provider /\ Screen(account) = "app"
    BY <1>9 DEF AddWorkspaceUser, OnSettings
  <2> HIDE DEF base
  <2>4. call \in CallType /\ call.kind = "add" /\ call.user = firebase
    BY <2>1, <2>2 DEF CallType, Someone
  <2> HIDE DEF call
  <2>5. OwnCall(call, Screen(account), firebase, members')
    BY <2>3, <2>4 DEF OwnCall
  <2>6. \A c \in Slots : calls'[c] = calls[c] \/ calls'[c] = call
    BY <2>3, <2>4, Made
  <2> QED
    BY <1>1, <1>2, <2>3, <2>5, <2>6, OwnKept
<1>10. ASSUME NEW to \in Pages, ClickSidebar(to)
       PROVE  OwnInv'
  BY <1>1, <1>2, <1>6, <1>10, OwnKept DEF ClickSidebar
<1>11. ASSUME NEW id \in Ids, SelectWorkspace(id)
       PROVE  OwnInv'
  <2>1. LeavePage("projects") /\ "projects" \in Pages
    BY <1>11 DEF SelectWorkspace, Pages
  <2>2. provider'.known = provider.known
    BY <1>11 DEF SelectWorkspace, TypeOK, ProviderType
  <2> QED
    BY <1>1, <1>2, <1>6, <2>1, <2>2, OwnKept
<1>12. ASSUME NEW c \in Slots, FailCall(c)
       PROVE  OwnInv'
  BY <1>1, <1>2, <1>7, <1>12, OwnKept DEF FailCall
<1>13. ASSUME NEW c \in Slots, AnswerListWorkspaces(c)
       PROVE  OwnInv'
  <2>1. calls' = Without(c) /\ calls[c].kind \in {"list", "relist"}
    BY <1>13 DEF AnswerListWorkspaces, Good
  <2>2. Fits(provider'.known, firebase, members') \/ provider'.known = provider.known
    <3>1. CASE calls[c].gone
      BY <1>13, <3>1 DEF AnswerListWorkspaces
    <3>2. CASE ~calls[c].gone
      <4>1. provider'.known = calls[c].list
        BY <1>13, <3>2 DEF AnswerListWorkspaces
      <4> QED
        BY <1>1, <2>1, <3>2, <4>1 DEF OwnInv, OwnCall
    <3> QED
      BY <3>1, <3>2
  <2> QED
    BY <1>1, <1>2, <1>7, <2>1, <2>2, OwnKept
<1>14. ASSUME NEW c \in Slots, FailListWorkspaces(c)
       PROVE  OwnInv'
  <2>1. calls' = Without(c)
    BY <1>14 DEF FailListWorkspaces
  <2>2. provider'.known = provider.known
    BY <1>14 DEF FailListWorkspaces, TypeOK, ProviderType
  <2> QED
    BY <1>1, <1>2, <1>7, <2>1, <2>2, OwnKept
<1>15. ASSUME NEW c \in Slots, AnswerAddWorkspaceUser(c)
       PROVE  OwnInv'
  <2> DEFINE base == Call("relist", firebase)
             call == [base EXCEPT !.gone = calls[c].gone, !.left = calls[c].left]
  <2>1. /\ base \in CallType /\ base.kind = "relist" /\ base.user = firebase
        /\ ~base.ok /\ base.list = <<>>
    BY NoCallType DEF TypeOK, Call, NoCall
  <2>2. calls' = [calls EXCEPT ![c] = call] /\ calls[c].kind = "add"
    BY <1>15 DEF AnswerAddWorkspaceUser, Good
  <2> HIDE DEF base
  <2>3. /\ call.kind = "relist" /\ call.user = firebase /\ call.gone = calls[c].gone
        /\ ~call.ok /\ call.list = <<>>
    BY <2>1 DEF CallType
  <2> HIDE DEF call
  <2>4. OwnCall(call, Screen(account), firebase, members')
    BY <2>2, <2>3 DEF OwnCall, OwnInv, Fits
  <2>5. \A d \in Slots : calls'[d] = calls[d] \/ calls'[d] = call
    BY <2>2 DEF TypeOK
  <2>6. provider'.known = provider.known
    BY <1>15 DEF AnswerAddWorkspaceUser, TypeOK, ProviderType
  <2> QED
    BY <1>1, <1>2, <2>4, <2>5, <2>6, OwnKept
<1> QED
  BY <1>8, <1>9, <1>10, <1>11, <1>12, <1>13, <1>14, <1>15 DEF PageSteps

(* OwnInv is inductive.                                                     *)
LEMMA OwnNext == TypeOK /\ TypeOK' /\ OwnInv /\ [Next]_vars => OwnInv'
<1> SUFFICES ASSUME TypeOK, TypeOK', OwnInv, [Next]_vars PROVE OwnInv'
  OBVIOUS
<1>1. CASE UNCHANGED vars
  BY <1>1 DEF vars, client, server, OwnInv
<1>2. CASE Next
  BY <1>2, NextSplit, Moving, OwnMoves, OwnPage, OwnServe
<1> QED
  BY <1>1, <1>2

(* The workspace that the pages work in is one that whoever is signed in     *)
(* belongs to: a listing for an earlier user is dropped with his screen, and *)
(* a stored selection counts only if it is listed.                          *)
THEOREM WorkspaceIsOwnHolds == Spec => []WorkspaceIsOwn
<1>1. TypeOK /\ OwnInv => WorkspaceIsOwn
  <2> SUFFICES ASSUME TypeOK, OwnInv, Current(provider) # NoWorkspace
               PROVE  firebase \in members[Current(provider)]
    BY DEF WorkspaceIsOwn
  <2>1. Current(provider) \in Known(provider)
    BY DEF Current
  <2>2. Len(provider.known) \in Nat
    BY DEF TypeOK, ProviderType, Lists
  <2> QED
    BY <2>1, <2>2 DEF Known, Ids, OwnInv, Fits
<1> QED
  BY <1>1, OwnInit, OwnNext, TypeCorrect, PTL DEF Spec

(* What a page shows belongs to one workspace, the one worked in when it was *)
(* opened: an answer to a listing keeps it, unless the listing was made      *)
(* before the workspace was, and only the settings select another.          *)
THEOREM PageKeepsWorkspaceHolds == Spec => PageKeepsWorkspace
<1> DEFINE Kept == (/\ Screen(account) = "app" /\ Screen(account') = "app"
                    /\ page # "settings" /\ page' = page /\ Current(provider) # NoWorkspace
                    /\ \A c \in Slots : ~Lacks(calls[c]))
                   => Current(provider') = Current(provider)
<1>1. TypeOK /\ OwnInv /\ [Next]_vars => Kept
  <2> SUFFICES ASSUME TypeOK, OwnInv, [Next]_vars,
                      Screen(account) = "app", Screen(account') = "app",
                      page # "settings", page' = page, Current(provider) # NoWorkspace,
                      \A c \in Slots : ~Lacks(calls[c])
               PROVE  Current(provider') = Current(provider)
    OBVIOUS
  <2>1. /\ Current(provider) \in Known(provider) /\ provider.selected = Current(provider)
        /\ \A d \in Slots : calls[d].list \in Lists
    BY DEF Current, TypeOK, CallType
  <2>2. ASSUME provider'.known = provider.known, provider'.selected = provider.selected
        PROVE  Current(provider') = Current(provider)
    BY <2>2 DEF Current, Known
  <2>3. CASE AccountMoves
    BY <2>2, <2>3, Moving DEF Moves
  <2>4. CASE UNCHANGED provider
    BY <2>2, <2>4
  <2>5. ASSUME NEW c \in Slots, AnswerListWorkspaces(c), ~calls[c].gone
        PROVE  Current(provider') = Current(provider)
    <3> DEFINE list == calls[c].list
               cur == Current(provider)
    <3>1. list # <<>>
      BY <2>5 DEF AnswerListWorkspaces, Good, OwnInv, OwnCall
    <3>2. cur \in 1..Len(list) /\ list[cur] # {} /\ Len(list) \in Nat
      BY <2>1, <3>1 DEF Lacks, Lists
    <3>3. cur \in Ids /\ cur # NoWorkspace /\ cur <= Len(list)
      BY <2>1, <3>2 DEF Known
    <3>4. Chosen(list) = cur
      BY <2>1, <3>2, <3>3 DEF Chosen
    <3>5. provider'.known = list /\ provider'.selected = cur
      BY <2>5, <3>4 DEF AnswerListWorkspaces
    <3> QED
      BY <3>2, <3>3, <3>5 DEF Current, Known
  <2>6. ASSUME NEW c \in Slots, FailListWorkspaces(c) \/ AnswerAddWorkspaceUser(c)
        PROVE  Current(provider') = Current(provider)
    BY <2>2, <2>6 DEF FailListWorkspaces, AnswerAddWorkspaceUser, TypeOK, ProviderType
  <2>7. ASSUME NEW id \in Ids, SelectWorkspace(id)
        PROVE  FALSE
    BY <2>7 DEF SelectWorkspace, OnSettings
  <2>8. CASE PageSteps
    <3>1. ASSUME ~UNCHANGED provider
          PROVE  \/ \E c \in Slots : \/ FailListWorkspaces(c) \/ AnswerAddWorkspaceUser(c)
                                     \/ (AnswerListWorkspaces(c) /\ ~calls[c].gone)
                 \/ \E id \in Ids : SelectWorkspace(id)
      BY <2>8, <3>1 DEF PageSteps, SubmitSignUp, AddWorkspaceUser, ClickSidebar, FailCall,
         AnswerListWorkspaces
    <3> QED
      BY <2>4, <2>5, <2>6, <2>7, <3>1
  <2>9. (\E c \in Slots : Serve(c)) \/ UNCHANGED vars => UNCHANGED provider
    BY DEF Serve, ServeGetMe, ServeCompleteOnboarding, ServeListWorkspaces,
       ServeAddWorkspaceUser, client, vars
  <2> QED
    BY <2>3, <2>4, <2>8, <2>9, NextSplit
<1>2. TypeOK /\ OwnInv /\ [Next]_vars
        => [Kept]_vars
  BY <1>1
<1> QED
  BY <1>2, OwnInit, OwnNext, TypeCorrect, PTL DEF Spec, PageKeepsWorkspace

-----------------------------------------------------------------------------
(* One workspace of his own for each user *)

(* A new call gets one slot.                                                *)
LEMMA MadeOnce ==
  ASSUME TypeOK, NEW call \in CallType, NEW c \in Slots, NEW d \in Slots,
         calls' = Placed(calls, <<call>>), calls'[c] # calls[c], calls'[d] # calls[d]
  PROVE  c = d
<1> DEFINE free == {x \in Slots : calls[x].kind = "none"}
           before(x) == {y \in free : y < x}
           new == <<call>>
<1>1. ASSUME NEW x \in Slots, calls'[x] # calls[x]
      PROVE  x \in free /\ Cardinality(before(x)) = 0
  <2>1. Cardinality(before(x)) \in Nat
    BY SlotCounts
  <2>2. Len(new) = 1
    OBVIOUS
  <2> HIDE DEF new
  <2>3. calls'[x] = IF x \in free /\ Cardinality(before(x)) + 1 <= Len(new)
                    THEN new[Cardinality(before(x)) + 1] ELSE calls[x]
    BY DEF Placed, new
  <2> HIDE DEF before
  <2>4. x \in free /\ Cardinality(before(x)) + 1 <= 1
    BY <1>1, <2>2, <2>3
  <2> QED
    BY <2>1, <2>4
<1>2. ASSUME NEW x \in Slots, NEW y \in Slots, x < y,
             calls'[x] # calls[x], calls'[y] # calls[y]
      PROVE  FALSE
  <2>1. x \in before(y) /\ before(y) \in SUBSET Slots
    BY <1>1, <1>2
  <2>2. IsFiniteSet(before(y)) /\ Cardinality(before(y)) = 0
    BY <1>1, <1>2, <2>1, SlotCounts
  <2> HIDE DEF before
  <2> QED
    BY <2>1, <2>2, FS_EmptySet
<1>3. c < d \/ d < c \/ c = d
  BY DEF Slots
<1> QED
  BY <1>2, <1>3

SigningUp(call, u) == call.kind = "onboard" /\ call.user = u

OneInv ==
  \A u \in Users \ resubmitted :
    /\ \A c, d \in Slots : SigningUp(calls[c], u) /\ SigningUp(calls[d], u) => c = d
    /\ \A c \in Slots : SigningUp(calls[c], u) /\ ~calls[c].served => u \notin onboarded
    /\ u \notin onboarded => \A i \in 1..Len(members) : members[i] # {u}
    /\ \A i, j \in 1..Len(members) : members[i] = {u} /\ members[j] = {u} => i = j

(* A call that signs up did so before, and stays served.                    *)
NoNewSignUp ==
  \A c \in Slots : calls'[c].kind = "onboard" =>
    /\ calls[c].kind = "onboard" /\ calls'[c].user = calls[c].user
    /\ calls[c].served => calls'[c].served

(* A step that adds no sign-up and no workspace of one user keeps OneInv.   *)
LEMMA OneKept ==
  ASSUME TypeOK, OneInv, NoNewSignUp, onboarded' = onboarded, resubmitted' = resubmitted,
         Len(members') = Len(members),
         \A i \in 1..Len(members), u \in Users : members'[i] = {u} => members[i] = {u}
  PROVE  OneInv'
<1> SUFFICES ASSUME NEW u \in Users \ resubmitted
             PROVE
    /\ \A c, d \in Slots : SigningUp(calls'[c], u) /\ SigningUp(calls'[d], u) => c = d
    /\ \A c \in Slots : SigningUp(calls'[c], u) /\ ~calls'[c].served => u \notin onboarded
    /\ u \notin onboarded => \A i \in 1..Len(members) : members'[i] # {u}
    /\ \A i, j \in 1..Len(members) : members'[i] = {u} /\ members'[j] = {u} => i = j
  BY DEF OneInv
<1>1. \A c \in Slots : SigningUp(calls'[c], u) =>
        SigningUp(calls[c], u) /\ (calls[c].served => calls'[c].served)
  BY DEF NoNewSignUp, SigningUp
<1> QED
  BY <1>1 DEF OneInv

(* A move makes no sign-up.                                                 *)
LEMMA OneMoves ==
  ASSUME TypeOK, OneInv, Moves
  PROVE  OneInv'
<1>1. ASSUME NEW c \in Slots, calls'[c].kind = "onboard"
      PROVE  /\ calls[c].kind = "onboard" /\ calls'[c].user = calls[c].user
             /\ calls[c].served => calls'[c].served
  <2>1. CASE calls'[c] = calls[c]
    BY <1>1, <2>1
  <2>2. CASE calls'[c] = [calls[c] EXCEPT !.gone = TRUE]
    <3>1. calls[c] \in CallType
      BY DEF TypeOK
    <3> QED
      BY <1>1, <2>2, <3>1 DEF CallType
  <2>3. calls'[c] # Call("list", firebase')
    BY <1>1 DEF Call, NoCall
  <2> QED
    BY <1>1, <2>1, <2>2, <2>3 DEF Moves
<1>2. UNCHANGED <<members, onboarded, resubmitted>>
  BY DEF Moves, server
<1> QED
  BY <1>1, <1>2, OneKept DEF NoNewSignUp

(* A sign-up that was not submitted before is the user's only one.          *)
LEMMA OneSubmitted ==
  ASSUME TypeOK, OneInv, SubmitSignUp
  PROVE  OneInv'
<1> DEFINE call == Call("onboard", firebase)
<1>1. /\ call \in CallType /\ call.kind = "onboard" /\ call.user = firebase
  BY NoCallType DEF TypeOK, Call, NoCall
<1>2. /\ calls' = Placed(calls, <<call>>) /\ UNCHANGED <<members, onboarded>>
      /\ resubmitted' = IF \/ firebase \in onboarded
                           \/ \E c \in Slots : SigningUp(calls[c], firebase)
                        THEN resubmitted \cup {firebase} ELSE resubmitted
  BY DEF SubmitSignUp, server, SigningUp
<1> HIDE DEF call
<1>3. \A c \in Slots : calls'[c] = calls[c] \/ calls'[c] = call
  BY <1>1, <1>2, Made
<1>4. \A c, d \in Slots : calls'[c] # calls[c] /\ calls'[d] # calls[d] => c = d
  BY <1>1, <1>2, MadeOnce
<1> SUFFICES ASSUME NEW u \in Users, u \notin resubmitted'
             PROVE
    /\ \A c, d \in Slots : SigningUp(calls'[c], u) /\ SigningUp(calls'[d], u) => c = d
    /\ \A c \in Slots : SigningUp(calls'[c], u) /\ ~calls'[c].served => u \notin onboarded
    /\ u \notin onboarded => \A i \in 1..Len(members) : members[i] # {u}
    /\ \A i, j \in 1..Len(members) : members[i] = {u} /\ members[j] = {u} => i = j
  BY <1>2 DEF OneInv
<1>5. u \notin resubmitted
  BY <1>2
<1>6. CASE u = firebase
  <2>1. u \notin onboarded /\ \A c \in Slots : ~SigningUp(calls[c], u)
    BY <1>2, <1>6
  <2>2. \A c \in Slots : SigningUp(calls'[c], u) => calls'[c] # calls[c]
    BY <2>1
  <2> QED
    BY <1>4, <1>5, <2>1, <2>2 DEF OneInv
<1>7. CASE u # firebase
  <2>1. \A c \in Slots : SigningUp(calls'[c], u) => calls'[c] = calls[c]
    BY <1>1, <1>3, <1>7 DEF SigningUp
  <2>2. \A c \in Slots : SigningUp(calls'[c], u) => SigningUp(calls[c], u)
    BY <2>1
  <2> QED
    BY <1>5, <2>1, <2>2 DEF OneInv
<1> QED
  BY <1>6, <1>7

(* The steps of a page keep OneInv.                                         *)
LEMMA OnePage ==
  ASSUME TypeOK, OneInv, PageSteps
  PROVE  OneInv'
<1>1. CASE SubmitSignUp
  BY <1>1, OneSubmitted
<1>2. CASE ~SubmitSignUp
  <2>1. UNCHANGED <<members, onboarded, resubmitted>>
    BY <1>2 DEF PageSteps, AddWorkspaceUser, ClickSidebar, SelectWorkspace, FailCall,
       AnswerListWorkspaces, FailListWorkspaces, AnswerAddWorkspaceUser, server, history
  <2>2. NoCall.kind = "none"
    BY DEF NoCall
  <2>3. ASSUME NEW to \in Pages, LeavePage(to)
        PROVE  NoNewSignUp
    <3>1. \A c \in Slots : LET call == [calls[c] EXCEPT !.left = TRUE] IN
            /\ call.kind = calls[c].kind /\ call.user = calls[c].user
            /\ call.served = calls[c].served
      BY DEF TypeOK, CallType
    <3> QED
      BY <2>3, <3>1, Left DEF NoNewSignUp
  <2>4. ASSUME NEW c \in Slots, calls' = Without(c)
        PROVE  NoNewSignUp
    BY <2>2, <2>4, Ended DEF NoNewSignUp
  <2>5. ASSUME NEW c \in Slots, AnswerAddWorkspaceUser(c)
        PROVE  NoNewSignUp
    <3> DEFINE base == Call("relist", firebase)
               call == [base EXCEPT !.gone = calls[c].gone, !.left = calls[c].left]
    <3>1. base \in CallType /\ base.kind = "relist"
      BY NoCallType DEF TypeOK, Call, NoCall
    <3>2. calls' = [calls EXCEPT ![c] = call]
      BY <2>5 DEF AnswerAddWorkspaceUser
    <3> HIDE DEF base
    <3>3. call.kind = "relist"
      BY <3>1 DEF CallType
    <3> HIDE DEF call
    <3> QED
      BY <3>2, <3>3 DEF NoNewSignUp, TypeOK
  <2>6. ASSUME NEW u \in Users, AddWorkspaceUser(u)
        PROVE  NoNewSignUp
    <3> DEFINE base == Call("add", firebase)
               call == [base EXCEPT !.id = Current(provider), !.other = u]
    <3>1. base \in CallType /\ base.kind = "add"
      BY NoCallType DEF TypeOK, Call, NoCall
    <3>2. calls' = Placed(calls, <<call>>) /\ Current(provider) \in Nat
      BY <2>6 DEF AddWorkspaceUser, Current, Known, Ids, NoWorkspace
    <3> HIDE DEF base
    <3>3. call \in CallType /\ call.kind = "add"
      BY <3>1, <3>2 DEF CallType, Someone
    <3> HIDE DEF call
    <3> QED
      BY <3>2, <3>3, Made DEF NoNewSignUp
  <2>7. /\ \A to \in Pages : ClickSidebar(to) => LeavePage(to)
        /\ \A id \in Ids : SelectWorkspace(id) => LeavePage("projects")
        /\ \A c \in Slots : FailCall(c) \/ AnswerListWorkspaces(c) \/ FailListWorkspaces(c)
             => calls' = Without(c)
        /\ "projects" \in Pages
    BY DEF ClickSidebar, SelectWorkspace, FailCall, AnswerListWorkspaces, FailListWorkspaces,
       Pages
  <2>8. NoNewSignUp
    BY <1>2, <2>3, <2>4, <2>5, <2>6, <2>7 DEF PageSteps
  <2> QED
    BY <2>1, <2>8, OneKept
<1> QED
  BY <1>1, <1>2

(* A sign-up that is served creates the user's only workspace.              *)
LEMMA OneServe ==
  ASSUME TypeOK, OneInv, NEW c \in Slots, Serve(c)
  PROVE  OneInv'
<1>1. calls[c] \in CallType /\ resubmitted' = resubmitted /\ members \in Seq(SUBSET Users)
  BY DEF Serve, ServeGetMe, ServeCompleteOnboarding, ServeListWorkspaces,
     ServeAddWorkspaceUser, history, TypeOK, Lists
<1>2. ASSUME NEW call \in CallType, call.kind = calls[c].kind, call.user = calls[c].user,
             Reply(c, call)
      PROVE  /\ NoNewSignUp /\ calls'[c].served
             /\ calls'[c].kind = calls[c].kind /\ calls'[c].user = calls[c].user
             /\ \A d \in Slots : d # c => calls'[d] = calls[d]
  <2> DEFINE served == [call EXCEPT !.served = TRUE]
  <2>1. served.kind = call.kind /\ served.user = call.user /\ served.served
    BY DEF CallType
  <2>2. calls' = [calls EXCEPT ![c] = served]
    BY <1>2 DEF Reply
  <2> HIDE DEF served
  <2> QED
    BY <1>2, <2>1, <2>2 DEF NoNewSignUp, TypeOK
<1>3. PICK call \in CallType : call.kind = calls[c].kind /\ call.user = calls[c].user
                               /\ Reply(c, call)
  <2>1. ASSUME NEW ok \in BOOLEAN, NEW needs \in BOOLEAN, NEW list \in Lists
        PROVE  \A call \in {[calls[c] EXCEPT !.ok = ok, !.needs = needs],
                            [calls[c] EXCEPT !.ok = ok, !.list = list],
                            [calls[c] EXCEPT !.ok = ok], calls[c]} :
                 call \in CallType /\ call.kind = calls[c].kind /\ call.user = calls[c].user
    BY <1>1 DEF CallType
  <2>2. CASE ServeGetMe(c)
    <3> DEFINE ok == calls[c].user # Nobody
               needs == calls[c].user \notin onboarded
    <3>1. Reply(c, [calls[c] EXCEPT !.ok = ok, !.needs = needs])
      BY <2>2 DEF ServeGetMe
    <3>2. ok \in BOOLEAN /\ needs \in BOOLEAN /\ calls[c].list \in Lists
      BY <1>1 DEF CallType
    <3> HIDE DEF ok, needs
    <3> QED
      BY <2>1, <3>1, <3>2
  <2>3. CASE ServeCompleteOnboarding(c)
    <3>1. Reply(c, calls[c]) \/ Reply(c, [calls[c] EXCEPT !.ok = TRUE])
      BY <2>3 DEF ServeCompleteOnboarding
    <3>2. calls[c].list \in Lists /\ TRUE \in BOOLEAN
      BY <1>1 DEF CallType
    <3> QED
      BY <2>1, <3>1, <3>2
  <2>4. CASE ServeListWorkspaces(c)
    <3> DEFINE ok == calls[c].user \in onboarded
               list == Listed(calls[c].user)
    <3>1. Reply(c, [calls[c] EXCEPT !.ok = ok, !.list = list])
      BY <2>4 DEF ServeListWorkspaces, Listed
    <3>2. ok \in BOOLEAN /\ list \in Lists
      BY <1>1, ListedType DEF CallType
    <3> HIDE DEF ok, list
    <3> QED
      BY <2>1, <3>1, <3>2
  <2>5. CASE ServeAddWorkspaceUser(c)
    <3> DEFINE ok == calls[c].user \in onboarded /\ calls[c].user \in members[calls[c].id]
    <3>1. Reply(c, [calls[c] EXCEPT !.ok = ok])
      BY <2>5 DEF ServeAddWorkspaceUser
    <3>2. ok \in BOOLEAN /\ calls[c].list \in Lists
      BY <1>1 DEF CallType
    <3> HIDE DEF ok
    <3> QED
      BY <2>1, <3>1, <3>2
  <2> QED
    BY <2>2, <2>3, <2>4, <2>5 DEF Serve
<1>4. /\ NoNewSignUp /\ calls'[c].served
      /\ calls'[c].kind = calls[c].kind /\ calls'[c].user = calls[c].user
      /\ \A d \in Slots : d # c => calls'[d] = calls[d]
  BY <1>2, <1>3
<1> HIDE DEF NoNewSignUp
<1>5. CASE UNCHANGED server
  BY <1>1, <1>4, <1>5, OneKept DEF server
<1>6. CASE ServeAddWorkspaceUser(c) /\ ~UNCHANGED server
  <2>1. /\ calls[c].user \in members[calls[c].id] /\ onboarded' = onboarded
        /\ members' = [members EXCEPT ![calls[c].id] = @ \cup {calls[c].other}]
        /\ calls[c].other \in Users /\ calls[c].id \in Nat
    BY <1>1, <1>6 DEF ServeAddWorkspaceUser, server, Asked, TypeOK, CallType
  <2>2. members' = AddedTo(c)
    BY <2>1, MembersAdded
  <2>3. Len(members') = Len(members)
    BY <2>1, <2>2, AddedMember DEF AddedTo, TypeOK
  <2>4. ASSUME NEW i \in 1..Len(members), NEW u \in Users, members'[i] = {u}
        PROVE  members[i] = {u}
    <3>1. CASE i = calls[c].id
      <4>1. members[i] \cup {calls[c].other} = {u} /\ calls[c].user \in members[i]
        BY <2>1, <2>2, <2>4, <3>1 DEF AddedTo
      <4> QED
        BY <4>1
    <3>2. CASE i # calls[c].id
      BY <2>2, <2>4, <3>2 DEF AddedTo
    <3> QED
      BY <3>1, <3>2
  <2> QED
    BY <1>1, <1>4, <2>1, <2>3, <2>4, OneKept
<1>7. CASE ServeCompleteOnboarding(c) /\ ~UNCHANGED server
  <2> DEFINE v == calls[c].user
  <2>1. /\ members' = Append(members, {v}) /\ onboarded' = onboarded \cup {v}
        /\ SigningUp(calls[c], v) /\ ~calls[c].served
    BY <1>7 DEF ServeCompleteOnboarding, Asked, SigningUp
  <2> HIDE DEF v
  <2>2. /\ Len(members') = Len(members) + 1 /\ Len(members) \in Nat
        /\ members'[Len(members) + 1] = {v}
        /\ \A i \in 1..Len(members) : members'[i] = members[i]
    BY <1>1, <2>1
  <2> SUFFICES ASSUME NEW u \in Users, u \notin resubmitted
               PROVE
      /\ \A d, e \in Slots : SigningUp(calls'[d], u) /\ SigningUp(calls'[e], u) => d = e
      /\ \A d \in Slots : SigningUp(calls'[d], u) /\ ~calls'[d].served => u \notin onboarded'
      /\ u \notin onboarded' => \A i \in 1..Len(members') : members'[i] # {u}
      /\ \A i, j \in 1..Len(members') : members'[i] = {u} /\ members'[j] = {u} => i = j
    BY <1>1 DEF OneInv
  <2>3. \A d \in Slots : SigningUp(calls'[d], u) =>
          SigningUp(calls[d], u) /\ (calls[d].served => calls'[d].served)
    BY <1>4 DEF NoNewSignUp, SigningUp
  <2>4. CASE u = v
    <3>1. \A i \in 1..Len(members) : members[i] # {u}
      BY <2>1, <2>4 DEF OneInv
    <3>2. \A i \in 1..Len(members') : members'[i] = {u} => i = Len(members) + 1
      BY <2>2, <3>1
    <3>3. \A d \in Slots : SigningUp(calls'[d], u) => d = c
      BY <2>1, <2>3, <2>4 DEF OneInv
    <3> QED
      BY <1>4, <2>1, <2>4, <3>2, <3>3
  <2>5. CASE u # v
    <3>1. \A i \in 1..Len(members') : members'[i] = {u} => i \in 1..Len(members)
      <4>1. {u} # {v}
        BY <2>5
      <4>2. \A i \in 1..Len(members') : i \in 1..Len(members) \/ i = Len(members) + 1
        BY <2>2
      <4> QED
        BY <2>2, <4>1, <4>2
    <3>2. u \in onboarded' <=> u \in onboarded
      BY <2>1, <2>5
    <3> QED
      BY <2>2, <2>3, <3>1, <3>2 DEF OneInv
  <2> QED
    BY <2>4, <2>5
<1> QED
  BY <1>5, <1>6, <1>7 DEF Serve, ServeGetMe, ServeListWorkspaces

(* A user gets one workspace of his own, unless his sign-up was submitted    *)
(* again once the server had completed it or while it might: the handler     *)
(* creates one at every call. With a single user the workspace that all      *)
(* shared at the start would be his own as well.                            *)
THEOREM OneWorkspaceEachHolds ==
  ASSUME \E u, v \in Users : u # v
  PROVE  Spec => []OneWorkspaceEach
<1>1. Init => OneInv
  <2> SUFFICES ASSUME Init PROVE OneInv
    OBVIOUS
  <2>1. \A c \in Slots : calls[c].kind = "none"
    BY DEF Init, NoCall
  <2>2. \A u \in Users : Users # {u}
    OBVIOUS
  <2>3. members = <<>> \/ members = <<Users>>
    BY DEF Init
  <2>4. \A i \in 1..Len(members), u \in Users : members[i] # {u}
    BY <2>2, <2>3
  <2> QED
    BY <2>1, <2>4 DEF OneInv, SigningUp
<1>2. TypeOK /\ OneInv /\ [Next]_vars => OneInv'
  <2> SUFFICES ASSUME TypeOK, OneInv, [Next]_vars PROVE OneInv'
    OBVIOUS
  <2>1. CASE UNCHANGED vars
    BY <2>1 DEF OneInv, vars, server, history
  <2>2. CASE Next
    BY <2>2, NextSplit, Moving, OneMoves, OnePage, OneServe
  <2> QED
    BY <2>1, <2>2
<1>3. TypeOK /\ OneInv => OneWorkspaceEach
  <2> SUFFICES ASSUME TypeOK, OneInv, NEW u \in Users \ resubmitted
               PROVE  Cardinality({id \in 1..Len(members) : members[id] = {u}}) <= 1
    BY DEF OneWorkspaceEach
  <2> DEFINE own == {id \in 1..Len(members) : members[id] = {u}}
  <2>1. \A i, j \in own : i = j
    BY DEF OneInv
  <2> HIDE DEF own
  <2>2. own = {} \/ \E i \in own : own = {i}
    BY <2>1
  <2>3. Cardinality(own) = 0 \/ Cardinality(own) = 1
    BY <2>2, FS_EmptySet, FS_Singleton
  <2> QED
    BY <2>3 DEF own
<1> QED
  BY <1>1, <1>2, <1>3, TypeCorrect, PTL DEF Spec
=============================================================================
