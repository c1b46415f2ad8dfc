--------------------------- MODULE VfsTreeProofs ---------------------------
(***************************************************************************)
(* Theorems of VfsTree for any directories, assets, names and requests.    *)
(***************************************************************************)
EXTENDS VfsTree, TLAPS

(* Well-formed requests: where a request stands says which operation it    *)
(* is, and its entry's row has been inserted before, or is yet to be by    *)
(* this request alone.                                                     *)
RequestOK(r) ==
  /\ Op(r) = "none" <=> pc[r] = "idle"
  /\ Op(r) = "none" => Id(r) = Root
  /\ Op(r) # "none" => Id(r) \in Entries
  /\ pc[r] \in {"target", "walk"} => Op(r) = "move"
  /\ pc[r] = "walk" => Id(r) \in Directories
  /\ pc[r] = "names" => Op(r) \in {"create", "rename", "move"}
  /\ pc[r] \in {"list", "children"} => Op(r) = "delete"
  /\ pc[r] = "children" => at[r] \in Directories
  /\ pc[r] = "write" => Op(r) \in {"create", "rename", "move", "use"}
  /\ Op(r) = "create" => parent[Id(r)] = Unborn /\ req[r].name \in Names
  /\ Op(r) \in {"rename", "move", "delete", "use"} => parent[Id(r)] # Unborn
  /\ Op(r) = "use" => Id(r) \in Assets
  /\ Op(r) = "rename" => req[r].name \in Names
  /\ pc[r] \in {"walk", "children"} \/ at[r] = Root
  /\ pc[r] \in {"idle", "target"} => passed[r] = {}

RequestsOK == \A r \in Slots : RequestOK(r)

(* The ids of creations are theirs alone.                                  *)
OwnIds == \A r, s \in Slots : r # s /\ Op(r) = "create" => Id(s) # Id(r)

FormInv == TypeOK /\ RequestsOK /\ OwnIds

(* What a walk has passed, in a tree in which no other directory has been   *)
(* moved since: the way from the directory to move to up to where the walk *)
(* stands, without the directory that is moved; what was deleted since     *)
(* only cuts the way.                                                      *)
WalkInv(r) ==
  Op(r) = "move" /\ Id(r) \in Directories /\ "move" \notin since[r]
  /\ pc[r] \in {"walk", "names", "write"} =>
    /\ Id(r) \notin passed[r]
    /\ To(r) \in passed[r] \cup {at[r]}
    /\ \A w \in passed[r] : parent[w] \in passed[r] \cup {at[r], Gone}

(* What a request has read of names and places still holds, unless another *)
(* request has written since or a row is gone.                             *)
NamesInv(r) ==
  since[r] = {} =>
    /\ At(r, "write") /\ Op(r) \in {"create", "rename", "move"} =>
         \A s \in Siblings(Id(r), To(r)) : name[s] # req[r].name
    /\ Op(r) = "rename" => parent[Id(r)] \in {To(r), Gone}
    /\ Op(r) = "move" => name[Id(r)] = req[r].name \/ parent[Id(r)] = Gone

TreeInv ==
  /\ FormInv
  /\ NothingDangles
  /\ \A r \in Slots : WalkInv(r)
  /\ \A r \in Slots : NamesInv(r)

(* What is assumed of the constants.                                       *)
Params ==
  /\ Entries = Directories \cup Assets
  /\ Root \notin Entries /\ Unborn \notin Entries /\ Gone \notin Entries
  /\ Root # Unborn /\ Root # Gone /\ Unborn # Gone /\ NoName \notin Names
  /\ Directories \cap Assets = {}

LEMMA ParamsOK == Params
BY IdsAssumption DEF Params, Entries

LEMMA TypeInit == Init => TypeOK
BY ParamsOK DEF Init, TypeOK, Params, Places, Request, NoRequest

(* Every step keeps the types.                                             *)
LEMMA TypeStep == FormInv /\ [Next]_vars => TypeOK'
<1> SUFFICES ASSUME FormInv, [Next]_vars PROVE TypeOK'
  OBVIOUS
<1>t. TypeOK /\ \A r \in Slots : RequestOK(r)
  BY DEF FormInv, RequestsOK
<1>p. Params
  BY ParamsOK
<1> USE DEF TypeOK, Places, At, Goto, Op, Id, To, rows, locals
<1>1. ASSUME NEW r \in Slots, Send(r) PROVE TypeOK'
  <2> USE DEF Begin, Request, NoRequest, Exists, CanHold
  <2>1. ASSUME NEW e \in Entries, NEW to \in Places, NEW n \in Names, SendCreate(r, e, to, n)
        PROVE  TypeOK'
    BY <2>1, <1>p, <1>t DEF SendCreate, Params
  <2>2. ASSUME NEW e \in Entries, NEW n \in Names, SendRename(r, e, n) PROVE TypeOK'
    BY <2>2, <1>p, <1>t DEF SendRename, Params
  <2>3. ASSUME NEW e \in Entries, NEW to \in Places, SendMove(r, e, to) PROVE TypeOK'
    BY <2>3, <1>p, <1>t DEF SendMove, Params
  <2>4. ASSUME NEW e \in Entries, SendDelete(r, e) PROVE TypeOK'
    BY <2>4, <1>p, <1>t DEF SendDelete, Params
  <2>5. ASSUME NEW e \in Entries, SendUse(r, e) PROVE TypeOK'
    BY <2>5, <1>p, <1>t DEF SendUse, Params
  <2> QED
    BY <1>1, <2>1, <2>2, <2>3, <2>4, <2>5 DEF Send
<1>2. ASSUME NEW r \in Slots, Look(r) PROVE TypeOK'
  <2>1. CASE Target(r)
    BY <2>1, <1>p, <1>t DEF Target, Request, Params
  <2>2. CASE Walk(r)
    BY <2>2, <1>p, <1>t DEF Walk, Exists, Params
  <2>3. CASE CheckNames(r)
    BY <2>3, <1>t DEF CheckNames
  <2>4. CASE ListChildren(r)
    BY <2>4, <1>p, <1>t DEF ListChildren, Params
  <2>5. ASSUME NEW d \in Directories, ListAssets(r, d) PROVE TypeOK'
    BY <2>5, <1>p, <1>t DEF ListAssets, Params
  <2>6. ASSUME NEW a \in Assets, CheckUse(r, a) PROVE TypeOK'
    BY <2>6, <1>t DEF CheckUse
  <2> QED
    BY <1>2, <2>1, <2>2, <2>3, <2>4, <2>5, <2>6 DEF Look
<1>3. ASSUME NEW r \in Slots, Alter(r) PROVE TypeOK'
  <2> USE DEF Forget, Write, Label, Request, NoRequest
  <2>1. CASE Create(r)
    BY <2>1, <1>p, <1>t DEF Create, Params
  <2>2. CASE Rename(r)
    BY <2>2, <1>p, <1>t DEF Rename, Params
  <2>3. CASE Move(r)
    BY <2>3, <1>p, <1>t DEF Move, Params
  <2>4. CASE Use(r)
    BY <2>4, <1>p, <1>t DEF Use, Params, RequestOK
  <2>5. CASE Delete(r)
    BY <2>5, <1>p, <1>t DEF Delete, RowsGone, Params
  <2> QED
    BY <1>3, <2>1, <2>2, <2>3, <2>4, <2>5 DEF Alter
<1>4. ASSUME NEW r \in Slots, Fail(r) PROVE TypeOK'
  BY <1>4, <1>t DEF Fail, Forget, NoRequest, Request
<1>5. CASE Release
  BY <1>5, <1>t DEF Release, DeleteProject, RemoveProjectAsset
<1>6. CASE UNCHANGED vars
  BY <1>6, <1>t DEF vars
<1> QED
  BY <1>1, <1>2, <1>3, <1>4, <1>5, <1>6 DEF Next

(* What a deletion takes exists, and with a directory all that is in it.   *)
LEMMA UnderFacts ==
  ASSUME NEW x \in Entries
  PROVE  /\ Under(x) \subseteq Existing
         /\ \A e \in Existing : parent[e] \in Under(x) => e \in Under(x)
<1>1. ASSUME NEW e \in Existing, parent[e] \in Under(x) PROVE e \in Under(x)
  <2> SUFFICES ASSUME NEW S \in SUBSET Existing, x \in S /\ Closed(S) PROVE e \in S
    BY DEF Under
  <2>1. parent[e] \in S
    BY <1>1 DEF Under
  <2> QED
    BY <2>1 DEF Closed
<1> QED
  BY <1>1 DEF Under

(* Every step keeps requests well formed.                                  *)
LEMMA FormStep == FormInv /\ [Next]_vars => FormInv'
<1> SUFFICES ASSUME FormInv, [Next]_vars PROVE FormInv'
  OBVIOUS
<1> DEFINE Good == RequestsOK' /\ OwnIds'
<1>p. Params
  BY ParamsOK
<1>t. TypeOK /\ RequestsOK /\ OwnIds
  BY DEF FormInv
<1> USE DEF TypeOK, RequestsOK, RequestOK, OwnIds, Places, At, Goto, Op, Id, To, rows, locals,
            Exists, CanHold
<1>1. ASSUME NEW r \in Slots, Send(r) PROVE Good
  <2> USE DEF Begin, Request, NoRequest
  <2>1. ASSUME NEW e \in Entries, NEW to \in Places, NEW n \in Names, SendCreate(r, e, to, n)
        PROVE  Good
    BY <2>1, <1>p, <1>t DEF SendCreate, Params
  <2>2. ASSUME NEW e \in Entries, NEW n \in Names, SendRename(r, e, n) PROVE Good
    BY <2>2, <1>p, <1>t DEF SendRename, Params
  <2>3. ASSUME NEW e \in Entries, NEW to \in Places, SendMove(r, e, to) PROVE Good
    BY <2>3, <1>p, <1>t DEF SendMove, Params
  <2>4. ASSUME NEW e \in Entries, SendDelete(r, e) PROVE Good
    BY <2>4, <1>p, <1>t DEF SendDelete, Params
  <2>5. ASSUME NEW e \in Assets, SendUse(r, e) PROVE Good
    BY <2>5, <1>p, <1>t DEF SendUse, Params
  <2> QED
    BY <1>1, <2>1, <2>2, <2>3, <2>4, <2>5, <1>p DEF Send, Params
<1>2. ASSUME NEW r \in Slots, Look(r) PROVE Good
  <2>1. CASE Target(r)
    BY <2>1, <1>p, <1>t DEF Target, Request, Params
  <2>2. CASE Walk(r)
    BY <2>2, <1>p, <1>t DEF Walk, Params
  <2>3. CASE CheckNames(r)
    BY <2>3, <1>t DEF CheckNames
  <2>4. CASE ListChildren(r)
    BY <2>4, <1>p, <1>t DEF ListChildren, Params
  <2>5. ASSUME NEW d \in Directories, ListAssets(r, d) PROVE Good
    BY <2>5, <1>p, <1>t DEF ListAssets, Params
  <2>6. ASSUME NEW a \in Assets, CheckUse(r, a) PROVE Good
    BY <2>6, <1>t DEF CheckUse
  <2> QED
    BY <1>2, <2>1, <2>2, <2>3, <2>4, <2>5, <2>6 DEF Look
<1>3. ASSUME NEW r \in Slots, Alter(r) PROVE Good
  <2> USE DEF Forget, Write, Label, Request, NoRequest
  <2>1. CASE Create(r)
    BY <2>1, <1>p, <1>t DEF Create, Params
  <2>2. CASE Rename(r)
    BY <2>2, <1>p, <1>t DEF Rename, Params
  <2>3. CASE Move(r)
    BY <2>3, <1>p, <1>t DEF Move, Params
  <2>4. CASE Use(r)
    BY <2>4, <1>p, <1>t DEF Use, Params
  <2>5. CASE Delete(r)
    BY <2>5, <1>p, <1>t, UnderFacts DEF Delete, RowsGone, Params, Existing
  <2> QED
    BY <1>3, <2>1, <2>2, <2>3, <2>4, <2>5 DEF Alter
<1>4. ASSUME NEW r \in Slots, Fail(r) PROVE Good
  BY <1>4, <1>p, <1>t DEF Fail, Forget, NoRequest, Request, Params
<1>5. ASSUME Release PROVE Good
  BY <1>5, <1>t DEF Release, DeleteProject, RemoveProjectAsset
<1>6. ASSUME UNCHANGED vars PROVE Good
  BY <1>6, <1>t DEF vars
<1> HIDE DEF TypeOK, RequestsOK, RequestOK, OwnIds, Places, At, Goto, Op, Id, To,
             rows, locals, Exists, CanHold
<1>7. Good
  BY <1>1, <1>2, <1>3, <1>4, <1>5, <1>6 DEF Next
<1> QED
  BY <1>7, TypeStep DEF FormInv

LEMMA FormInit == Init => FormInv
<1> SUFFICES ASSUME Init PROVE FormInv
  OBVIOUS
<1>1. RequestsOK
  BY ParamsOK DEF Init, RequestsOK, RequestOK, NoRequest, Op, Id, Params
<1>2. OwnIds
  BY DEF Init, OwnIds, NoRequest, Op
<1> QED
  BY <1>1, <1>2, TypeInit DEF FormInv

(* The tables and the requests are well typed.                             *)
THEOREM TypeCorrect == Spec => []TypeOK
<1>1. FormInv => TypeOK
  BY DEF FormInv
<1> QED
  BY <1>1, FormInit, FormStep, PTL DEF Spec

-----------------------------------------------------------------------------
(* The rows *)

(* Only these steps write the tree or what projects use.                   *)
LEMMA Writers ==
  ASSUME Next
  PROVE  \/ \E r \in Slots : Create(r) \/ Rename(r) \/ Move(r) \/ Use(r) \/ Delete(r)
         \/ Release
         \/ UNCHANGED rows
<1>1. ASSUME NEW r \in Slots, Send(r) PROVE UNCHANGED rows
  BY <1>1 DEF Send, SendCreate, SendRename, SendMove, SendDelete, SendUse, Begin
<1>2. ASSUME NEW r \in Slots, Look(r) PROVE UNCHANGED rows
  BY <1>2 DEF Look, Target, Walk, CheckNames, ListChildren, ListAssets, CheckUse
<1>3. ASSUME NEW r \in Slots, Fail(r) PROVE UNCHANGED rows
  BY <1>3 DEF Fail
<1> QED
  BY <1>1, <1>2, <1>3 DEF Next, Alter

LEMMA DanglesStep == FormInv /\ NothingDangles /\ [Next]_vars => NothingDangles'
<1> SUFFICES ASSUME FormInv, NothingDangles, [Next]_vars PROVE NothingDangles'
  OBVIOUS
<1>t. TypeOK /\ RequestsOK
  BY DEF FormInv
<1>p. Params
  BY ParamsOK
<1> USE DEF NothingDangles, Existing, Exists, CanHold
<1>1. ASSUME NEW r \in Slots, Create(r) PROVE NothingDangles'
  <2>1. Id(r) \in Entries /\ parent[Id(r)] = Unborn
    BY <1>1, <1>t DEF Create, RequestsOK, RequestOK
  <2> QED
    BY <1>1, <1>t, <1>p, <2>1 DEF Create, TypeOK, Params
<1>2. ASSUME NEW r \in Slots, Rename(r) PROVE NothingDangles'
  BY <1>2 DEF Rename
<1>3. ASSUME NEW r \in Slots, Move(r) PROVE NothingDangles'
  BY <1>3, <1>t, <1>p DEF Move, TypeOK, Params
<1>4. ASSUME NEW r \in Slots, Use(r) PROVE NothingDangles'
  BY <1>4 DEF Use
<1>5. ASSUME NEW r \in Slots, Delete(r) PROVE NothingDangles'
  <2> DEFINE U == Under(Id(r))
  <2>1. Id(r) \in Entries
    BY <1>5, <1>t DEF Delete, At, RequestsOK, RequestOK
  <2>2. U \subseteq Existing /\ \A e \in Existing : parent[e] \in U => e \in U
    BY <2>1, UnderFacts
  <2>3. /\ parent' = [e \in Entries |-> IF e \in U THEN Gone ELSE parent[e]]
        /\ used' = used /\ U \cap used = {}
    BY <1>5 DEF Delete, RowsGone
  <2> HIDE DEF U
  <2> QED
    BY <2>2, <2>3, <1>t, <1>p DEF TypeOK, Params
<1>6. ASSUME Release PROVE NothingDangles'
  BY <1>6 DEF Release, DeleteProject, RemoveProjectAsset
<1>7. ASSUME UNCHANGED rows PROVE NothingDangles'
  BY <1>7 DEF rows
<1> QED
  BY <1>1, <1>2, <1>3, <1>4, <1>5, <1>6, <1>7, Writers DEF vars, rows

LEMMA DanglesInit == Init => NothingDangles
BY DEF Init, NothingDangles, Existing, Exists

(* Nothing dangles, in whatever order the checks and the statements of     *)
(* requests come: the foreign keys of the schema, not the checks of the    *)
(* handlers, are what keeps the tree and the projects whole.               *)
THEOREM NothingIsLeftDangling == Spec => []NothingDangles
BY FormInit, FormStep, DanglesInit, DanglesStep, PTL DEF Spec

-----------------------------------------------------------------------------
(* Loops *)

LEMMA WalkInit == Init => \A r \in Slots : WalkInv(r)
BY DEF Init, WalkInv, NoRequest, Op

(* A step of another request leaves a request where it stands; a directory *)
(* that it moves is noted.                                                 *)
LEMMA OthersStep ==
  ASSUME FormInv, Next, NEW q \in Slots
  PROVE  \/ Send(q) \/ Look(q) \/ Alter(q) \/ Fail(q)
         \/ /\ pc'[q] = pc[q] /\ req'[q] = req[q] /\ at'[q] = at[q] /\ passed'[q] = passed[q]
            /\ since[q] \subseteq since'[q]
            /\ HasRead(q) => \A r \in Slots : /\ Create(r) \/ Rename(r) => since'[q] # {}
                                              /\ Move(r) => Label(r) \in since'[q]
<1> SUFFICES ASSUME ~(Send(q) \/ Look(q) \/ Alter(q) \/ Fail(q))
             PROVE  /\ pc'[q] = pc[q] /\ req'[q] = req[q] /\ at'[q] = at[q]
                    /\ passed'[q] = passed[q] /\ since[q] \subseteq since'[q]
                    /\ HasRead(q) => \A r \in Slots : /\ Create(r) \/ Rename(r) => since'[q] # {}
                                                      /\ Move(r) => Label(r) \in since'[q]
  OBVIOUS
<1>t. TypeOK
  BY DEF FormInv
<1> DEFINE Stays == /\ pc'[q] = pc[q] /\ req'[q] = req[q] /\ at'[q] = at[q]
                    /\ passed'[q] = passed[q] /\ since[q] \subseteq since'[q]
<1>1. ASSUME NEW r \in Slots, r # q, Send(r) PROVE Stays
  BY <1>1, <1>t DEF Send, SendCreate, SendRename, SendMove, SendDelete, SendUse, Begin, Goto, TypeOK
<1>2. ASSUME NEW r \in Slots, r # q, Look(r) PROVE Stays
  BY <1>2, <1>t DEF Look, Target, Walk, CheckNames, ListChildren, ListAssets, CheckUse, Goto, TypeOK
<1>3. ASSUME NEW r \in Slots, r # q, Alter(r) PROVE Stays
  BY <1>3, <1>t DEF Alter, Create, Rename, Move, Use, Delete, Write, Forget, Goto, TypeOK
<1>4. ASSUME NEW r \in Slots, r # q, Fail(r) PROVE Stays
  BY <1>4, <1>t DEF Fail, Forget, Goto, TypeOK
<1>5. ASSUME Release PROVE Stays
  BY <1>5 DEF Release, DeleteProject, RemoveProjectAsset, locals
<1>6. Stays
  <2> HIDE DEF Stays
  <2> QED
    BY <1>1, <1>2, <1>3, <1>4, <1>5 DEF Next
<1>7. ASSUME HasRead(q), NEW r \in Slots, Create(r) \/ Rename(r) \/ Move(r)
      PROVE  Label(r) \in since'[q]
  BY <1>7, <1>t DEF Create, Rename, Move, Alter, Write, TypeOK
<1> QED
  BY <1>6, <1>7

LEMMA WalkStep ==
  FormInv /\ NothingDangles /\ (\A r \in Slots : WalkInv(r)) /\ [Next]_vars
  => (\A r \in Slots : WalkInv(r))'
<1> SUFFICES ASSUME FormInv, [Next]_vars, NEW q \in Slots, WalkInv(q) PROVE WalkInv(q)'
  OBVIOUS
<1>t. TypeOK /\ RequestsOK /\ RequestOK(q)
  BY DEF FormInv, RequestsOK
<1>p. Params
  BY ParamsOK
<1> USE DEF At, Goto, Op, Id, To
<1>1. CASE Send(q)
  <2>1. pc'[q] \notin {"walk", "names", "write"} \/ Op(q)' # "move"
    BY <1>1, <1>t DEF Send, SendCreate, SendRename, SendMove, SendDelete, SendUse, Begin, TypeOK
  <2> QED
    BY <2>1 DEF WalkInv
<1>2. CASE Look(q)
  <2>1. CASE Target(q)
    BY <2>1, <1>t, <1>p DEF Target, WalkInv, RequestOK, TypeOK, Params
  <2>2. CASE Walk(q)
    BY <2>2, <1>t, <1>p DEF Walk, WalkInv, RequestOK, TypeOK, Exists, rows
  <2>3. CASE CheckNames(q)
    BY <2>3, <1>t DEF CheckNames, WalkInv, TypeOK, rows
  <2>4. CASE ListChildren(q)
    BY <2>4, <1>t DEF ListChildren, WalkInv, TypeOK
  <2>5. ASSUME NEW d \in Directories, ListAssets(q, d) PROVE WalkInv(q)'
    BY <2>5, <1>t DEF ListAssets, WalkInv, TypeOK
  <2>6. ASSUME NEW a \in Assets, CheckUse(q, a) PROVE WalkInv(q)'
    BY <2>6, <1>t DEF CheckUse, WalkInv, RequestOK
  <2> QED
    BY <1>2, <2>1, <2>2, <2>3, <2>4, <2>5, <2>6 DEF Look
<1>3. CASE Alter(q) \/ Fail(q)
  <2>1. pc'[q] = "idle"
    BY <1>3, <1>t DEF Alter, Create, Rename, Move, Use, Delete, Fail, Write, Forget, TypeOK
  <2> QED
    BY <2>1 DEF WalkInv
<1>4. ASSUME Next, ~(Send(q) \/ Look(q) \/ Alter(q) \/ Fail(q)) PROVE WalkInv(q)'
  <2> SUFFICES ASSUME Op(q) = "move", Id(q) \in Directories, "move" \notin since'[q],
                      pc[q] \in {"walk", "names", "write"}
               PROVE  \A w \in passed[q] : parent'[w] \in passed[q] \cup {at[q], Gone}
    BY <1>4, OthersStep DEF WalkInv
  <2>1. /\ \A w \in passed[q] : parent[w] \in passed[q] \cup {at[q], Gone}
        /\ HasRead(q) /\ passed[q] \subseteq Directories /\ at[q] \in Places
    BY <1>4, <1>t, OthersStep DEF WalkInv, HasRead, TypeOK
  <2>2. ASSUME NEW r \in Slots, Create(r) PROVE \A w \in passed[q] : parent'[w] = parent[w]
    <3>1. parent[Id(r)] = Unborn /\ Id(r) \in Entries
      BY <2>2, <1>t DEF Create, RequestsOK, RequestOK
    <3> QED
      BY <2>1, <2>2, <3>1, <1>t, <1>p DEF Create, TypeOK, Params, Places
  <2>3. ASSUME NEW r \in Slots, Move(r) PROVE \A w \in passed[q] : parent'[w] = parent[w]
    <3>1. Id(r) \notin Directories
      BY <2>1, <2>3, <1>4, OthersStep DEF Label, Move
    <3> QED
      BY <2>1, <2>3, <3>1, <1>t, <1>p DEF Move, TypeOK, Params
  <2>4. ASSUME NEW r \in Slots, Delete(r)
        PROVE  \A w \in passed[q] : parent'[w] \in {parent[w], Gone}
    BY <2>1, <2>4, <1>p DEF Delete, RowsGone, Params
  <2>5. ASSUME UNCHANGED parent PROVE \A w \in passed[q] : parent'[w] = parent[w]
    BY <2>5
  <2> QED
    BY <1>4, <2>1, <2>2, <2>3, <2>4, <2>5, Writers
       DEF Rename, Use, Release, DeleteProject, RemoveProjectAsset, rows
<1>5. CASE UNCHANGED vars
  BY <1>5 DEF vars, rows, locals, WalkInv
<1> QED
  BY <1>1, <1>2, <1>3, <1>4, <1>5

WalksInv == FormInv /\ NothingDangles /\ \A r \in Slots : WalkInv(r)

LEMMA WalksAlways == Spec => []WalksInv
<1>1. Init => WalksInv
  BY FormInit, DanglesInit, WalkInit DEF WalksInv
<1>2. WalksInv /\ [Next]_vars => WalksInv'
  BY FormStep, DanglesStep, WalkStep DEF WalksInv
<1> QED
  BY <1>1, <1>2, PTL DEF Spec

(* In a tree in which no other directory was moved since it began, a walk  *)
(* comes to no directory twice: what it passed and still exists would be a *)
(* set that holds the parents of all its members.                          *)
THEOREM WalksEnd == Spec => []WalkEnds
<1>1. WalksInv => WalkEnds
  <2> SUFFICES ASSUME WalksInv, NEW r \in Slots, At(r, "walk"), Exists(at[r]), Rooted,
                      "move" \notin since[r], at[r] \in passed[r]
               PROVE  FALSE
    BY DEF WalkEnds
  <2> DEFINE S == passed[r] \cap Existing
  <2>1. S \in SUBSET (Directories \cap Existing) /\ at[r] \in S
    BY DEF WalksInv, FormInv, TypeOK, Existing, Exists
  <2>2. PICK d \in S : parent[d] \notin S
    BY <2>1 DEF Rooted
  <2>3. parent[d] \in passed[r]
    BY <2>2 DEF WalksInv, FormInv, RequestsOK, RequestOK, WalkInv, At, Existing, Exists
  <2>4. parent[d] \in Existing
    BY <2>2, <2>3, ParamsOK
       DEF WalksInv, NothingDangles, FormInv, TypeOK, CanHold, Existing, Params
  <2> QED
    BY <2>2, <2>3, <2>4
<1> QED
  BY <1>1, WalksAlways, PTL

(* Only the write of a move that another move overtook closes a loop: the  *)
(* directory that a move brings under another is not on the way that its   *)
(* walk passed, which leads to the root still.                             *)
THEOREM LoopsTakeTwoMoves == Spec => LoopsNeedOvertaking
<1>1. ASSUME WalksInv, [Next]_vars, Rooted, ~Rooted'
      PROVE  \E r \in Slots : Op(r) = "move" /\ Op(r)' = "none" /\ "move" \in since[r]
  <2>t. FormInv /\ TypeOK /\ RequestsOK /\ NothingDangles /\ Params
    BY <1>1, ParamsOK DEF WalksInv, FormInv
  <2>1. PICK S \in SUBSET (Directories \cap Existing') : S # {} /\ \A d \in S : parent'[d] \in S
    BY <1>1 DEF Rooted
  <2>2. ~(S \subseteq Existing /\ \A d \in S : parent'[d] = parent[d])
    BY <1>1, <2>1 DEF Rooted
  <2>3. parent' # parent
    BY <2>1, <2>2 DEF Existing, Exists
  <2>4. ASSUME NEW r \in Slots, Create(r) PROVE FALSE
    <3> DEFINE T == S \ {Id(r)}
    <3>1. Id(r) \in Entries /\ parent[Id(r)] = Unborn
      BY <2>4, <2>t DEF Create, RequestsOK, RequestOK
    <3>2. \A e \in Entries \ {Id(r)} : parent'[e] = parent[e]
      BY <2>4 DEF Create
    <3>3. T \subseteq Directories \cap Existing
      BY <2>1, <3>2, <2>t DEF Existing, Exists, Params
    <3>4. \A d \in T : parent[d] \in T
      <4> SUFFICES ASSUME NEW d \in T PROVE parent[d] \in T
        OBVIOUS
      <4>1. parent[d] \in S
        BY <3>2, <3>3, <2>1, <2>t DEF Params
      <4>2. CanHold(parent[d])
        BY <3>3, <2>t DEF NothingDangles
      <4> QED
        BY <4>1, <4>2, <3>1, <2>t DEF CanHold, Exists, Params
    <3>5. T # {}
      <4>1. CASE Id(r) \in S
        <5>1. parent'[Id(r)] = To(r) /\ CanHold(To(r))
          BY <2>4, <3>1, <2>t DEF Create, TypeOK
        <5>2. To(r) # Id(r)
          BY <5>1, <3>1, <2>t DEF CanHold, Exists, Params
        <5> QED
          BY <4>1, <5>1, <5>2, <2>1
      <4> QED
        BY <4>1, <2>1
    <3> QED
      BY <3>3, <3>4, <3>5, <1>1 DEF Rooted
  <2>5. ASSUME NEW r \in Slots, Delete(r) PROVE FALSE
    <3>1. \A e \in Entries : parent'[e] \in {parent[e], Gone}
      BY <2>5 DEF Delete, RowsGone
    <3> QED
      BY <3>1, <2>1, <2>2 DEF Existing, Exists
  <2>6. ASSUME NEW r \in Slots, Move(r), ~(Label(r) = "move" /\ "move" \in since[r]) PROVE FALSE
    <3>1. /\ Exists(Id(r)) /\ CanHold(To(r))
          /\ parent' = [parent EXCEPT ![Id(r)] = To(r)]
      BY <2>6 DEF Move
    <3>2. Existing' = Existing
      BY <3>1, <2>t DEF Existing, Exists, CanHold, Params, TypeOK
    <3>3. Id(r) \in S
      BY <3>1, <3>2, <2>1, <2>2
    <3>4. To(r) \in S
      BY <3>1, <3>3, <2>1, <2>t DEF TypeOK, Exists
    <3>5. Id(r) \in Directories /\ Label(r) = "move"
      BY <3>3, <2>1, <2>6 DEF Label, Move
    <3>6. /\ Id(r) \notin passed[r] /\ at[r] = Root
          /\ To(r) \in passed[r] \cup {Root}
          /\ \A w \in passed[r] : parent[w] \in passed[r] \cup {Root, Gone}
      BY <3>5, <2>6, <1>1, <2>t DEF Move, At, WalksInv, WalkInv, RequestsOK, RequestOK
    <3> DEFINE T == S \cap passed[r]
    <3>7. T # {} /\ T \subseteq Directories \cap Existing
      BY <3>2, <3>4, <3>6, <2>1, <2>t DEF Params
    <3>8. ASSUME NEW w \in T PROVE parent[w] \in T
      <4>1. parent[w] \in S
        BY <3>1, <3>6, <2>1, <2>t DEF TypeOK, Params
      <4> QED
        BY <4>1, <3>6, <2>1, <2>t DEF Params
    <3> QED
      BY <3>7, <3>8, <1>1 DEF Rooted
  <2>7. PICK r \in Slots : Move(r)
    BY <1>1, <2>3, <2>4, <2>5, Writers
       DEF Rename, Use, Release, DeleteProject, RemoveProjectAsset, vars, rows
  <2>8. Op(r)' = "none"
    BY <2>7, <2>t DEF Move, Write, Forget, NoRequest, Op, TypeOK
  <2> QED
    BY <2>6, <2>7, <2>8 DEF Move
<1> QED
  BY <1>1, WalksAlways, PTL DEF Spec, LoopsNeedOvertaking

-----------------------------------------------------------------------------
(* Names *)

LEMMA NamesInit == Init => \A r \in Slots : NamesInv(r)
BY DEF Init, NamesInv, NoRequest, Op, At

LEMMA NamesStep ==
  FormInv /\ (\A r \in Slots : NamesInv(r)) /\ [Next]_vars => (\A r \in Slots : NamesInv(r))'
<1> SUFFICES ASSUME FormInv, [Next]_vars, NEW q \in Slots, NamesInv(q) PROVE NamesInv(q)'
  OBVIOUS
<1>t. TypeOK /\ RequestsOK /\ OwnIds /\ RequestOK(q)
  BY DEF FormInv, RequestsOK
<1>p. Params
  BY ParamsOK
<1> USE DEF At, Goto, Op, Id, To
<1>1. CASE Send(q)
  <2> USE DEF Begin, NamesInv, rows
  <2>1. ASSUME NEW e \in Entries, NEW to \in Places, NEW n \in Names, SendCreate(q, e, to, n)
        PROVE  NamesInv(q)'
    BY <2>1, <1>t DEF SendCreate, TypeOK
  <2>2. ASSUME NEW e \in Entries, NEW n \in Names, SendRename(q, e, n) PROVE NamesInv(q)'
    BY <2>2, <1>t DEF SendRename, TypeOK
  <2>3. ASSUME NEW e \in Entries, NEW to \in Places, SendMove(q, e, to) PROVE NamesInv(q)'
    BY <2>3, <1>t DEF SendMove, TypeOK
  <2>4. ASSUME NEW e \in Entries, SendDelete(q, e) PROVE NamesInv(q)'
    BY <2>4, <1>t DEF SendDelete, TypeOK
  <2>5. ASSUME NEW e \in Assets, SendUse(q, e) PROVE NamesInv(q)'
    BY <2>5, <1>t DEF SendUse, TypeOK
  <2> QED
    BY <1>1, <2>1, <2>2, <2>3, <2>4, <2>5 DEF Send
<1>2. CASE Look(q)
  <2> USE DEF NamesInv, Siblings, Exists, rows
  <2>1. CASE Target(q)
    BY <2>1, <1>t DEF Target, TypeOK
  <2>2. CASE Walk(q)
    BY <2>2, <1>t DEF Walk, TypeOK
  <2>3. CASE CheckNames(q)
    BY <2>3, <1>t DEF CheckNames, TypeOK
  <2>4. CASE ListChildren(q)
    BY <2>4, <1>t DEF ListChildren, TypeOK
  <2>5. ASSUME NEW d \in Directories, ListAssets(q, d) PROVE NamesInv(q)'
    BY <2>5, <1>t DEF ListAssets, TypeOK
  <2>6. ASSUME NEW a \in Assets, CheckUse(q, a) PROVE NamesInv(q)'
    BY <2>6, <1>t DEF CheckUse, TypeOK
  <2> QED
    BY <1>2, <2>1, <2>2, <2>3, <2>4, <2>5, <2>6 DEF Look
<1>3. CASE Alter(q) \/ Fail(q)
  <2>1. Op(q)' = "none"
    BY <1>3, <1>t DEF Alter, Create, Rename, Move, Use, Delete, Fail, Write, Forget,
                    NoRequest, TypeOK
  <2> QED
    BY <2>1 DEF NamesInv
<1>4. ASSUME Next, ~(Send(q) \/ Look(q) \/ Alter(q) \/ Fail(q)) PROVE NamesInv(q)'
  <2> SUFFICES ASSUME since'[q] = {} PROVE NamesInv(q)'
    BY DEF NamesInv
  <2>1. /\ pc'[q] = pc[q] /\ req'[q] = req[q] /\ since[q] = {}
        /\ HasRead(q) => ~\E r \in Slots : Create(r) \/ Rename(r) \/ Move(r)
    BY <1>4, OthersStep
  <2>2. ASSUME UNCHANGED <<parent, name>> PROVE NamesInv(q)'
    BY <2>1, <2>2 DEF NamesInv, Siblings, Exists
  <2>3. ASSUME NEW r \in Slots, Delete(r) PROVE NamesInv(q)'
    <3> DEFINE U == Under(Id(r))
    <3>1. /\ parent' = [e \in Entries |-> IF e \in U THEN Gone ELSE parent[e]]
          /\ name' = [e \in Entries |-> IF e \in U THEN NoName ELSE name[e]]
      BY <2>3 DEF Delete, RowsGone
    <3> HIDE DEF U
    <3> QED
      BY <3>1, <2>1, <1>t DEF NamesInv, Siblings, Exists, RequestOK, KindOf, Entries
  <2>4. CASE ~HasRead(q)
    <3>1. ~(At(q, "write") /\ Op(q) \in {"create", "rename", "move"})
          /\ Op(q) \notin {"rename", "move"}
      BY <2>4, <1>t DEF HasRead, RequestOK, TypeOK
    <3> QED
      BY <2>1, <3>1 DEF NamesInv
  <2> QED
    BY <1>4, <2>1, <2>2, <2>3, <2>4, Writers
       DEF Use, Release, DeleteProject, RemoveProjectAsset, rows
<1>5. CASE UNCHANGED vars
  BY <1>5 DEF vars, rows, locals, NamesInv, Siblings, Exists
<1> QED
  BY <1>1, <1>2, <1>3, <1>4, <1>5

NamedInv == FormInv /\ \A r \in Slots : NamesInv(r)

LEMMA NamedAlways == Spec => []NamedInv
<1>1. Init => NamedInv
  BY FormInit, NamesInit DEF NamedInv
<1>2. NamedInv /\ [Next]_vars => NamedInv'
  BY FormStep, NamesStep DEF NamedInv
<1> QED
  BY <1>1, <1>2, PTL DEF Spec

(* Only a write that another write overtook gives two siblings of one kind *)
(* one name.                                                               *)
THEOREM TwinsTakeTwoWrites == Spec => TwinsNeedOvertaking
<1>1. ASSUME NamedInv, [Next]_vars, Distinct, ~Distinct'
      PROVE  \E r \in Slots : Op(r) # "none" /\ Op(r)' = "none" /\ since[r] # {}
  <2>t. FormInv /\ TypeOK /\ RequestsOK /\ Params
    BY <1>1, ParamsOK DEF NamedInv, FormInv
  <2>1. PICK e \in Existing', f \in Existing' :
          /\ e # f /\ KindOf(e) = KindOf(f)
          /\ parent'[e] = parent'[f] /\ name'[e] = name'[f]
    BY <1>1 DEF Distinct, KindOf
  <2>2. ~(/\ e \in Existing /\ f \in Existing
          /\ parent'[e] = parent[e] /\ parent'[f] = parent[f]
          /\ name'[e] = name[e] /\ name'[f] = name[f])
    BY <2>1, <1>1 DEF Distinct
  <2>3. e \in Entries /\ f \in Entries /\ f \in KindOf(e) /\ e \in KindOf(f)
    BY <2>1 DEF Existing, KindOf, Entries
  <2>4. ASSUME NEW r \in Slots, Delete(r) PROVE FALSE
    <3> DEFINE U == Under(Id(r))
    <3>1. /\ parent' = [x \in Entries |-> IF x \in U THEN Gone ELSE parent[x]]
          /\ name' = [x \in Entries |-> IF x \in U THEN NoName ELSE name[x]]
      BY <2>4 DEF Delete, RowsGone
    <3> HIDE DEF U
    <3> QED
      BY <2>1, <2>2, <2>3, <3>1 DEF Existing, Exists
  <2>5. ASSUME NEW r \in Slots, Create(r) \/ Rename(r) \/ Move(r), since[r] = {} PROVE FALSE
    <3>1. /\ At(r, "write") /\ Op(r) \in {"create", "rename", "move"} /\ Id(r) \in Entries
          /\ Op(r) = "create" => parent[Id(r)] = Unborn
      BY <2>5, <2>t DEF Create, Rename, Move, RequestsOK, RequestOK
    <3>2. \A s \in Siblings(Id(r), To(r)) : name[s] # req[r].name
      BY <2>5, <3>1, <1>1 DEF NamedInv, NamesInv
    <3>3. \A x \in Entries \ {Id(r)} : parent'[x] = parent[x] /\ name'[x] = name[x]
      BY <2>5, <2>t DEF Create, Rename, Move, TypeOK
    <3>4. parent'[Id(r)] = To(r) /\ name'[Id(r)] = req[r].name
      BY <2>5, <3>1, <1>1, <2>t
         DEF Create, Rename, Move, TypeOK, NamedInv, NamesInv, At, Exists
    <3>5. ASSUME NEW x \in KindOf(Id(r)), x # Id(r), x \in Existing',
                 parent'[x] = To(r), name'[x] = req[r].name
          PROVE  FALSE
      BY <3>2, <3>3, <3>5 DEF Siblings, Existing, Exists, KindOf
    <3>6. CASE e = Id(r)
      BY <3>4, <3>5, <3>6, <2>1, <2>3
    <3>7. CASE f = Id(r)
      BY <3>4, <3>5, <3>7, <2>1, <2>3
    <3>8. CASE e # Id(r) /\ f # Id(r)
      BY <3>3, <3>8, <2>1, <2>2, <2>3 DEF Existing, Exists
    <3> QED
      BY <3>6, <3>7, <3>8
  <2>6. ~UNCHANGED <<parent, name>>
    BY <2>1, <2>2 DEF Existing, Exists
  <2>7. PICK r \in Slots : Create(r) \/ Rename(r) \/ Move(r)
    BY <1>1, <2>4, <2>6, Writers
       DEF Use, Release, DeleteProject, RemoveProjectAsset, vars, rows
  <2>8. Op(r)' = "none" /\ Op(r) # "none"
    BY <2>7, <2>t DEF Create, Rename, Move, Write, Forget, NoRequest, Op, TypeOK
  <2> QED
    BY <2>5, <2>7, <2>8
<1> QED
  BY <1>1, NamedAlways, PTL DEF Spec, TwinsNeedOvertaking
=============================================================================
