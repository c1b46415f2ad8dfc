------------------------------ MODULE VfsTree ------------------------------
(***************************************************************************)
(* The virtual file system of one workspace: the tree of directories, the  *)
(* assets in it and the assets a project uses, under concurrent requests:  *)
(*                                                                         *)
(*   create, rename, move, delete   backend/services/vfs/*-directory.go,   *)
(*                                  *-asset.go, upload-image.go, ingest-*  *)
(*   the walk to the root           backend/services/vfs/move-utils.go     *)
(*   the name checks                upload-utils.go, rename-*.go           *)
(*   the in-use check               delete-utils.go, delete-directory.go   *)
(*   the assets of a project        backend/services/project/              *)
(*                                                                         *)
(* No request runs a transaction: each is a series of statements, one      *)
(* action each, and other requests come between them.  What the schema     *)
(* enforces (foreign keys, ON DELETE CASCADE and RESTRICT) is part of the  *)
(* statement that meets it.                                                *)
(***************************************************************************)
CONSTANTS
  Directories,   \* ids of directories, each used once
  Assets,        \* ids of assets, each used once
  Names,         \* display names
  Slots,         \* requests that can be in flight at once
  Root,          \* the parent of what has none
  Unborn,        \* the parent of a row not inserted yet
  Gone,          \* the parent of a row deleted
  NoName         \* the name of no row

Entries == Directories \cup Assets

ASSUME IdsAssumption ==
  /\ Directories \cap Assets = {}
  /\ {Root, Unborn, Gone} \cap Entries = {}
  /\ Root \notin {Unborn, Gone} /\ Unborn # Gone
  /\ NoName \notin Names

VARIABLES
  parent,   \* parent_id of directories, directory_id of assets
  name,     \* display_name of both
  used,     \* assets of a project (project_assets)
  pc,       \* where each request stands
  req,      \* what it is to do (a rename has its `to`, a move its `name` from the row)
  at,       \* the directory a move's walk, or a deletion's listing, stands at
  work,     \* the entries a deletion has still to look at
  passed,   \* history: the directories a walk has left behind
  since     \* history: what others wrote since a request read, a directory moved or other

rows == <<parent, name, used>>
locals == <<pc, req, at, work, passed, since>>
vars == <<rows, locals>>

Exists(e) == e \in Entries /\ parent[e] \notin {Unborn, Gone}
Existing == {e \in Entries : Exists(e)}
Places == Directories \cup {Root}
CanHold(d) == d = Root \/ (d \in Directories /\ Exists(d))
KindOf(e) == IF e \in Directories THEN Directories ELSE Assets

Request == [op : {"none", "create", "rename", "move", "delete", "use"},
            id : Entries \cup {Root}, to : Places, name : Names \cup {NoName}]
NoRequest == [op |-> "none", id |-> Root, to |-> Root, name |-> NoName]

At(r, p) == pc[r] = p
Op(r) == req[r].op
Id(r) == req[r].id
To(r) == req[r].to
Goto(r, p) == pc' = [pc EXCEPT ![r] = p]

-----------------------------------------------------------------------------
Init ==
  /\ parent = [e \in Entries |-> Unborn]
  /\ name = [e \in Entries |-> NoName]
  /\ used = {}
  /\ pc = [r \in Slots |-> "idle"]
  /\ req = [r \in Slots |-> NoRequest]
  /\ at = [r \in Slots |-> Root]
  /\ work = [r \in Slots |-> {}]
  /\ passed = [r \in Slots |-> {}]
  /\ since = [r \in Slots |-> {}]

-----------------------------------------------------------------------------
(* Requests come and go.  A request begins with its first statement, which *)
(* reads the row of the entry it is about (GetDirectoryById, GetAssetById) *)
(* or of the directory it creates in.                                      *)

Begin(r, q, p) ==
  /\ At(r, "idle")
  /\ req' = [req EXCEPT ![r] = q]
  /\ work' = [work EXCEPT ![r] = IF q.op = "delete" THEN {q.id} ELSE {}]
  /\ Goto(r, p)
  /\ UNCHANGED <<rows, at, passed, since>>

(* The id of what is created, which the database makes, is no other's.     *)
SendCreate(r, e, to, n) ==
  /\ parent[e] = Unborn
  /\ \A s \in Slots : Id(s) # e
  /\ CanHold(to)
  /\ Begin(r, [op |-> "create", id |-> e, to |-> to, name |-> n], "names")

SendRename(r, e, n) ==
  /\ Exists(e)
  /\ Begin(r, [op |-> "rename", id |-> e, to |-> parent[e], name |-> n], "names")

SendMove(r, e, to) ==
  /\ Exists(e)
  /\ Begin(r, [op |-> "move", id |-> e, to |-> to, name |-> name[e]], "target")

SendDelete(r, e) ==
  /\ Exists(e)
  /\ Begin(r, [op |-> "delete", id |-> e, to |-> Root, name |-> NoName], "list")

SendUse(r, a) ==
  /\ Exists(a)
  /\ Begin(r, [op |-> "use", id |-> a, to |-> Root, name |-> NoName], "write")

(* Nothing is left of a request but what it wrote.                         *)
Forget(r) ==
  /\ Goto(r, "idle")
  /\ req' = [req EXCEPT ![r] = NoRequest]
  /\ at' = [at EXCEPT ![r] = Root]
  /\ work' = [work EXCEPT ![r] = {}]
  /\ passed' = [passed EXCEPT ![r] = {}]

(* An error is answered: a check refuses the request (its next action has  *)
(* a guard that is false), a statement fails, the client is gone.          *)
Fail(r) ==
  /\ ~At(r, "idle")
  /\ Forget(r)
  /\ since' = [since EXCEPT ![r] = {}]
  /\ UNCHANGED rows

-----------------------------------------------------------------------------
(* The statements that read *)

(* A move that does not walk: a mutated form.                              *)
TargetNoWalk(r) ==
  /\ At(r, "target")
  /\ CanHold(To(r))
  /\ Goto(r, "names")
  /\ UNCHANGED <<rows, req, at, work, passed, since>>

(* uploadParentDirectoryID: the directory to move to exists.  The move of  *)
(* a directory then goes on to assertDirectoryMoveTarget.                  *)
Target(r) ==
  /\ At(r, "target")
  /\ CanHold(To(r))
  /\ IF Id(r) \in Directories /\ To(r) # Root
       THEN Goto(r, "walk") /\ at' = [at EXCEPT ![r] = To(r)]
       ELSE Goto(r, "names") /\ UNCHANGED at
  /\ UNCHANGED <<rows, req, work, passed, since>>

(* A walk that does not move on: a mutated form.                           *)
WalkInPlace(r) ==
  /\ At(r, "walk")
  /\ at[r] # Id(r)
  /\ Exists(at[r])
  /\ passed' = [passed EXCEPT ![r] = @ \cup {at[r]}]
  /\ IF parent[at[r]] = Root THEN Goto(r, "names") ELSE UNCHANGED pc
  /\ UNCHANGED <<rows, req, at, work, since>>

(* One turn of the loop of assertDirectoryMoveTarget: the directory that   *)
(* is moved is refused, and the next is the parent as it is now.           *)
Walk(r) ==
  /\ At(r, "walk")
  /\ at[r] # Id(r)
  /\ Exists(at[r])
  /\ at' = [at EXCEPT ![r] = parent[at[r]]]
  /\ passed' = [passed EXCEPT ![r] = @ \cup {at[r]}]
  /\ IF parent[at[r]] = Root THEN Goto(r, "names") ELSE UNCHANGED pc
  /\ UNCHANGED <<rows, req, work, since>>

Siblings(e, d) == {s \in KindOf(e) \ {e} : Exists(s) /\ parent[s] = d}

(* A check among the entries where the moved one was: a mutated form.      *)
CheckNamesAtHome(r) ==
  /\ At(r, "names")
  /\ \A s \in Siblings(Id(r), parent[Id(r)]) : name[s] # req[r].name
  /\ Goto(r, "write")
  /\ UNCHANGED <<rows, req, at, work, passed, since>>

(* The entries of the same kind where this one is to be are listed: none   *)
(* of them has its name.                                                   *)
CheckNames(r) ==
  /\ At(r, "names")
  /\ \A s \in Siblings(Id(r), To(r)) : name[s] # req[r].name
  /\ Goto(r, "write")
  /\ UNCHANGED <<rows, req, at, work, passed, since>>

(* directoryAssetsRecursive lists the assets of a directory ...            *)
ListAssets(r, d) ==
  /\ At(r, "list")
  /\ d \in work[r] \cap Directories
  /\ at' = [at EXCEPT ![r] = d]
  /\ work' = [work EXCEPT ![r] = @ \cup {a \in Assets : Exists(a) /\ parent[a] = d}]
  /\ Goto(r, "children")
  /\ UNCHANGED <<rows, req, passed, since>>

(* ... and then, in another statement, its directories, to list in turn.   *)
ListChildren(r) ==
  /\ At(r, "children")
  /\ at' = [at EXCEPT ![r] = Root]
  /\ work' = [work EXCEPT ![r] = (@ \ {at[r]}) \cup
                {d \in Directories : Exists(d) /\ parent[d] = at[r]}]
  /\ Goto(r, "list")
  /\ UNCHANGED <<rows, req, passed, since>>

(* inUseAssetUsages, once all are listed: an asset that a project uses     *)
(* makes the request fail in the end.                                      *)
CheckUse(r, a) ==
  /\ At(r, "list")
  /\ a \in work[r] /\ work[r] \subseteq Assets
  /\ a \notin used
  /\ work' = [work EXCEPT ![r] = @ \ {a}]
  /\ UNCHANGED <<rows, pc, req, at, passed, since>>

-----------------------------------------------------------------------------
(* The statements that write, each the end of its request *)

(* What the requests that have read something yet to be written miss.      *)
HasRead(s) == \/ At(s, "write")
              \/ Op(s) # "create" /\ pc[s] \in {"target", "walk", "names"}
Write(r, kind) ==
  /\ Forget(r)
  /\ since' = [s \in Slots |-> IF s = r THEN {}
                               ELSE IF HasRead(s) THEN since[s] \cup {kind} ELSE since[s]]
Label(r) == IF Op(r) = "move" /\ Id(r) \in Directories THEN "move" ELSE "other"

(* CreateDirectory, CreateAsset, CreateAssetWithId: the foreign key wants  *)
(* the directory to exist.                                                 *)
Create(r) ==
  /\ At(r, "write") /\ Op(r) = "create"
  /\ CanHold(To(r))
  /\ parent' = [parent EXCEPT ![Id(r)] = To(r)]
  /\ name' = [name EXCEPT ![Id(r)] = req[r].name]
  /\ Write(r, Label(r))
  /\ UNCHANGED used

(* UpdateDirectoryName, UpdateAssetName.                                   *)
Rename(r) ==
  /\ At(r, "write") /\ Op(r) = "rename"
  /\ Exists(Id(r))
  /\ name' = [name EXCEPT ![Id(r)] = req[r].name]
  /\ Write(r, Label(r))
  /\ UNCHANGED <<parent, used>>

(* ChangeDirectoryParent, ChangeAssetDirectory.                            *)
Move(r) ==
  /\ At(r, "write") /\ Op(r) = "move"
  /\ Exists(Id(r)) /\ CanHold(To(r))
  /\ parent' = [parent EXCEPT ![Id(r)] = To(r)]
  /\ Write(r, Label(r))
  /\ UNCHANGED <<name, used>>

(* AddProjectAsset.                                                        *)
Use(r) ==
  /\ At(r, "write") /\ Op(r) = "use"
  /\ Exists(Id(r))
  /\ used' = used \cup {Id(r)}
  /\ Forget(r)
  /\ since' = [since EXCEPT ![r] = {}]
  /\ UNCHANGED <<parent, name>>

(* An entry and all that is in it, to any depth.                           *)
Closed(S) == \A e \in Existing : parent[e] \in S => e \in S
Under(e) == {x \in Existing : \A S \in SUBSET Existing : e \in S /\ Closed(S) => x \in S}

RowsGone(S) ==
  /\ parent' = [e \in Entries |-> IF e \in S THEN Gone ELSE parent[e]]
  /\ name' = [e \in Entries |-> IF e \in S THEN NoName ELSE name[e]]

(* A schema without RESTRICT on project_assets: a mutated form.            *)
DeleteUsed(r) ==
  /\ At(r, "list") /\ work[r] = {}
  /\ RowsGone(Under(Id(r)))
  /\ Forget(r)
  /\ since' = [since EXCEPT ![r] = {}]
  /\ UNCHANGED used

(* DeleteDirectory, DeleteAsset: the deletion cascades to all that is in   *)
(* the directory, and fails as a whole when a project uses an asset of it. *)
Delete(r) ==
  /\ At(r, "list") /\ work[r] = {}
  /\ Under(Id(r)) \cap used = {}
  /\ RowsGone(Under(Id(r)))
  /\ Forget(r)
  /\ since' = [since EXCEPT ![r] = {}]
  /\ UNCHANGED used

(* DeleteProject: its project_assets go with it.                           *)
DeleteProject ==
  /\ used' = {}
  /\ UNCHANGED <<parent, name, locals>>

(* RemoveProjectAsset, a single statement.                                 *)
RemoveProjectAsset(a) ==
  /\ used' = used \ {a}
  /\ UNCHANGED <<parent, name, locals>>

Send(r) ==
  \E e \in Entries :
    \/ \E to \in Places : SendMove(r, e, to) \/ \E n \in Names : SendCreate(r, e, to, n)
    \/ \E n \in Names : SendRename(r, e, n)
    \/ SendDelete(r, e)
    \/ e \in Assets /\ SendUse(r, e)
Look(r) == \/ Target(r) \/ Walk(r) \/ CheckNames(r) \/ ListChildren(r)
           \/ \E d \in Directories : ListAssets(r, d)
           \/ \E a \in Assets : CheckUse(r, a)
Alter(r) == Create(r) \/ Rename(r) \/ Move(r) \/ Use(r) \/ Delete(r)
Release == DeleteProject \/ \E a \in Assets : RemoveProjectAsset(a)

Next == (\E r \in Slots : Send(r) \/ Look(r) \/ Alter(r) \/ Fail(r)) \/ Release

Spec == Init /\ [][Next]_vars

-----------------------------------------------------------------------------
(* Type invariant of the tables and the requests (0017_create_directories, *)
(* 0018_add_assets_directory).                                             *)
TypeOK ==
  /\ parent \in [Entries -> Places \cup {Unborn, Gone}]
  /\ name \in [Entries -> Names \cup {NoName}]
  /\ used \subseteq Assets
  /\ pc \in [Slots -> {"idle", "target", "walk", "names", "list", "children", "write"}]
  /\ req \in [Slots -> Request]
  /\ at \in [Slots -> Places]
  /\ work \in [Slots -> SUBSET Entries]
  /\ passed \in [Slots -> SUBSET Directories]
  /\ since \in [Slots -> SUBSET {"move", "other"}]

(* Nothing dangles: each entry is at the root or in a directory that       *)
(* exists, and what a project uses exists, whatever is deleted, moved or   *)
(* added between the check of a request and its statement.                 *)
NothingDangles ==
  /\ \A e \in Existing : CanHold(parent[e])
  /\ used \subseteq Existing

(* Every directory is under the root: no set of directories holds the      *)
(* parents of all its members.                                             *)
Rooted ==
  \A S \in SUBSET (Directories \cap Existing) : S # {} => \E d \in S : parent[d] \notin S

(* assertDirectoryMoveTarget keeps the directories a tree, unless another  *)
(* directory was moved after a move began to read: only the write of a     *)
(* move that was overtaken so can close a loop.                            *)
LoopsNeedOvertaking ==
  [][Rooted /\ ~Rooted' =>
       \E r \in Slots : Op(r) = "move" /\ Op(r)' = "none" /\ "move" \in since[r]]_vars

(* The walk to the root ends: in a tree in which no other directory was    *)
(* moved since it began, it comes to no directory twice.                   *)
WalkEnds ==
  \A r \in Slots :
    At(r, "walk") /\ Exists(at[r]) /\ Rooted /\ "move" \notin since[r] => at[r] \notin passed[r]

(* No two entries of one kind in one place share a name.                   *)
Distinct ==
  \A e, f \in Existing :
    e # f /\ KindOf(e) = KindOf(f) /\ parent[e] = parent[f] => name[e] # name[f]

(* The name checks compare an entry with the siblings of its own kind: two *)
(* directories, or two assets, in one place come to share a name only when *)
(* another entry was created, renamed or moved between what a request read *)
(* and its write.                                                          *)
TwinsNeedOvertaking ==
  [][Distinct /\ ~Distinct' =>
       \E r \in Slots : Op(r) # "none" /\ Op(r)' = "none" /\ since[r] # {}]_vars

(* "this error is detailed when you attempt to rename or move a directory/ *)
(* file or create a directory/file in a place where it shares a name with  *)
(* any of its sibling directories" (vfs.proto): an entry of either kind is *)
(* not given the place and name of a directory that is there, unless its   *)
(* request was overtaken.                                                  *)
NamesakesRefused ==
  [][\A e \in Entries, d \in Directories :
       /\ e # d /\ Exists(e)' /\ <<parent[e], name[e]>>' # <<parent[e], name[e]>>
       /\ Exists(d) /\ UNCHANGED <<parent[d], name[d]>>
       /\ <<parent[e], name[e]>>' = <<parent[d], name[d]>>
       => \E r \in Slots : Op(r) # "none" /\ Op(r)' = "none" /\ since[r] # {}]_vars
=============================================================================
