---------------------------- MODULE StreamProofs ----------------------------
(***************************************************************************)
(* The two components whose handlers stream to the pages.                  *)
(*                                                                         *)
(* AgentThread, for any number of tabs, sends and messages: that what is   *)
(* kept of a conversation is a tree in order, that a complete answer is    *)
(* kept with all above it, and that the agent is told what the tab showed. *)
(*                                                                         *)
(* SpaceNotify, for any number of pages, messages, loads and lost          *)
(* connections: its types, that no change is lost between the database and *)
(* a subscribed stream, and that every step is one that SpaceAlerts        *)
(* allows.  That the alerts come at all is left to TLC.                    *)
(***************************************************************************)
EXTENDS SpaceNotify, AgentThread, WellFoundedInduction, SequenceTheorems, TLAPS

USE NobodyAssumption, BoundAssumption

-----------------------------------------------------------------------------
(* Trees and their paths *)

(* A tree: the parents of its messages are in it, and no set of them holds   *)
(* the parents of all its members.                                          *)
Grounded(parents) ==
  /\ Top \notin DOMAIN parents
  /\ \A n \in DOMAIN parents : parents[n] \in DOMAIN parents \cup {Top}
  /\ \A X \in SUBSET DOMAIN parents : X # {} => \E n \in X : parents[n] \notin X

(* A set of numbers has a least one.                                        *)
LEMMA LeastNumber ==
  ASSUME NEW S \in SUBSET Nat, S # {}
  PROVE  \E m \in S : \A k \in S : m <= k
<1>1. PICK m \in S : \A k \in S : <<k, m>> \notin OpToRel(<, Nat)
  BY NatLessThanWellFounded, WFMin
<1>2. \A k \in S : ~(k < m)
  BY <1>1 DEF OpToRel
<1> QED
  BY <1>2

(* A set of numbers up to n has a greatest one.                             *)
LEMMA GreatestNumber ==
  ASSUME NEW n \in Nat, NEW S \in SUBSET (1 .. n), S # {}
  PROVE  \E m \in S : \A k \in S : k <= m
<1> DEFINE left == {n - i : i \in S}
<1>1. left \in SUBSET Nat /\ left # {}
  <2>1. \A i \in S : n - i \in Nat
    OBVIOUS
  <2>2. PICK i \in S : TRUE
    OBVIOUS
  <2>3. n - i \in left
    OBVIOUS
  <2> QED
    BY <2>1, <2>3
<1> HIDE DEF left
<1>2. PICK l \in left : \A k \in left : l <= k
  BY <1>1, LeastNumber
<1>3. PICK m \in S : l = n - m
  BY DEF left
<1>4. ASSUME NEW k \in S PROVE k <= m
  <2>1. n - k \in left
    BY DEF left
  <2> QED
    BY <1>2, <1>3, <2>1
<1> QED
  BY <1>4

(* What Path makes of a tree, where there is such a function.               *)
Paths(f, parents) ==
    f = [n \in DOMAIN parents \cup {Top} |-> IF n = Top THEN <<>> ELSE Append(f[parents[n]], n)]

(* ... or on a part of the tree that goes up to the top.                    *)
PathsOn(part, f, parents) ==
  /\ part \subseteq DOMAIN parents \cup {Top}
  /\ \A n \in part \ {Top} : parents[n] \in part
  /\ \A n \in part : f[n] = IF n = Top THEN <<>> ELSE Append(f[parents[n]], n)

(* Two such functions agree.                                                *)
LEMMA PathsAgree ==
  ASSUME NEW parents, Grounded(parents),
         NEW A, NEW f, PathsOn(A, f, parents), NEW B, NEW g, PathsOn(B, g, parents)
  PROVE  \A n \in A \cap B : f[n] = g[n]
<1> DEFINE X == {n \in A \cap B : f[n] # g[n]}
<1> SUFFICES ASSUME X # {} PROVE FALSE
  OBVIOUS
<1>1. X \in SUBSET DOMAIN parents
  BY DEF PathsOn
<1>2. PICK n \in X : parents[n] \notin X
  BY <1>1 DEF Grounded
<1>3. n # Top /\ parents[n] \in A \cap B
  BY <1>1, <1>2 DEF PathsOn, Grounded
<1> QED
  BY <1>2, <1>3 DEF PathsOn

(* Each message is on a part that has such a function.                      *)
LEMMA PathsEverywhere ==
  ASSUME NEW parents, Grounded(parents)
  PROVE  \A n \in DOMAIN parents \cup {Top} : \E A, f : PathsOn(A, f, parents) /\ n \in A
<1> DEFINE Has(n) == \E A, f : PathsOn(A, f, parents) /\ n \in A
           X == {n \in DOMAIN parents : ~Has(n)}
<1>1. Has(Top)
  <2>1. PathsOn({Top}, [n \in {Top} |-> <<>>], parents)
    BY DEF PathsOn
  <2> QED
    BY <2>1
<1> SUFFICES ASSUME X # {} PROVE FALSE
  BY <1>1
<1>2. PICK n \in X : parents[n] \notin X
  BY DEF Grounded
<1>3. n # Top /\ Has(parents[n])
  BY <1>1, <1>2 DEF Grounded
<1>4. PICK A, f : PathsOn(A, f, parents) /\ parents[n] \in A
  BY <1>3
<1> DEFINE g == [m \in A \cup {n} |-> IF m \in A THEN f[m] ELSE Append(f[parents[n]], n)]
<1>5. PathsOn(A \cup {n}, g, parents)
  BY <1>2, <1>3, <1>4 DEF PathsOn
<1> QED
  BY <1>2, <1>5

(* So Path is what its definition says.                                     *)
LEMMA PathsExist ==
  ASSUME NEW parents, Grounded(parents)
  PROVE  \E f : Paths(f, parents)
<1> DEFINE At(n) == CHOOSE v : \E A, f : PathsOn(A, f, parents) /\ n \in A /\ v = f[n]
           h == [n \in DOMAIN parents \cup {Top} |-> At(n)]
<1>1. ASSUME NEW A, NEW f, PathsOn(A, f, parents), NEW n \in A
      PROVE  h[n] = f[n]
  <2>1. \E B, g : PathsOn(B, g, parents) /\ n \in B /\ At(n) = g[n]
    BY <1>1
  <2>2. At(n) = f[n]
    BY <1>1, <2>1, PathsAgree
  <2> QED
    BY <1>1, <2>2 DEF PathsOn
<1> HIDE DEF At
<1>2. ASSUME NEW n \in DOMAIN parents \cup {Top}
      PROVE  h[n] = IF n = Top THEN <<>> ELSE Append(h[parents[n]], n)
  <2>1. PICK A, f : PathsOn(A, f, parents) /\ n \in A
    BY PathsEverywhere
  <2>2. h[n] = f[n]
    BY <1>1, <2>1
  <2>3. n # Top => h[parents[n]] = f[parents[n]]
    <3>1. n # Top => parents[n] \in A
      BY <2>1 DEF PathsOn
    <3> QED
      BY <1>1, <2>1, <3>1
  <2> QED
    BY <2>1, <2>2, <2>3 DEF PathsOn
<1>3. h = [n \in DOMAIN parents \cup {Top} |-> IF n = Top THEN <<>> ELSE Append(h[parents[n]], n)]
  BY <1>2
<1> QED
  BY <1>3 DEF Paths

(* The path of a message ends with it, after the path of its parent.        *)
LEMMA PathOf ==
  ASSUME NEW parents, Grounded(parents)
  PROVE  /\ Path(parents, Top) = <<>>
         /\ \A n \in DOMAIN parents : Path(parents, n) = Append(Path(parents, parents[n]), n)
<1> DEFINE f == CHOOSE f : Paths(f, parents)
<1>1. Paths(f, parents)
  BY PathsExist
<1>2. \A n : Path(parents, n) = f[n]
  BY DEF Path, Paths
<1> HIDE DEF f
<1> QED
  BY <1>1, <1>2 DEF Paths, Grounded

(* What can be above a message of a tree.                                   *)
Places(parents) == DOMAIN parents \cup {Top}

(* A path goes from child to parent, from a first message to the last.      *)
Leads(seq, parents, m) ==
  /\ seq \in Seq(DOMAIN parents)
  /\ \A i \in 1 .. Len(seq) : parents[seq[i]] = IF i = 1 THEN Top ELSE seq[i - 1]
  /\ IF m = Top THEN seq = <<>> ELSE seq # <<>> /\ seq[Len(seq)] = m

(* The path of a message is one from the top to it.                         *)
LEMMA PathLeads ==
  ASSUME NEW parents, Grounded(parents)
  PROVE  \A m \in Places(parents) : Leads(Path(parents, m), parents, m)
<1> DEFINE X == {m \in DOMAIN parents : ~Leads(Path(parents, m), parents, m)}
<1>1. Leads(Path(parents, Top), parents, Top)
  <2>1. <<>> \in Seq(DOMAIN parents) /\ 1 .. Len(<<>>) = {}
    OBVIOUS
  <2>2. Leads(<<>>, parents, Top)
    BY <2>1 DEF Leads
  <2> QED
    BY <2>2, PathOf
<1> SUFFICES ASSUME X # {} PROVE FALSE
  BY <1>1 DEF Places
<1>2. PICK m \in X : parents[m] \notin X
  BY DEF Grounded
<1> DEFINE p == parents[m]
           above == Path(parents, p)
<1>3. m # Top /\ p \in Places(parents) /\ Leads(above, parents, p)
  BY <1>1, <1>2 DEF Grounded, Places
<1>4. Path(parents, m) = Append(above, m)
  BY PathOf
<1> HIDE DEF above
<1>5. Leads(Append(above, m), parents, m)
  <2>1. above \in Seq(DOMAIN parents) /\ m \in DOMAIN parents
    BY <1>3 DEF Leads
  <2>2. Append(above, m) \in Seq(DOMAIN parents) /\ Len(Append(above, m)) = Len(above) + 1
    BY <2>1
  <2>3. /\ Append(above, m)[Len(above) + 1] = m
        /\ \A i \in 1 .. Len(above) : Append(above, m)[i] = above[i]
    BY <2>1
  <2>4. p = IF Len(above) = 0 THEN Top ELSE above[Len(above)]
    BY <1>3, <2>1 DEF Leads
  <2>5. ASSUME NEW i \in 1 .. Len(above) + 1
        PROVE  parents[Append(above, m)[i]]
                 = IF i = 1 THEN Top ELSE Append(above, m)[i - 1]
    <3>1. CASE i \in 1 .. Len(above)
      <4>1. parents[above[i]] = IF i = 1 THEN Top ELSE above[i - 1]
        BY <1>3, <3>1 DEF Leads
      <4>2. i # 1 => i - 1 \in 1 .. Len(above)
        BY <2>1, <3>1
      <4> QED
        BY <2>3, <3>1, <4>1, <4>2
    <3>2. CASE i = Len(above) + 1
      <4>1. Append(above, m)[i] = m /\ i - 1 = Len(above) /\ (i = 1 <=> Len(above) = 0)
        BY <2>1, <2>3, <3>2
      <4>2. i # 1 => i - 1 \in 1 .. Len(above)
        BY <2>1, <3>2
      <4> QED
        BY <2>3, <2>4, <4>1, <4>2
    <3> QED
      BY <2>1, <3>1, <3>2
  <2>6. Append(above, m) # <<>>
    BY <2>1, <2>2
  <2>7. Append(above, m)[Len(Append(above, m))] = m
    BY <2>1, <2>2, <2>3
  <2>8. 1 .. Len(Append(above, m)) = 1 .. Len(above) + 1
    BY <2>2
  <2> QED
    BY <1>3, <2>2, <2>5, <2>6, <2>7, <2>8 DEF Leads
<1> QED
  BY <1>2, <1>4, <1>5

(* What a longer list holds.                                                *)
LEMMA AppendSet ==
  ASSUME NEW S, NEW seq \in Seq(S), NEW e \in S
  PROVE  ToSet(Append(seq, e)) = ToSet(seq) \cup {e}
<1>1. Append(seq, e) \in Seq(S) /\ Len(Append(seq, e)) = Len(seq) + 1
  OBVIOUS
<1>2. Append(seq, e)[Len(seq) + 1] = e /\ \A i \in 1 .. Len(seq) : Append(seq, e)[i] = seq[i]
  OBVIOUS
<1>3. DOMAIN seq = 1 .. Len(seq) /\ DOMAIN Append(seq, e) = 1 .. Len(seq) + 1 /\ Len(seq) \in Nat
  BY <1>1
<1> QED
  BY <1>2, <1>3 DEF ToSet

(* A path whose end is in a part of the tree that goes up to the top is in it. *)
LEMMA PathWithin ==
  ASSUME NEW parents, Grounded(parents), NEW part, NEW m \in Places(parents),
         m \in part \cup {Top},
         \A n \in part \cap DOMAIN parents : parents[n] \in part \cup {Top}
  PROVE  ToSet(Path(parents, m)) \subseteq part
<1> DEFINE X == {n \in part \cap DOMAIN parents : ~(ToSet(Path(parents, n)) \subseteq part)}
<1>1. ToSet(Path(parents, Top)) \subseteq part
  BY PathOf DEF ToSet
<1> SUFFICES ASSUME X # {} PROVE FALSE
  BY <1>1 DEF Places
<1>2. PICK n \in X : parents[n] \notin X
  BY DEF Grounded
<1>3. ToSet(Path(parents, parents[n])) \subseteq part
  BY <1>1, <1>2 DEF Grounded
<1>4. Path(parents, parents[n]) \in Seq(DOMAIN parents)
  BY <1>2, PathLeads DEF Leads, Places, Grounded
<1>5. Path(parents, n) = Append(Path(parents, parents[n]), n)
  BY PathOf
<1>6. ToSet(Path(parents, n)) = ToSet(Path(parents, parents[n])) \cup {n}
  <2>1. n \in DOMAIN parents
    BY <1>2
  <2> QED
    BY <1>4, <1>5, <2>1, AppendSet
<1> QED
  BY <1>2, <1>3, <1>6

(* A new leaf keeps a tree a tree.                                          *)
LEMMA GroundedAttach ==
  ASSUME NEW parents, Grounded(parents), NEW m, m \notin Places(parents),
         NEW p \in Places(parents)
  PROVE  Grounded(Attach(parents, m, p)) /\ DOMAIN Attach(parents, m, p) = DOMAIN parents \cup {m}
<1> DEFINE grown == Attach(parents, m, p)
<1>1. /\ DOMAIN grown = DOMAIN parents \cup {m} /\ grown[m] = p
      /\ \A n \in DOMAIN parents : grown[n] = parents[n]
  BY DEF Attach, Places
<1> HIDE DEF grown
<1>2. ASSUME NEW X \in SUBSET DOMAIN grown, X # {}
      PROVE  \E n \in X : grown[n] \notin X
  <2>1. CASE X \cap DOMAIN parents = {}
    BY <1>1, <1>2, <2>1 DEF Places, Grounded
  <2>2. CASE X \cap DOMAIN parents # {}
    <3>1. PICK n \in X \cap DOMAIN parents : parents[n] \notin X \cap DOMAIN parents
      BY <2>2 DEF Grounded
    <3> QED
      BY <1>1, <3>1 DEF Places, Grounded
  <2> QED
    BY <2>1, <2>2
<1>3. Grounded(grown)
  BY <1>1, <1>2 DEF Grounded, Places
<1> QED
  BY <1>1, <1>3 DEF grown

-----------------------------------------------------------------------------
(* The rows *)

Entry == [id : Ids, parent : Ids \cup {Top}, run : Ids]

(* Each id is found in its row.                                             *)
LEMMA RowFound ==
  ASSUME NEW list \in Seq(Entry),
         \A i \in 1 .. Len(list) : \A j \in 1 .. i - 1 : list[j].id # list[i].id
  PROVE  \A i \in 1 .. Len(list) : (CHOOSE row \in ToSet(list) : row.id = list[i].id) = list[i]
<1> SUFFICES ASSUME NEW i \in 1 .. Len(list)
             PROVE  (CHOOSE row \in ToSet(list) : row.id = list[i].id) = list[i]
  OBVIOUS
<1>1. list[i] \in ToSet(list)
  BY DEF ToSet
<1>2. ASSUME NEW row \in ToSet(list), row.id = list[i].id
      PROVE  row = list[i]
  <2>1. PICK k \in 1 .. Len(list) : row = list[k]
    BY DEF ToSet
  <2>2. ~(k < i) /\ ~(i < k)
    BY <1>2, <2>1
  <2> QED
    BY <2>1, <2>2
<1> QED
  BY <1>1, <1>2

RowsOK == rows \in Seq(Entry) /\ RowsAreATree /\ KeptIds \subseteq 1 .. used

(* Where a message is in the list, and what there is to know of its row.    *)
At(n) == CHOOSE i \in 1 .. Len(rows) : rows[i].id = n

(* The row of a kept message is in the list, after the row of its parent.   *)
LEMMA RowAt ==
  ASSUME RowsOK, NEW n \in KeptIds
  PROVE  /\ At(n) \in 1 .. Len(rows) /\ rows[At(n)].id = n /\ Row(n) = rows[At(n)]
         /\ Row(n) \in Entry
         /\ Row(n).parent # Top => Row(n).parent \in KeptIds /\ At(Row(n).parent) < At(n)
<1>1. At(n) \in 1 .. Len(rows) /\ rows[At(n)].id = n
  BY DEF At, KeptIds
<1>2. Row(n) = rows[At(n)]
  BY <1>1, RowFound DEF Row, RowsOK, RowsAreATree
<1>3. ASSUME Row(n).parent # Top
      PROVE  Row(n).parent \in KeptIds /\ At(Row(n).parent) < At(n)
  <2> DEFINE p == Row(n).parent
  <2>1. PICK j \in 1 .. At(n) - 1 : rows[j].id = p
    BY <1>1, <1>2, <1>3 DEF RowsOK, RowsAreATree
  <2>2. j \in 1 .. Len(rows) /\ p \in KeptIds
    BY <1>1, <2>1 DEF KeptIds
  <2>3. At(p) \in 1 .. Len(rows) /\ rows[At(p)].id = p
    BY <2>2 DEF At, KeptIds
  <2>4. ~(j < At(p))
    BY <2>1, <2>2, <2>3 DEF RowsOK, RowsAreATree
  <2> QED
    BY <1>1, <2>1, <2>2, <2>3, <2>4
<1> QED
  BY <1>1, <1>2, <1>3 DEF RowsOK

(* What is kept is a tree.                                                  *)
LEMMA KeptGrounded ==
  ASSUME RowsOK
  PROVE  Grounded(Kept) /\ DOMAIN Kept = KeptIds
<1>1. DOMAIN Kept = KeptIds /\ \A n \in KeptIds : Kept[n] = Row(n).parent
  BY DEF Kept
<1>2. ASSUME NEW X \in SUBSET KeptIds, X # {}
      PROVE  \E n \in X : Kept[n] \notin X
  <2> DEFINE places == {At(n) : n \in X}
  <2>1. places \in SUBSET Nat /\ places # {}
    BY <1>2, RowAt
  <2> HIDE DEF places
  <2>2. PICK m \in places : \A k \in places : m <= k
    BY <2>1, LeastNumber
  <2>3. PICK n \in X : m = At(n)
    BY DEF places
  <2>4. Kept[n] \notin X
    <3> SUFFICES ASSUME Kept[n] \in X PROVE FALSE
      OBVIOUS
    <3>1. Kept[n] = Row(n).parent /\ Kept[n] # Top
      BY <1>1 DEF RowsOK, Top
    <3>2. At(Kept[n]) < At(n)
      BY <3>1, RowAt
    <3>3. At(Kept[n]) \in places
      BY DEF places
    <3> QED
      BY <2>2, <2>3, <3>2, <3>3, RowAt
  <2> QED
    BY <2>4
<1>3. \A n \in KeptIds : Kept[n] \in KeptIds \cup {Top}
  BY <1>1, RowAt
<1> QED
  BY <1>1, <1>2, <1>3 DEF RowsOK, Grounded, Top

(* A message that is not a user's is kept under one of the same run.        *)
RunsInv ==
  /\ \A n \in KeptIds : Row(n).run \in KeptIds
  /\ \A n \in KeptIds \ prompts :
       Row(n).parent \in KeptIds /\ Row(Row(n).parent).run = Row(n).run

(* The rows of a run are next to each other.                                *)
BlocksInv ==
  \A i, k \in 1 .. Len(rows) : \A j \in i .. k :
    rows[i].run = rows[k].run => rows[j].run = rows[i].run

(* That r is in the list before s is.                                       *)
ComesFirst(list, r, s) ==
  \E i \in DOMAIN list : list[i] = r /\ \A j \in 1 .. i : list[j] # s

(* Lists that agree on which of two comes first have the same order.        *)
LEMMA FirstInEqual ==
  ASSUME NEW seq, NEW part, NEW things,
         \A r, s \in things : ComesFirst(seq, r, s) <=> ComesFirst(part, r, s)
  PROVE  FirstIn(seq, things) = FirstIn(part, things)
<1>1. \A list : FirstIn(list, things)
                  = {pair \in things \X things : ComesFirst(list, pair[1], pair[2])}
  BY DEF FirstIn, ComesFirst
<1>2. \A pair \in things \X things :
        ComesFirst(seq, pair[1], pair[2]) <=> ComesFirst(part, pair[1], pair[2])
  OBVIOUS
<1> QED
  BY <1>1, <1>2

(* The first of some things to come in a sequence that has them in blocks    *)
(* are the first to come in a part of it that has them all.                 *)
LEMMA FirstInPart ==
  ASSUME NEW seq, NEW n \in Nat, DOMAIN seq = 1 .. n,
         \A i, k \in 1 .. n : \A j \in i .. k : seq[i] = seq[k] => seq[j] = seq[i],
         NEW part, NEW m \in Nat, DOMAIN part = 1 .. m, NEW at \in [1 .. m -> 1 .. n],
         \A i \in 1 .. m : part[i] = seq[at[i]],
         \A i, j \in 1 .. m : i < j => at[i] < at[j]
  PROVE  FirstIn(seq, ToSet(part)) = FirstIn(part, ToSet(part))
<1>1. ASSUME NEW r \in ToSet(part), NEW s \in ToSet(part)
      PROVE  ComesFirst(seq, r, s) <=> ComesFirst(part, r, s)
  <2>1. PICK ir \in 1 .. m : part[ir] = r
    BY DEF ToSet
  <2>2. PICK is \in 1 .. m : part[is] = s
    BY DEF ToSet
  <2>3. ASSUME NEW i \in 1 .. n, seq[i] = r, \A j \in 1 .. i : seq[j] # s
        PROVE  \A j \in 1 .. ir : part[j] # s
    <3> SUFFICES ASSUME NEW j \in 1 .. ir, part[j] = s PROVE FALSE
      OBVIOUS
    <3>1. r # s /\ j \in 1 .. m /\ j # ir
      BY <2>1, <2>3
    <3>2. at[j] < at[ir] /\ seq[at[j]] = s /\ seq[at[ir]] = r
      BY <2>1, <3>1
    <3>3. i < at[j]
      BY <2>3, <3>1, <3>2
    <3> QED
      BY <2>3, <3>1, <3>2, <3>3
  <2>4. ASSUME NEW i \in 1 .. m, part[i] = r, \A j \in 1 .. i : part[j] # s
        PROVE  \A j \in 1 .. at[i] : seq[j] # s
    <3> SUFFICES ASSUME NEW j \in 1 .. at[i], seq[j] = s PROVE FALSE
      OBVIOUS
    <3>1. r # s /\ i < is
      BY <2>2, <2>4
    <3>2. at[i] < at[is] /\ seq[at[is]] = s /\ seq[at[i]] = r
      BY <2>2, <2>4, <3>1
    <3> QED
      BY <3>1, <3>2
  <2>5. ASSUME ComesFirst(seq, r, s) PROVE ComesFirst(part, r, s)
    <3>1. PICK i \in 1 .. n : seq[i] = r /\ \A j \in 1 .. i : seq[j] # s
      BY <2>5 DEF ComesFirst
    <3> QED
      BY <2>1, <2>3, <3>1 DEF ComesFirst
  <2>6. ASSUME ComesFirst(part, r, s) PROVE ComesFirst(seq, r, s)
    <3>1. PICK i \in 1 .. m : part[i] = r /\ \A j \in 1 .. i : part[j] # s
      BY <2>6 DEF ComesFirst
    <3>2. at[i] \in 1 .. n /\ seq[at[i]] = r /\ \A j \in 1 .. at[i] : seq[j] # s
      BY <2>4, <3>1
    <3> QED
      BY <3>2 DEF ComesFirst
  <2> QED
    BY <2>5, <2>6
<1> QED
  BY <1>1, FirstInEqual
(* What a tab shows under a message is what is kept, but that it does not     *)
(* know of the message for a call of tools.                                 *)
Follows(n, q) ==
  \/ Row(n).parent = q
  \/ /\ n \notin prompts /\ q \in prompts
     /\ Row(n).parent \in KeptIds \ prompts /\ Row(Row(n).parent).parent = q

ShownOK(c) == IF c.parent = Top THEN c.shown = <<>>
              ELSE c.shown # <<>> /\ c.shown[Len(c.shown)] = c.parent

Above(seq, i) == IF i = 1 THEN Top ELSE seq[i - 1]

FollowsAll(branch) ==
  \A i \in 1 .. Len(branch) : branch[i] \in KeptIds => Follows(branch[i], Above(branch, i))

(* What follows is kept, earlier, and by the same run if not at once.       *)
LEMMA FollowsUp ==
  ASSUME RowsOK, RunsInv, prompts \subseteq Ids, NEW n \in KeptIds, NEW q, Follows(n, q)
  PROVE  /\ q # Top => q \in KeptIds /\ At(q) < At(n)
         /\ Row(n).parent = q
              \/ /\ Row(n).parent \in KeptIds /\ Row(Row(n).parent).parent = q
                 /\ Row(Row(n).parent).run = Row(n).run
<1>1. CASE Row(n).parent = q
  BY <1>1, RowAt
<1>2. CASE Row(n).parent # q
  <2> DEFINE m == Row(n).parent
  <2>1. /\ n \notin prompts /\ q \in prompts /\ m \in KeptIds /\ Row(m).parent = q /\ q # Top
        /\ m # Top
    BY <1>2 DEF Follows, RowsOK, Top, Ids
  <2> HIDE DEF m
  <2>2. At(m) < At(n)
    BY <2>1, RowAt DEF m
  <2>3. q \in KeptIds /\ At(q) < At(m)
    BY <2>1, RowAt
  <2>4. At(q) \in Int /\ At(m) \in Int /\ At(n) \in Int
    BY <2>1, <2>3, RowAt
  <2> QED
    BY <2>1, <2>2, <2>3, <2>4 DEF RunsInv, m
<1> QED
  BY <1>1, <1>2

(* All that is shown above a kept message is kept, in that order.           *)
LEMMA ShownKept ==
  ASSUME RowsOK, RunsInv, prompts \subseteq Ids, NEW branch \in Seq(Ids), FollowsAll(branch),
         branch # <<>>, branch[Len(branch)] \in KeptIds
  PROVE  /\ \A i \in 1 .. Len(branch) : branch[i] \in KeptIds
         /\ \A i, j \in 1 .. Len(branch) : i < j => At(branch[i]) < At(branch[j])
<1> DEFINE n == Len(branch)
           Gone == {i \in 1 .. n : branch[i] \notin KeptIds}
<1>0. n \in Nat \ {0} /\ \A i \in 1 .. n : branch[i] \in Ids
  OBVIOUS
<1>1. \A i \in 1 .. n : branch[i] \in KeptIds
  <2> SUFFICES ASSUME Gone # {} PROVE FALSE
    BY <1>0
  <2> HIDE DEF Gone
  <2>1. PICK i \in Gone : \A k \in Gone : k <= i
    BY <1>0, GreatestNumber DEF Gone
  <2>2. i \in 1 .. n /\ branch[i] \notin KeptIds
    BY DEF Gone
  <2>3. i + 1 \in 1 .. n
    BY <1>0, <2>2
  <2>4. branch[i + 1] \in KeptIds
    BY <2>1, <2>2, <2>3 DEF Gone
  <2>5. Follows(branch[i + 1], branch[i])
    <3>1. Above(branch, i + 1) = branch[i]
      BY <2>2 DEF Above
    <3> QED
      BY <2>3, <2>4, <3>1 DEF FollowsAll
  <2>6. branch[i] # Top
    BY <1>0, <2>2 DEF Ids, Top
  <2> QED
    BY <2>2, <2>4, <2>5, <2>6, FollowsUp
<1>2. \A i \in 1 .. n : At(branch[i]) \in Nat
  BY <1>1, RowAt
<1>3. ASSUME NEW i \in 1 .. n, i # 1
      PROVE  At(branch[i - 1]) < At(branch[i])
  <2>1. i - 1 \in 1 .. n /\ branch[i - 1] # Top /\ Above(branch, i) = branch[i - 1]
    BY <1>0, <1>3 DEF Ids, Top, Above
  <2> QED
    BY <1>1, <2>1, FollowsUp DEF FollowsAll
<1>4. ASSUME NEW i \in 1 .. n
      PROVE  \A j \in 1 .. n : i < j => At(branch[i]) < At(branch[j])
  <2> DEFINE Late == {j \in 1 .. n : i < j /\ ~(At(branch[i]) < At(branch[j]))}
  <2> SUFFICES ASSUME Late # {} PROVE FALSE
    OBVIOUS
  <2>1. Late \in SUBSET Nat
    OBVIOUS
  <2> HIDE DEF Late
  <2>2. PICK j \in Late : \A k \in Late : j <= k
    BY <2>1, LeastNumber
  <2>3. j \in 1 .. n /\ i < j /\ ~(At(branch[i]) < At(branch[j]))
    BY <2>2 DEF Late
  <2>4. At(branch[j - 1]) < At(branch[j]) /\ j - 1 \in 1 .. n
    BY <1>3, <2>3
  <2>5. j - 1 \notin Late
    BY <2>1, <2>2, <2>3
  <2>6. j - 1 = i \/ At(branch[i]) < At(branch[j - 1])
    BY <2>3, <2>4, <2>5 DEF Late
  <2> QED
    BY <1>2, <2>3, <2>4, <2>6
<1> QED
  BY <1>1, <1>4
(* So the runs above a message are those of what is shown above it, in the    *)
(* order in which they are shown.                                           *)
RunsAbove(p) == {Row(id).run : id \in ToSet(Path(Kept, p))}
RunsShown(branch) == [i \in DOMAIN branch |-> Row(branch[i]).run]

(* The messages between those shown are of the runs of those shown.         *)
LEMMA RunsAreShown ==
  ASSUME RowsOK, RunsInv, prompts \subseteq Ids, NEW p \in KeptIds, NEW branch \in Seq(Ids),
         FollowsAll(branch), branch # <<>>, branch[Len(branch)] = p
  PROVE  RunsAbove(p) = ToSet(RunsShown(branch))
<1> DEFINE n == Len(branch)
           path == ToSet(Path(Kept, p))
           C == KeptIds \cap (ToSet(branch) \cup {Kept[m] : m \in ToSet(branch)})
<1>0. n \in Nat \ {0} /\ DOMAIN branch = 1 .. n /\ \A i \in 1 .. n : branch[i] \in Ids
  OBVIOUS
<1>1. \A i \in 1 .. n : branch[i] \in KeptIds
  BY ShownKept
<1>2. Grounded(Kept) /\ DOMAIN Kept = KeptIds /\ \A m \in KeptIds : Kept[m] = Row(m).parent
  BY KeptGrounded DEF Kept
<1>3. /\ Leads(Path(Kept, p), Kept, p)
      /\ p # Top
  BY <1>2, PathLeads DEF Places, RowsOK, Top
<1>4. path \subseteq C
  <2>1. ASSUME NEW m \in C \cap KeptIds
        PROVE  Kept[m] \in C \cup {Top}
    <3>1. Kept[m] \in KeptIds \cup {Top}
      BY <1>2 DEF Grounded
    <3>2. CASE m \in ToSet(branch)
      BY <3>1, <3>2
    <3>3. ASSUME NEW i \in 1 .. n, m = Kept[branch[i]], m \notin ToSet(branch)
          PROVE  Kept[m] \in C \cup {Top}
      <4> DEFINE q == Above(branch, i)
      <4>1. Follows(branch[i], q) /\ branch[i] \in KeptIds
        BY <1>1 DEF FollowsAll
      <4>2. q \in ToSet(branch) \cup {Top}
        BY <1>0 DEF Above, ToSet
      <4>3. m = Row(branch[i]).parent /\ m # Top
        BY <1>2, <3>3, <4>1 DEF RowsOK, Top
      <4> HIDE DEF q
      <4>4. Row(m).parent = q
        BY <3>3, <4>1, <4>2, <4>3, FollowsUp
      <4> QED
        BY <1>2, <3>1, <4>2, <4>4
    <3> QED
      BY <1>0, <3>2, <3>3 DEF ToSet
  <2>2. p \in C
    BY <1>0, <1>1 DEF ToSet
  <2> HIDE DEF C
  <2> QED
    BY <1>2, <2>1, <2>2, PathWithin DEF Places
<1>5. \A i \in 1 .. n : branch[i] \in path
  <2> DEFINE Off == {i \in 1 .. n : branch[i] \notin path}
  <2> SUFFICES ASSUME Off # {} PROVE FALSE
    OBVIOUS
  <2> HIDE DEF Off
  <2>1. PICK i \in Off : \A k \in Off : k <= i
    BY <1>0, GreatestNumber DEF Off
  <2>2. i \in 1 .. n /\ branch[i] \notin path
    BY DEF Off
  <2>3. p \in path
    <3>1. Path(Kept, p) # <<>> /\ Path(Kept, p) \in Seq(KeptIds)
          /\ Path(Kept, p)[Len(Path(Kept, p))] = p
      BY <1>2, <1>3 DEF Leads
    <3>2. Len(Path(Kept, p)) \in DOMAIN Path(Kept, p)
      BY <3>1
    <3> QED
      BY <3>1, <3>2 DEF ToSet
  <2>4. i + 1 \in 1 .. n /\ Above(branch, i + 1) = branch[i]
    BY <1>0, <2>2, <2>3 DEF Above
  <2>5. branch[i + 1] \in path
    BY <2>1, <2>2, <2>4 DEF Off
  <2>6. \A m \in path : m \in KeptIds /\ Kept[m] \in path \cup {Top}
    <3> DEFINE s == Path(Kept, p)
    <3>1. s \in Seq(KeptIds) /\ \A j \in 1 .. Len(s) : Kept[s[j]] = Above(s, j)
      BY <1>2, <1>3 DEF Leads, Above
    <3> HIDE DEF s
    <3>2. DOMAIN s = 1 .. Len(s) /\ Len(s) \in Nat /\ \A j \in 1 .. Len(s) : s[j] \in KeptIds
      BY <3>1
    <3>3. \A j \in 1 .. Len(s) : Above(s, j) \in ToSet(s) \cup {Top}
      BY <3>2 DEF Above, ToSet
    <3> QED
      BY <3>1, <3>2, <3>3 DEF ToSet, s
  <2>7. Follows(branch[i + 1], branch[i]) /\ branch[i + 1] \in KeptIds /\ branch[i] # Top
    BY <1>0, <1>1, <2>2, <2>4 DEF FollowsAll, Ids, Top
  <2>8. Row(branch[i + 1]).parent \in path \cup {Top}
    BY <1>2, <2>5, <2>6
  <2>9. CASE Row(branch[i + 1]).parent = branch[i]
    BY <2>2, <2>7, <2>8, <2>9
  <2>10. CASE Row(Row(branch[i + 1]).parent).parent = branch[i]
               /\ Row(branch[i + 1]).parent \in KeptIds
    <3> DEFINE m == Row(branch[i + 1]).parent
    <3>1. m \in KeptIds /\ m # Top /\ Row(m).parent = branch[i]
      BY <2>10 DEF RowsOK, Top
    <3> HIDE DEF m
    <3>2. m \in path /\ Kept[m] = branch[i]
      BY <1>2, <2>8, <3>1 DEF m
    <3> HIDE DEF path
    <3> QED
      BY <2>2, <2>6, <2>7, <3>2
  <2> QED
    BY <2>7, <2>9, <2>10, FollowsUp
<1>6. \A m \in path : \E i \in 1 .. n : Row(m).run = Row(branch[i]).run
  <2> SUFFICES ASSUME NEW m \in C PROVE \E i \in 1 .. n : Row(m).run = Row(branch[i]).run
    BY <1>4
  <2>1. CASE m \in ToSet(branch)
    BY <1>0, <2>1 DEF ToSet
  <2>2. ASSUME NEW i \in 1 .. n, m = Kept[branch[i]], m \notin ToSet(branch)
        PROVE  Row(m).run = Row(branch[i]).run
    <3> DEFINE q == Above(branch, i)
    <3>1. Follows(branch[i], q) /\ branch[i] \in KeptIds
      BY <1>1 DEF FollowsAll
    <3>2. q \in ToSet(branch) \cup {Top}
      BY <1>0 DEF Above, ToSet
    <3>3. m = Row(branch[i]).parent /\ m # Top /\ m # q
      BY <1>2, <2>2, <3>1, <3>2 DEF RowsOK, Top
    <3> HIDE DEF q
    <3> QED
      BY <3>1, <3>3, FollowsUp
  <2> QED
    BY <1>0, <2>1, <2>2 DEF ToSet
<1> HIDE DEF path
<1>7. ToSet(RunsShown(branch)) = {Row(branch[i]).run : i \in 1 .. n}
  BY <1>0 DEF ToSet, RunsShown
<1>8. RunsAbove(p) = {Row(m).run : m \in path}
  BY DEF RunsAbove, path
<1> QED
  BY <1>5, <1>6, <1>7, <1>8

(* What ListRuns finds is what the tab showed.                              *)
LEMMA ToldTheShown ==
  ASSUME RowsOK, RunsInv, BlocksInv, prompts \subseteq Ids, NEW p \in KeptIds,
         NEW branch \in Seq(Ids), FollowsAll(branch), branch # <<>>, branch[Len(branch)] = p
  PROVE  InOrder(RunsAbove(p), Older(RunsAbove(p))) = Distinct(RunsShown(branch))
<1> DEFINE seq == [i \in DOMAIN rows |-> rows[i].run]
           part == RunsShown(branch)
           at == [i \in 1 .. Len(branch) |-> At(branch[i])]
<1>1. RunsAbove(p) = ToSet(part)
  BY RunsAreShown
<1>2. DOMAIN rows = 1 .. Len(rows) /\ Len(rows) \in Nat
  BY DEF RowsOK
<1>3. DOMAIN branch = 1 .. Len(branch) /\ Len(branch) \in Nat
  OBVIOUS
<1>4. /\ \A i \in 1 .. Len(branch) : branch[i] \in KeptIds
      /\ \A i, j \in 1 .. Len(branch) : i < j => At(branch[i]) < At(branch[j])
  BY ShownKept
<1>5. at \in [1 .. Len(branch) -> 1 .. Len(rows)] /\ \A i \in 1 .. Len(branch) : part[i] = seq[at[i]]
  BY <1>2, <1>3, <1>4, RowAt DEF RunsShown
<1>6. DOMAIN seq = 1 .. Len(rows) /\ DOMAIN part = 1 .. Len(branch)
  BY <1>2, <1>3 DEF RunsShown
<1>7. \A i, k \in 1 .. Len(rows) : \A j \in i .. k : seq[i] = seq[k] => seq[j] = seq[i]
  BY <1>2 DEF BlocksInv
<1>8. \A i, j \in 1 .. Len(branch) : i < j => at[i] < at[j]
  BY <1>4
<1> HIDE DEF at, part
<1>9. FirstIn(seq, ToSet(part)) = FirstIn(part, ToSet(part))
  <2> HIDE DEF seq
  <2> QED
    BY <1>2, <1>3, <1>5, <1>6, <1>7, <1>8, FirstInPart
<1>10. Older(RunsAbove(p)) = FirstIn(part, ToSet(part))
  BY <1>1, <1>9 DEF Older
<1> QED
  BY <1>1, <1>10 DEF Distinct, part

-----------------------------------------------------------------------------
(* The state *)

Trees == UNION {[nodes -> Ids \cup {Top}] : nodes \in SUBSET Ids}
Pcs == {"idle", "asked", "parented", "streaming", "finished", "kept"}
Told == {"streaming", "finished", "kept"}
Active(h) == handler[h].pc # "idle"
Unkept(h) == Active(h) /\ handler[h].pc # "kept"

CallOK(c) ==
  /\ c = [pc |-> c.pc, tab |-> c.tab, user |-> c.user, answer |-> c.answer, parent |-> c.parent,
          told |-> c.told, shown |-> c.shown, own |-> c.own]
  /\ c.pc \in Pcs /\ c.tab \in Tabs \cup {Nobody}
  /\ c.user \in Ids \cup {Top} /\ c.answer \in Ids \cup {Top}
  /\ c.parent \in Ids \cup {Top} /\ c.own \in Ids \cup {Top}
  /\ c.shown \in Seq(Ids)

CallsOK == handler = [h \in Handlers |-> handler[h]] /\ \A h \in Handlers : CallOK(handler[h])

ThreadTypeOK ==
  /\ used \in 0 .. MaxMessages /\ prompts \subseteq 1 .. used
  /\ tree \in [Tabs -> Trees] /\ head \in [Tabs -> Ids \cup {Top}]
  /\ complete \in [Tabs -> SUBSET Ids]
  /\ CallsOK
  /\ rows \in Seq(Entry) /\ exists \in BOOLEAN

(* What a tab shows is a tree, and what it shows as complete is kept.       *)
TreesInv ==
  \A t \in Tabs :
    /\ Grounded(tree[t]) /\ DOMAIN tree[t] \subseteq 1 .. used
    /\ head[t] \in DOMAIN tree[t] \cup {Top}
    /\ complete[t] \subseteq DOMAIN tree[t]
    /\ exists => complete[t] \subseteq KeptIds

(* The ids that a call is to keep are given to no other message.            *)
IdsInv ==
  /\ \A h \in Handlers : Active(h) =>
       /\ handler[h].user \in prompts
       /\ handler[h].answer \in (1 .. used) \ prompts
       /\ handler[h].parent \in 0 .. used
       /\ handler[h].own \in (0 .. used) \ prompts
       /\ handler[h].own # handler[h].answer
  /\ \A h \in Handlers : Unkept(h) =>
       handler[h].answer \notin KeptIds /\ handler[h].own \notin KeptIds
  /\ \A g, h \in Handlers : g # h /\ Active(g) /\ Active(h) =>
       /\ handler[g].answer \notin {handler[h].answer, handler[h].own}
       /\ handler[g].own # Top => handler[g].own # handler[h].own

(* How far a call is, and what it has found by then.                        *)
StagesInv ==
  \A h \in Handlers :
    /\ handler[h].pc \in {"parented", "streaming", "finished"} /\ exists =>
         handler[h].parent \in KeptIds \cup {Top}
    /\ handler[h].pc = "kept" /\ exists => handler[h].answer \in KeptIds
    /\ handler[h].tab # Nobody =>
         Active(h) /\ handler[h].answer \in DOMAIN tree[handler[h].tab]

(* That q is above n, in what a tab shows or in what a call is about.        *)
InTree(t, n, q) == n \in DOMAIN tree[t] /\ tree[t][n] = q
InCall(c, n, q) ==
  /\ c.pc # "idle"
  /\ \/ n = c.user /\ q = c.parent
     \/ n = c.answer /\ q = c.user
     \/ \E i \in 1 .. Len(c.shown) : c.shown[i] = n /\ q = Above(c.shown, i)
Link(n, q) == (\E t \in Tabs : InTree(t, n, q)) \/ \E h \in Handlers : InCall(handler[h], n, q)

(* All of them agree with what is kept and with what is going to be, and     *)
(* with each other on what is above a user's message.                       *)
LinksInv ==
  \A n, q \in Ids \cup {Top} : Link(n, q) =>
    /\ n \in 1 .. used /\ q \in 0 .. used
    /\ n \in KeptIds => Follows(n, q)
    /\ \A h \in Handlers : Unkept(h) =>
         /\ n = handler[h].answer => q = handler[h].user
         /\ n # handler[h].own
    /\ n \in prompts => \A r \in Ids \cup {Top} : Link(n, r) => r = q

ShownInv == \A h \in Handlers : Active(h) => ShownOK(handler[h])

ThreadInv ==
  /\ ThreadTypeOK
  /\ RowsOK /\ RunsInv /\ BlocksInv
  /\ TreesInv /\ IdsInv /\ StagesInv /\ LinksInv /\ ShownInv
  /\ ToldIsShown

-----------------------------------------------------------------------------
(* The calls in a step *)

SameRun(c, d) ==
  /\ d.user = c.user /\ d.answer = c.answer /\ d.parent = c.parent
  /\ d.shown = c.shown /\ d.own = c.own
  /\ d.tab \in {c.tab, Nobody}

(* A call goes on, but for keeping its run, or ends.                        *)
Later(c, d) ==
  \/ d.pc = "idle" /\ d.tab = Nobody
  \/ /\ c.pc # "idle" /\ d.pc # "idle" /\ SameRun(c, d)
     /\ d.pc = "kept" <=> c.pc = "kept"

(* ... without its list of runs.                                            *)
Leaves(c, d) == d.pc \in Told => c.pc \in Told /\ d.told = c.told /\ d.shown = c.shown

(* A handler without a call.                                                *)
LEMMA IdleOK == CallOK(Idle) /\ Idle.pc = "idle" /\ Idle.tab = Nobody
  BY DEF CallOK, Idle, Pcs, Ids, Top

(* A tab that starts or stops something leaves its call alone.              *)
LEMMA AbandonedOK ==
  ASSUME ThreadTypeOK, StagesInv, NEW t \in Tabs
  PROVE  /\ DOMAIN Abandoned(t) = Handlers
         /\ Abandoned(t) = [h \in Handlers |-> Abandoned(t)[h]]
         /\ \A h \in Handlers :
              /\ CallOK(Abandoned(t)[h])
              /\ Later(handler[h], Abandoned(t)[h]) /\ Leaves(handler[h], Abandoned(t)[h])
              /\ Abandoned(t)[h].pc = handler[h].pc
              /\ SameRun(handler[h], Abandoned(t)[h])
              /\ Abandoned(t)[h].tab = IF handler[h].tab = t THEN Nobody ELSE handler[h].tab
<1>1. /\ DOMAIN Abandoned(t) = Handlers
      /\ Abandoned(t) = [h \in Handlers |-> Abandoned(t)[h]]
      /\ \A h \in Handlers : Abandoned(t)[h] =
           IF handler[h].tab = t THEN [handler[h] EXCEPT !.tab = Nobody] ELSE handler[h]
  BY DEF Abandoned
<1>2. ASSUME NEW h \in Handlers
      PROVE  /\ CallOK(Abandoned(t)[h])
             /\ Abandoned(t)[h].pc = handler[h].pc /\ Abandoned(t)[h].told = handler[h].told
             /\ SameRun(handler[h], Abandoned(t)[h])
             /\ Abandoned(t)[h].tab = IF handler[h].tab = t THEN Nobody ELSE handler[h].tab
  <2>1. CallOK(handler[h])
    BY DEF ThreadTypeOK, CallsOK
  <2>2. CASE handler[h].tab = t
    <3>1. Abandoned(t)[h] = [handler[h] EXCEPT !.tab = Nobody]
      BY <1>1, <2>2
    <3> QED
      BY <2>1, <2>2, <3>1 DEF CallOK, SameRun
  <2>3. CASE handler[h].tab # t
    <3>1. Abandoned(t)[h] = handler[h]
      BY <1>1, <2>3
    <3> QED
      BY <2>1, <2>3, <3>1 DEF SameRun
  <2> QED
    BY <2>2, <2>3
<1>3. ASSUME NEW h \in Handlers
      PROVE  Later(handler[h], Abandoned(t)[h]) /\ Leaves(handler[h], Abandoned(t)[h])
  <2>1. handler[h].pc = "idle" => handler[h].tab = Nobody
    BY DEF StagesInv, Active
  <2> QED
    BY <1>2, <2>1 DEF Later, Leaves, SameRun
<1> QED
  BY <1>1, <1>2, <1>3

(* What one call does, the others do not.                                   *)
LEMMA StepOK ==
  ASSUME ThreadTypeOK, StagesInv, NEW h \in Handlers, NEW d, CallOK(d),
         handler' = [handler EXCEPT ![h] = d]
  PROVE  /\ CallsOK'
         /\ handler[h]' = d
         /\ \A g \in Handlers \ {h} :
              /\ handler[g]' = handler[g]
              /\ Later(handler[g], handler[g]') /\ Leaves(handler[g], handler[g]')
<1>1. /\ handler' = [g \in Handlers |-> handler'[g]] /\ handler'[h] = d
      /\ \A g \in Handlers \ {h} : handler'[g] = handler[g]
  BY DEF ThreadTypeOK, CallsOK
<1>2. \A g \in Handlers \ {h} : Later(handler[g], handler[g]) /\ Leaves(handler[g], handler[g])
  BY DEF Later, Leaves, SameRun, StagesInv, Active
<1> QED
  BY <1>1, <1>2 DEF ThreadTypeOK, CallsOK

(* A call moves on.                                                         *)
LEMMA GotoOK ==
  ASSUME ThreadTypeOK, NEW h \in Handlers, NEW pc \in Pcs
  PROVE  /\ CallOK(Goto(h, pc)) /\ Goto(h, pc).pc = pc /\ Goto(h, pc).told = handler[h].told
         /\ Goto(h, pc).tab = handler[h].tab
         /\ SameRun(handler[h], Goto(h, pc))
<1>1. CallOK(handler[h])
  BY DEF ThreadTypeOK, CallsOK
<1> QED
  BY <1>1 DEF CallOK, Goto, SameRun

-----------------------------------------------------------------------------
(* What most steps keep *)

(* The rows stay, or go with the conversation.                              *)
RowsLeft == rows' = rows /\ KeptIds' = KeptIds /\ \A n : Row(n)' = Row(n)
RowsGone == rows' = <<>> /\ KeptIds' = {}

(* So do the ids and rows found in them.                                    *)
LEMMA RowsSame == rows' = rows => RowsLeft
  BY DEF RowsLeft, KeptIds, Row

(* Without rows there are no ids.                                           *)
LEMMA RowsDeleted == rows' = <<>> => RowsGone
  BY DEF RowsGone, KeptIds

(* ToldIsShown of one call.                                                 *)
ToldOK(h) ==
  exists /\ handler[h].pc \in Told =>
    /\ ToSet(handler[h].shown) \subseteq KeptIds
    /\ handler[h].told = Distinct(RunsShown(handler[h].shown))

(* It is of all of them.                                                    *)
LEMMA ToldMeans ==
  /\ ToldIsShown <=> \A h \in Handlers : ToldOK(h)
  /\ ToldIsShown' <=> \A h \in Handlers : ToldOK(h)'
  BY DEF ToldIsShown, ToldOK, Told, RunsShown

(* What an agent has been told stays what was shown.                        *)
LEMMA ToldKept ==
  ASSUME ToldIsShown, \A h \in Handlers : Leaves(handler[h], handler[h]'),
         exists' => exists /\ RowsLeft
  PROVE  ToldIsShown'
  BY DEF ToldIsShown, Leaves, Told, RowsLeft

(* Each call goes on, keeping nothing, or ends.                             *)
QuietCalls == \A h \in Handlers : Later(handler[h], handler[h]')

(* Then the ids that calls are to keep stay their own,                      *)
LEMMA IdsQuiet ==
  ASSUME IdsInv, QuietCalls, prompts' = prompts, used' = used, KeptIds' \subseteq KeptIds
  PROVE  IdsInv'
<1>1. \A h \in Handlers : Active(h)' =>
        Active(h) /\ SameRun(handler[h], handler[h]') /\ (Unkept(h)' => Unkept(h))
  BY DEF QuietCalls, Later, Active, Unkept
<1>2. ASSUME NEW h \in Handlers, Active(h)'
      PROVE  /\ handler'[h].user \in prompts
             /\ handler'[h].answer \in (1 .. used) \ prompts
             /\ handler'[h].parent \in 0 .. used
             /\ handler'[h].own \in (0 .. used) \ prompts
             /\ handler'[h].own # handler'[h].answer
  BY <1>1, <1>2 DEF IdsInv, SameRun
<1>3. ASSUME NEW h \in Handlers, Unkept(h)'
      PROVE  handler'[h].answer \notin KeptIds' /\ handler'[h].own \notin KeptIds'
  <2>1. Unkept(h) /\ SameRun(handler[h], handler[h]')
    BY <1>1, <1>3 DEF Unkept
  <2> QED
    BY <2>1 DEF IdsInv, SameRun
<1>4. ASSUME NEW g \in Handlers, NEW h \in Handlers, g # h, Active(g)', Active(h)'
      PROVE  /\ handler'[g].answer \notin {handler'[h].answer, handler'[h].own}
             /\ handler'[g].own # Top => handler'[g].own # handler'[h].own
  BY <1>1, <1>4 DEF IdsInv, SameRun
<1> QED
  BY <1>2, <1>3, <1>4 DEF IdsInv

(* what they were sent from stays,                                          *)
LEMMA ShownQuiet ==
  ASSUME ShownInv, QuietCalls
  PROVE  ShownInv'
<1>1. \A h \in Handlers : Active(h)' => Active(h) /\ SameRun(handler[h], handler[h]')
  BY DEF QuietCalls, Later, Active
<1> QED
  BY <1>1 DEF ShownInv, ShownOK, SameRun

(* and no tab learns of a link but from the tabs, the calls and the rows.   *)
LEMMA LinksQuiet ==
  ASSUME ThreadInv, QuietCalls, prompts' = prompts, used' = used,
         \A t \in Tabs : \A n, q \in Ids \cup {Top} :
           InTree(t, n, q)' => Link(n, q) \/ (n \in KeptIds /\ q = Row(n).parent),
         RowsLeft \/ RowsGone
  PROVE  LinksInv'
<1> DEFINE Known(n, q) == Link(n, q) \/ (n \in KeptIds /\ q = Row(n).parent)
<1>1. \A h \in Handlers : Active(h)' =>
        Active(h) /\ SameRun(handler[h], handler[h]') /\ (Unkept(h)' => Unkept(h))
  BY DEF QuietCalls, Later, Active, Unkept
<1>2. ASSUME NEW n \in Ids \cup {Top}, NEW q \in Ids \cup {Top}, Link(n, q)'
      PROVE  Known(n, q)
  <2>1. CASE \E t \in Tabs : InTree(t, n, q)'
    BY <2>1
  <2>2. ASSUME NEW h \in Handlers, InCall(handler[h], n, q)' PROVE InCall(handler[h], n, q)
    BY <1>1, <2>2 DEF InCall, SameRun, Active
  <2> QED
    BY <1>2, <2>1, <2>2 DEF Link
<1>3. ASSUME NEW n \in Ids \cup {Top}, NEW q \in Ids \cup {Top}, Known(n, q)
      PROVE  /\ n \in 1 .. used /\ q \in 0 .. used
             /\ n \in KeptIds => Follows(n, q)
             /\ \A h \in Handlers : Unkept(h) =>
                  /\ n = handler[h].answer => q = handler[h].user
                  /\ n # handler[h].own
             /\ n \in prompts => \A r \in Ids \cup {Top} : Known(n, r) => r = q
  <2>1. n \in KeptIds => n \in 1 .. used /\ Row(n).parent \in 0 .. used
    <3>1. used \in Nat /\ KeptIds \subseteq 1 .. used
      BY DEF ThreadInv, RowsOK, ThreadTypeOK
    <3>2. n \in KeptIds => Row(n).parent \in KeptIds \/ Row(n).parent = 0
      BY RowAt DEF ThreadInv, Top
    <3>3. \A m \in 1 .. used : m \in 0 .. used
      BY <3>1
    <3>4. 0 \in 0 .. used
      BY <3>1
    <3> QED
      BY <3>1, <3>2, <3>3, <3>4
  <2>2. n \in KeptIds => \A h \in Handlers : Unkept(h) =>
           n # handler[h].answer /\ n # handler[h].own
    BY DEF ThreadInv, IdsInv
  <2>3. n \in KeptIds \cap prompts => \A r \in Ids \cup {Top} : Known(n, r) => r = Row(n).parent
    BY DEF ThreadInv, LinksInv, Follows
  <2>4. n \in prompts \ KeptIds => \A r \in Ids \cup {Top} : Known(n, r) => r = q
    BY <1>3 DEF ThreadInv, LinksInv
  <2>5. Link(n, q) =>
           /\ n \in 1 .. used /\ q \in 0 .. used
           /\ n \in KeptIds => Follows(n, q)
           /\ \A h \in Handlers : Unkept(h) =>
                /\ n = handler[h].answer => q = handler[h].user
                /\ n # handler[h].own
    BY DEF ThreadInv, LinksInv
  <2> QED
    BY <1>3, <2>1, <2>2, <2>3, <2>4, <2>5 DEF Follows
<1> HIDE DEF Known
<1>4. \A n, q : n \in KeptIds' /\ Follows(n, q) => Follows(n, q)' /\ n \in KeptIds
  BY DEF RowsLeft, RowsGone, Follows
<1>5. KeptIds' \subseteq KeptIds
  BY DEF RowsLeft, RowsGone
<1>6. ASSUME NEW n \in Ids \cup {Top}, NEW q \in Ids \cup {Top}, Link(n, q)'
      PROVE  /\ n \in 1 .. used' /\ q \in 0 .. used'
             /\ n \in KeptIds' => Follows(n, q)'
             /\ n \in prompts' => \A r \in Ids \cup {Top} : Link(n, r)' => r = q
  <2>1. Known(n, q)
    BY <1>2, <1>6
  <2> QED
    BY <1>2, <1>3, <1>4, <1>5, <2>1
<1>7. ASSUME NEW n \in Ids \cup {Top}, NEW q \in Ids \cup {Top}, Link(n, q)',
             NEW h \in Handlers, Unkept(h)'
      PROVE  /\ n = handler'[h].answer => q = handler'[h].user
             /\ n # handler'[h].own
  <2>1. Known(n, q)
    BY <1>2, <1>7
  <2>2. Unkept(h) /\ SameRun(handler[h], handler[h]')
    BY <1>1, <1>7 DEF Unkept
  <2> QED
    BY <1>3, <2>1, <2>2 DEF SameRun
<1> QED
  BY <1>6, <1>7 DEF LinksInv

-----------------------------------------------------------------------------
(* The steps that leave trees and rows alone *)

Others == RowsOK /\ RunsInv /\ BlocksInv

(* The rows that stay are still in order.                                   *)
LEMMA OthersKept ==
  ASSUME ThreadInv, RowsLeft, prompts' \subseteq prompts \cup (used + 1 .. used'), used' >= used,
         prompts \subseteq prompts', used' \in 0 .. MaxMessages
  PROVE  Others'
<1>1. RowsOK'
  <2>1. RowsAreATree'
    BY DEF ThreadInv, RowsOK, RowsAreATree, RowsLeft
  <2>2. KeptIds' \subseteq 1 .. used'
    BY DEF ThreadInv, RowsOK, RowsLeft, ThreadTypeOK
  <2> QED
    BY <2>1, <2>2 DEF ThreadInv, RowsOK, RowsLeft
<1>2. KeptIds \ prompts' = KeptIds \ prompts
  <2>1. KeptIds \subseteq 1 .. used /\ used \in Nat
    BY DEF ThreadInv, RowsOK, ThreadTypeOK
  <2>2. \A n \in KeptIds : n \notin used + 1 .. used'
    BY <2>1
  <2> QED
    BY <2>2
<1>3. RunsInv'
  <2>1. RunsInv' <=> /\ \A n \in KeptIds : Row(n).run \in KeptIds
                     /\ \A n \in KeptIds \ prompts' :
                          Row(n).parent \in KeptIds /\ Row(Row(n).parent).run = Row(n).run
    BY DEF RunsInv, RowsLeft
  <2> QED
    BY <1>2, <2>1 DEF ThreadInv, RunsInv
<1>4. BlocksInv'
  BY DEF ThreadInv, BlocksInv, RowsLeft
<1> QED
  BY <1>1, <1>3, <1>4 DEF Others
(* Steps of calls that keep nothing and of a tab that adds nothing.         *)
Quiet ==
  /\ QuietCalls /\ CallsOK'
  /\ UNCHANGED <<tree, prompts, used, rows, exists>>

(* Such steps change no link.                                               *)
LEMMA QuietThread ==
  ASSUME ThreadInv, Quiet
  PROVE  Others' /\ IdsInv' /\ LinksInv' /\ ShownInv' /\ RowsLeft
<1>1. RowsLeft
  BY RowsSame DEF Quiet
<1>2. Others'
  BY <1>1, OthersKept DEF Quiet, ThreadInv, ThreadTypeOK
<1>3. IdsInv' /\ ShownInv'
  BY <1>1, IdsQuiet, ShownQuiet DEF Quiet, ThreadInv, RowsLeft
<1>4. \A t \in Tabs : \A n, q \in Ids \cup {Top} : InTree(t, n, q)' => Link(n, q)
  BY DEF Quiet, InTree, Link
<1>5. LinksInv'
  BY <1>1, <1>4, LinksQuiet DEF Quiet
<1> QED
  BY <1>1, <1>2, <1>3, <1>5

(* The tab stops listening to its run.                                      *)
LEMMA StopKeeps ==
  ASSUME ThreadInv, NEW t \in Tabs, StopGenerating(t)
  PROVE  ThreadInv'
<1>1. handler' = Abandoned(t)
  BY DEF StopGenerating
<1>2. /\ CallsOK' /\ QuietCalls /\ \A h \in Handlers : Leaves(handler[h], handler[h]')
      /\ \A h \in Handlers : handler[h]'.pc = handler[h].pc /\ SameRun(handler[h], handler[h]')
  BY <1>1, AbandonedOK DEF ThreadInv, CallsOK, QuietCalls
<1>3. Quiet
  BY <1>2 DEF Quiet, StopGenerating, browser
<1>4. Others' /\ IdsInv' /\ LinksInv' /\ ShownInv' /\ RowsLeft
  BY <1>3, QuietThread
<1>5. ThreadTypeOK'
  BY <1>2 DEF ThreadInv, ThreadTypeOK, StopGenerating, browser
<1>6. TreesInv'
  BY <1>4 DEF ThreadInv, TreesInv, StopGenerating, browser, RowsLeft
<1>7. StagesInv'
  BY <1>2, <1>4 DEF ThreadInv, StagesInv, StopGenerating, browser, RowsLeft, SameRun, Active
<1>8. ToldIsShown'
  BY <1>2, <1>4, ToldKept DEF ThreadInv, StopGenerating
<1> QED
  BY <1>4, <1>5, <1>6, <1>7, <1>8 DEF ThreadInv, Others

(* The tab shows another branch.                                            *)
LEMMA PickKeeps ==
  ASSUME ThreadInv, NEW t \in Tabs, NEW m \in Ids, PickBranch(t, m)
  PROVE  ThreadInv'
<1>1. handler' = handler /\ CallsOK'
  BY DEF PickBranch, ThreadInv, ThreadTypeOK, CallsOK
<1>2. \A h \in Handlers : Later(handler[h], handler[h]') /\ Leaves(handler[h], handler[h]')
  BY <1>1 DEF Later, Leaves, SameRun, ThreadInv, StagesInv, Active
<1>3. Quiet
  BY <1>1, <1>2 DEF Quiet, PickBranch, QuietCalls
<1>4. Others' /\ IdsInv' /\ LinksInv' /\ ShownInv' /\ RowsLeft
  BY <1>3, QuietThread
<1>5. ThreadTypeOK'
  BY <1>1 DEF ThreadInv, ThreadTypeOK, PickBranch
<1>6. TreesInv'
  <2>1. \A s \in Tabs : head[s]' \in {head[s], m} /\ (head[s]' = m => m = head[s] \/ s = t)
    BY DEF PickBranch, ThreadInv, ThreadTypeOK
  <2> QED
    BY <1>4, <2>1 DEF ThreadInv, TreesInv, PickBranch, RowsLeft
<1>7. StagesInv'
  BY <1>1, <1>4 DEF ThreadInv, StagesInv, PickBranch, RowsLeft, Active
<1>8. ToldIsShown'
  BY <1>2, <1>4, ToldKept DEF ThreadInv, PickBranch
<1> QED
  BY <1>4, <1>5, <1>6, <1>7, <1>8 DEF ThreadInv, Others

(* The parent that a call finds is kept.                                    *)
LEMMA FindParentKeeps ==
  ASSUME ThreadInv, NEW h \in Handlers, FindParent(h)
  PROVE  ThreadInv'
<1> DEFINE d == Goto(h, "parented")
<1>1. /\ CallOK(d) /\ d.pc = "parented" /\ d.tab = handler[h].tab /\ SameRun(handler[h], d)
      /\ handler[h].pc = "asked" /\ handler' = [handler EXCEPT ![h] = d]
  BY GotoOK DEF ThreadInv, FindParent, Step, Pcs
<1> HIDE DEF d
<1>2. /\ CallsOK' /\ handler[h]' = d
      /\ \A g \in Handlers \ {h} :
           /\ handler[g]' = handler[g]
           /\ Later(handler[g], handler[g]') /\ Leaves(handler[g], handler[g]')
  BY <1>1, StepOK DEF ThreadInv
<1>3. Later(handler[h], handler[h]') /\ Leaves(handler[h], handler[h]')
  BY <1>1, <1>2 DEF Later, Leaves, Told
<1>4. Quiet
  BY <1>2, <1>3 DEF Quiet, FindParent, QuietCalls, browser
<1>5. Others' /\ IdsInv' /\ LinksInv' /\ ShownInv' /\ RowsLeft
  BY <1>4, QuietThread
<1>6. ThreadTypeOK'
  BY <1>2 DEF ThreadInv, ThreadTypeOK, FindParent, browser
<1>7. TreesInv'
  BY <1>5 DEF ThreadInv, TreesInv, FindParent, browser, RowsLeft
<1>8. StagesInv'
  <2>1. handler[h].parent \in KeptIds \cup {Top}
    BY DEF FindParent
  <2> QED
    BY <1>1, <1>2, <1>5, <2>1
    DEF ThreadInv, StagesInv, FindParent, browser, RowsLeft, SameRun, Active
<1>9. ToldIsShown'
  BY <1>2, <1>3, <1>5, ToldKept DEF ThreadInv, FindParent
<1> QED
  BY <1>5, <1>6, <1>7, <1>8, <1>9 DEF ThreadInv, Others

(* A call ends, and its tab shows nothing more as complete.                 *)
LEMMA FailKeeps ==
  ASSUME ThreadInv, NEW h \in Handlers, Fail(h)
  PROVE  ThreadInv'
<1>1. handler' = [handler EXCEPT ![h] = Idle]
  BY DEF Fail, End
<1>2. /\ CallsOK' /\ handler[h]' = Idle
      /\ \A g \in Handlers \ {h} :
           /\ handler[g]' = handler[g]
           /\ Later(handler[g], handler[g]') /\ Leaves(handler[g], handler[g]')
  BY <1>1, IdleOK, StepOK DEF ThreadInv
<1>3. Later(handler[h], handler[h]') /\ Leaves(handler[h], handler[h]')
  BY <1>2, IdleOK DEF Later, Leaves, Told
<1>4. Quiet
  BY <1>2, <1>3 DEF Quiet, Fail, QuietCalls, browser
<1>5. Others' /\ IdsInv' /\ LinksInv' /\ ShownInv' /\ RowsLeft
  BY <1>4, QuietThread
<1>6. ThreadTypeOK'
  BY <1>2 DEF ThreadInv, ThreadTypeOK, Fail, browser
<1>7. TreesInv'
  BY <1>5 DEF ThreadInv, TreesInv, Fail, browser, RowsLeft
<1>8. StagesInv'
  BY <1>2, <1>5, IdleOK DEF ThreadInv, StagesInv, Fail, browser, RowsLeft, Active
<1>9. ToldIsShown'
  BY <1>2, <1>3, <1>5, ToldKept DEF ThreadInv, Fail
<1> QED
  BY <1>5, <1>6, <1>7, <1>8, <1>9 DEF ThreadInv, Others

(* The tab is told of a run that is kept.                                   *)
LEMMA SendFinishedKeeps ==
  ASSUME ThreadInv, NEW h \in Handlers, SendFinished(h)
  PROVE  ThreadInv'
<1>1. handler' = [handler EXCEPT ![h] = Idle] /\ handler[h].pc = "kept"
  BY DEF SendFinished, End
<1>2. /\ CallsOK' /\ handler[h]' = Idle
      /\ \A g \in Handlers \ {h} :
           /\ handler[g]' = handler[g]
           /\ Later(handler[g], handler[g]') /\ Leaves(handler[g], handler[g]')
  BY <1>1, IdleOK, StepOK DEF ThreadInv
<1>3. Later(handler[h], handler[h]') /\ Leaves(handler[h], handler[h]')
  BY <1>2, IdleOK DEF Later, Leaves, Told
<1>4. Quiet
  BY <1>2, <1>3 DEF Quiet, SendFinished, QuietCalls
<1>5. Others' /\ IdsInv' /\ LinksInv' /\ ShownInv' /\ RowsLeft
  BY <1>4, QuietThread
<1>a. /\ complete' = [s \in Tabs |-> complete'[s]]
      /\ \A s \in Tabs : complete'[s] \subseteq complete[s] \cup {handler[h].answer}
      /\ \A s \in Tabs : s # handler[h].tab => complete'[s] = complete[s]
  BY DEF SendFinished, ThreadInv, ThreadTypeOK
<1>b. handler[h].answer \in Ids /\ (exists => handler[h].answer \in KeptIds)
  BY <1>1 DEF ThreadInv, IdsInv, StagesInv, Active, ThreadTypeOK, Ids
<1>c. handler[h].tab \in Tabs => handler[h].answer \in DOMAIN tree[handler[h].tab]
  BY DEF ThreadInv, StagesInv, NobodyAssumption
<1>6. ThreadTypeOK'
  BY <1>2, <1>a, <1>b DEF ThreadInv, ThreadTypeOK, SendFinished
<1>7. TreesInv'
  <2>1. \A s \in Tabs : complete'[s] \subseteq DOMAIN tree[s]
    BY <1>a, <1>c DEF ThreadInv, TreesInv
  <2>2. exists => \A s \in Tabs : complete'[s] \subseteq KeptIds
    BY <1>a, <1>b DEF ThreadInv, TreesInv
  <2> QED
    BY <1>5, <2>1, <2>2 DEF ThreadInv, TreesInv, SendFinished, RowsLeft
<1>8. StagesInv'
  BY <1>2, <1>5, IdleOK DEF ThreadInv, StagesInv, SendFinished, RowsLeft, Active
<1>9. ToldIsShown'
  BY <1>2, <1>3, <1>5, ToldKept DEF ThreadInv, SendFinished
<1> QED
  BY <1>5, <1>6, <1>7, <1>8, <1>9 DEF ThreadInv, Others

(* The call that lists its runs is told those of what was shown to it.      *)
LEMMA ListRunsKeeps ==
  ASSUME ThreadInv, NEW h \in Handlers, ListRuns(h)
  PROVE  ThreadInv'
<1> DEFINE c == handler[h]
           p == c.parent
           told == InOrder(RunsAbove(p), Older(RunsAbove(p)))
           d == [Goto(h, "streaming") EXCEPT !.told = told]
<1>1. /\ handler' = [handler EXCEPT ![h] = d] /\ c.pc = "parented"
      /\ p = Top \/ p \in KeptIds
  BY DEF ListRuns, Step, RunsAbove
<1>2. /\ CallOK(d) /\ d.pc = "streaming" /\ d.tab = c.tab /\ SameRun(c, d) /\ d.told = told
  BY GotoOK DEF ThreadInv, Pcs, CallOK, SameRun
<1> HIDE DEF d
<1>3. /\ CallsOK' /\ handler[h]' = d
      /\ \A g \in Handlers \ {h} :
           /\ handler[g]' = handler[g]
           /\ Later(handler[g], handler[g]') /\ Leaves(handler[g], handler[g]')
  BY <1>1, <1>2, StepOK DEF ThreadInv
<1>4. Later(handler[h], handler[h]')
  BY <1>1, <1>2, <1>3 DEF Later
<1>5. Quiet
  BY <1>3, <1>4 DEF Quiet, ListRuns, QuietCalls, browser
<1>6. Others' /\ IdsInv' /\ LinksInv' /\ ShownInv' /\ RowsLeft
  BY <1>5, QuietThread
<1>7. ThreadTypeOK'
  BY <1>3 DEF ThreadInv, ThreadTypeOK, ListRuns, browser
<1>8. TreesInv'
  BY <1>6 DEF ThreadInv, TreesInv, ListRuns, browser, RowsLeft
<1>9. StagesInv'
  BY <1>1, <1>2, <1>3, <1>6
  DEF ThreadInv, StagesInv, ListRuns, browser, RowsLeft, SameRun, Active
<1>10. /\ \A i \in 1 .. Len(c.shown) : c.shown[i] \in KeptIds
       /\ told = Distinct(RunsShown(c.shown))
  <2>1. c.shown \in Seq(Ids) /\ ShownOK(c) /\ prompts \subseteq Ids
    BY <1>1 DEF ThreadInv, ThreadTypeOK, CallsOK, CallOK, ShownInv, Active, Ids
  <2>2. FollowsAll(c.shown)
    <3> SUFFICES ASSUME NEW i \in 1 .. Len(c.shown), c.shown[i] \in KeptIds
                 PROVE  Follows(c.shown[i], Above(c.shown, i))
      BY DEF FollowsAll
    <3>1. InCall(c, c.shown[i], Above(c.shown, i))
      BY <1>1 DEF InCall
    <3>2. c.shown[i] \in Ids /\ Above(c.shown, i) \in Ids \cup {Top}
      BY <2>1 DEF Above
    <3> QED
      BY <3>1, <3>2 DEF ThreadInv, LinksInv, Link
  <2>3. CASE p = Top
    <3>1. c.shown = <<>> /\ RunsShown(<<>>) = <<>>
      BY <2>1, <2>3 DEF ShownOK, RunsShown
    <3>2. RunsAbove(p) = {} /\ ToSet(<<>>) = {}
      BY <2>3, KeptGrounded, PathOf DEF ThreadInv, RunsAbove, ToSet
    <3>3. Older({}) = {} /\ FirstIn(<<>>, {}) = {}
      BY DEF Older, FirstIn
    <3>4. \A i \in 1 .. Len(c.shown) : c.shown[i] \in KeptIds
      BY <3>1
    <3>5. told = InOrder({}, {})
      BY <3>2, <3>3
    <3>6. Distinct(<<>>) = InOrder({}, {})
      BY <3>2, <3>3 DEF Distinct
    <3> QED
      BY <3>1, <3>4, <3>5, <3>6
  <2>4. CASE p \in KeptIds
    <3>1. p # Top
      BY <2>4 DEF ThreadInv, RowsOK, Top
    <3>2. c.shown # <<>> /\ c.shown[Len(c.shown)] = p
      BY <2>1, <3>1 DEF ShownOK
    <3> QED
      BY <2>1, <2>2, <2>4, <3>2, ShownKept, ToldTheShown DEF ThreadInv
  <2> QED
    BY <1>1, <2>3, <2>4
<1>11. ToldIsShown'
  <2>1. ToldOK(h)'
    <3>a. DOMAIN c.shown = 1 .. Len(c.shown)
      BY DEF ThreadInv, ThreadTypeOK, CallsOK, CallOK
    <3>1. ToSet(c.shown) \subseteq KeptIds
      BY <1>10, <3>a DEF ToSet
    <3>2. handler[h]'.shown = c.shown /\ handler[h]'.told = Distinct(RunsShown(c.shown))
      BY <1>2, <1>3, <1>10 DEF SameRun
    <3>3. RunsShown(handler[h].shown)' = RunsShown(c.shown)
      BY <1>6, <3>2 DEF RowsLeft, RunsShown
    <3> QED
      BY <1>6, <3>1, <3>2, <3>3 DEF ToldOK, RowsLeft
  <2>2. ASSUME NEW g \in Handlers \ {h}
        PROVE  ToldOK(g)'
    <3>1. handler[g]' = handler[g] /\ exists' = exists
      BY <1>3 DEF ListRuns
    <3>2. ToldOK(g)
      BY ToldMeans DEF ThreadInv
    <3>3. RunsShown(handler[g].shown)' = RunsShown(handler[g].shown)
      BY <1>6, <3>1 DEF RowsLeft, RunsShown
    <3> QED
      BY <1>6, <3>1, <3>2, <3>3 DEF ToldOK, RowsLeft
  <2> QED
    BY <2>1, <2>2, ToldMeans
<1> QED
  BY <1>6, <1>7, <1>8, <1>9, <1>11 DEF ThreadInv, Others

-----------------------------------------------------------------------------
(* The steps that give out ids *)

Fresh == used + 1 .. used'

(* A step that gives out ids and keeps nothing.                             *)
Growing ==
  /\ used' \in 0 .. MaxMessages /\ used' >= used
  /\ prompts \subseteq prompts' /\ prompts' \subseteq prompts \cup Fresh
  /\ RowsLeft /\ rows' = rows

(* No fresh id is known.                                                    *)
LEMMA FreshIds ==
  ASSUME ThreadInv, Growing
  PROVE  /\ used \in Nat /\ used' \in Nat
         /\ Fresh \cap (0 .. used) = {} /\ 0 .. used' = (0 .. used) \cup Fresh
         /\ 1 .. used' = (1 .. used) \cup Fresh
         /\ KeptIds \subseteq 1 .. used /\ prompts \subseteq 1 .. used
         /\ Top \notin Fresh
  BY DEF ThreadInv, ThreadTypeOK, RowsOK, Growing, Fresh, Top

(* The links that come with them are those of the fresh ids.                *)
LEMMA LinksFresh ==
  ASSUME ThreadInv, Growing, NEW fresh \in SUBSET (Fresh \X (0 .. used')),
         \A n, q, r : <<n, q>> \in fresh /\ <<n, r>> \in fresh => q = r,
         \A n, q \in Ids \cup {Top} : Link(n, q)' => Link(n, q) \/ <<n, q>> \in fresh,
         \A g \in Handlers : Unkept(g)' =>
           /\ \/ /\ Unkept(g)
                 /\ handler'[g].answer = handler[g].answer /\ handler'[g].user = handler[g].user
              \/ handler'[g].answer \in Fresh
           /\ \A q : <<handler'[g].answer, q>> \in fresh => q = handler'[g].user
           /\ \/ Unkept(g) /\ handler'[g].own = handler[g].own
              \/ handler'[g].own \in Fresh \cup {Top}
           /\ \A q : <<handler'[g].own, q>> \notin fresh
  PROVE  LinksInv'
<1>1. /\ used \in Nat /\ used' \in Nat
      /\ Fresh \cap (0 .. used) = {} /\ 0 .. used' = (0 .. used) \cup Fresh
      /\ 1 .. used' = (1 .. used) \cup Fresh
      /\ KeptIds \subseteq 1 .. used /\ prompts \subseteq 1 .. used
      /\ Top \notin Fresh
  BY FreshIds
<1>2. \A m \in 0 .. used : m \notin Fresh
  BY <1>1
<1>a. 1 .. used \subseteq 0 .. used /\ Top \notin 1 .. used
  BY <1>1 DEF Top
<1>3. ASSUME NEW n \in Ids \cup {Top}, NEW q \in Ids \cup {Top}, Link(n, q)
      PROVE  /\ n \in 1 .. used /\ q \in 0 .. used
             /\ n \in KeptIds => Follows(n, q)
             /\ \A h \in Handlers : Unkept(h) =>
                  /\ n = handler[h].answer => q = handler[h].user
                  /\ n # handler[h].own
             /\ n \in prompts => \A r \in Ids \cup {Top} : Link(n, r) => r = q
  BY <1>3 DEF ThreadInv, LinksInv
<1>4. ASSUME NEW n \in KeptIds, NEW q \in 0 .. used, Follows(n, q)
      PROVE  Follows(n, q)'
  <2>1. /\ n \in prompts' <=> n \in prompts
        /\ \A m \in KeptIds : m \in prompts' <=> m \in prompts
        /\ q \in prompts => q \in prompts'
    BY <1>1, <1>2, <1>a DEF Growing
  <2> QED
    BY <1>4, <2>1 DEF Follows, Growing, RowsLeft
<1>5. ASSUME NEW n \in Ids \cup {Top}, NEW q \in Ids \cup {Top}, Link(n, q)'
      PROVE  /\ n \in 1 .. used' /\ q \in 0 .. used'
             /\ n \in KeptIds' => Follows(n, q)'
             /\ n \in prompts' => \A r \in Ids \cup {Top} : Link(n, r)' => r = q
  <2>1. Link(n, q) \/ <<n, q>> \in fresh
    BY <1>5
  <2>2. \A r \in Ids \cup {Top} : Link(n, r)' => Link(n, r) \/ <<n, r>> \in fresh
    OBVIOUS
  <2>3. CASE Link(n, q)
    <3>1. n \in 1 .. used /\ q \in 0 .. used /\ (n \in KeptIds => Follows(n, q))
          /\ (n \in prompts => \A r \in Ids \cup {Top} : Link(n, r) => r = q)
      BY <1>3, <2>3
    <3>2. n \notin Fresh /\ (n \in prompts' => n \in prompts) /\ \A r : <<n, r>> \notin fresh
      BY <1>2, <1>a, <3>1 DEF Growing
    <3>3. n \in KeptIds' => Follows(n, q)'
      BY <1>4, <3>1 DEF Growing, RowsLeft
    <3> QED
      BY <1>1, <2>2, <3>1, <3>2, <3>3
  <2>4. CASE <<n, q>> \in fresh
    <3>1. n \in Fresh /\ q \in 0 .. used'
      BY <2>4
    <3>2. \A r \in Ids \cup {Top} : ~Link(n, r)
      BY <1>2, <1>3, <1>a, <3>1
    <3>3. n \notin KeptIds'
      BY <1>1, <1>2, <1>a, <3>1 DEF Growing, RowsLeft
    <3> QED
      BY <1>1, <2>2, <2>4, <3>1, <3>2, <3>3
  <2> QED
    BY <2>1, <2>3, <2>4
<1>6. ASSUME NEW n \in Ids \cup {Top}, NEW q \in Ids \cup {Top}, Link(n, q)',
             NEW h \in Handlers, Unkept(h)'
      PROVE  /\ n = handler'[h].answer => q = handler'[h].user
             /\ n # handler'[h].own
  <2>1. Link(n, q) \/ <<n, q>> \in fresh
    BY <1>6
  <2>2. CASE Link(n, q)
    <3>1. n \in 1 .. used /\ n \notin Fresh /\ n # Top
      BY <1>2, <1>3, <1>a, <2>2
    <3>2. Unkept(h) => /\ n = handler[h].answer => q = handler[h].user
                       /\ n # handler[h].own
      BY <1>3, <2>2
    <3> QED
      BY <1>6, <3>1, <3>2
  <2>3. CASE <<n, q>> \in fresh
    BY <1>6, <2>3
  <2> QED
    BY <2>1, <2>2, <2>3
<1> QED
  BY <1>5, <1>6 DEF LinksInv

(* Of the calls only one has fresh ids.                                     *)
LEMMA IdsFresh ==
  ASSUME ThreadInv, Growing, NEW h \in Handlers, NEW d, handler'[h] = d,
         \A g \in Handlers \ {h} : Later(handler[g], handler[g]'),
         d.pc # "idle" =>
           /\ d.user \in prompts' /\ d.answer \in (1 .. used') \ prompts'
           /\ d.parent \in 0 .. used' /\ d.own \in (0 .. used') \ prompts'
           /\ d.own # d.answer
           /\ d.answer \in Fresh \/ (Active(h) /\ d.answer = handler[h].answer)
           /\ d.own \in Fresh \cup {Top}
           /\ d.pc # "kept" => d.answer \in Fresh \/ Unkept(h)
  PROVE  IdsInv'
<1>1. /\ used \in Nat /\ used' \in Nat
      /\ Fresh \cap (0 .. used) = {} /\ 0 .. used' = (0 .. used) \cup Fresh
      /\ 1 .. used' = (1 .. used) \cup Fresh
      /\ KeptIds \subseteq 1 .. used /\ prompts \subseteq 1 .. used
      /\ Top \notin Fresh
  BY FreshIds
<1>2. KeptIds' = KeptIds /\ Top \notin KeptIds /\ 1 .. used \subseteq 0 .. used
      /\ Top \notin 1 .. used /\ prompts' \subseteq prompts \cup Fresh /\ prompts \subseteq prompts'
  BY <1>1 DEF Growing, RowsLeft, Top
<1>3. ASSUME NEW g \in Handlers \ {h}, Active(g)'
      PROVE  Active(g) /\ SameRun(handler[g], handler'[g]) /\ (Unkept(g)' => Unkept(g))
  BY <1>3 DEF Later, Active, Unkept
<1>4. \A g \in Handlers : Active(g) =>
        /\ handler[g].user \in prompts
        /\ handler[g].answer \in (1 .. used) \ prompts
        /\ handler[g].parent \in 0 .. used
        /\ handler[g].own \in (0 .. used) \ prompts
        /\ handler[g].own # handler[g].answer
  BY DEF ThreadInv, IdsInv
<1>5. ASSUME NEW g \in Handlers, Active(g)'
      PROVE  /\ handler'[g].user \in prompts'
             /\ handler'[g].answer \in (1 .. used') \ prompts'
             /\ handler'[g].parent \in 0 .. used'
             /\ handler'[g].own \in (0 .. used') \ prompts'
             /\ handler'[g].own # handler'[g].answer
  <2>1. CASE g = h
    BY <1>5, <2>1 DEF Active
  <2>2. CASE g # h
    <3>1. Active(g) /\ SameRun(handler[g], handler'[g])
      BY <1>3, <1>5, <2>2
    <3>2. handler[g].answer \notin Fresh /\ handler[g].own \notin Fresh
      BY <1>1, <1>2, <1>4, <3>1
    <3> QED
      BY <1>1, <1>2, <1>4, <3>1, <3>2 DEF SameRun
  <2> QED
    BY <2>1, <2>2
<1>6. ASSUME NEW g \in Handlers, Unkept(g)'
      PROVE  handler'[g].answer \notin KeptIds /\ handler'[g].own \notin KeptIds
  <2>1. \A m \in Fresh : m \notin KeptIds
    BY <1>1, <1>2
  <2>2. CASE g = h
    <3>1. d.answer \notin KeptIds
      BY <1>6, <2>1, <2>2 DEF Unkept, Active, ThreadInv, IdsInv
    <3> QED
      BY <1>2, <1>6, <2>1, <2>2, <3>1 DEF Unkept, Active
  <2>3. CASE g # h
    <3>1. Unkept(g) /\ SameRun(handler[g], handler'[g])
      BY <1>3, <1>6, <2>3 DEF Unkept
    <3> QED
      BY <3>1 DEF ThreadInv, IdsInv, SameRun
  <2> QED
    BY <2>2, <2>3
<1>7. ASSUME NEW g \in Handlers, NEW k \in Handlers, g # k, Active(g)', Active(k)'
      PROVE  /\ handler'[g].answer \notin {handler'[k].answer, handler'[k].own}
             /\ handler'[g].own # Top => handler'[g].own # handler'[k].own
  <2>1. \A e, f \in Handlers : e # f /\ Active(e) /\ Active(f) =>
          /\ handler[e].answer \notin {handler[f].answer, handler[f].own}
          /\ handler[e].own # Top => handler[e].own # handler[f].own
    BY DEF ThreadInv, IdsInv
  <2>2. \A e \in Handlers \ {h} : Active(e)' =>
          /\ Active(e) /\ SameRun(handler[e], handler'[e])
          /\ handler[e].answer \notin Fresh \cup {Top} /\ handler[e].own \notin Fresh
    BY <1>1, <1>2, <1>3, <1>4
  <2>3. Active(h)' =>
          /\ d.answer \in Fresh \/ (Active(h) /\ d.answer = handler[h].answer)
          /\ d.own \in Fresh \cup {Top} /\ d.answer # Top
    BY <1>2, <1>1 DEF Active
  <2>4. CASE g # h /\ k # h
    BY <1>7, <2>1, <2>2, <2>4 DEF SameRun
  <2>5. CASE g = h
    BY <1>7, <2>1, <2>2, <2>3, <2>5 DEF SameRun
  <2>6. CASE k = h
    BY <1>7, <2>1, <2>2, <2>3, <2>6 DEF SameRun
  <2> QED
    BY <2>4, <2>5, <2>6
<1> QED
  BY <1>2, <1>5, <1>6, <1>7 DEF IdsInv

(* An agent that took tools has an id of its own for them.                  *)
LEMMA AgentFinishesKeeps ==
  ASSUME ThreadInv, NEW h \in Handlers, NEW tools \in BOOLEAN, AgentFinishes(h, tools)
  PROVE  ThreadInv'
<1> DEFINE c == handler[h]
           own == IF tools THEN used' ELSE Top
           d == [Goto(h, "finished") EXCEPT !.own = own]
<1>1. /\ handler' = [handler EXCEPT ![h] = d] /\ c.pc = "streaming"
      /\ used' = used + (IF tools THEN 1 ELSE 0) /\ (tools => used < MaxMessages)
      /\ UNCHANGED <<tree, head, complete, prompts, rows, exists>>
  BY DEF AgentFinishes, Step, browser
<1>2. /\ used \in Nat /\ used' \in 0 .. MaxMessages /\ used' >= used
      /\ own \in Fresh \cup {Top} /\ own \in Ids \cup {Top} /\ own \in 0 .. used'
  BY <1>1 DEF ThreadInv, ThreadTypeOK, Fresh, Ids, Top
<1>3. Growing
  BY <1>1, <1>2, RowsSame DEF Growing
<1>4. /\ CallOK(d) /\ d.pc = "finished" /\ d.tab = c.tab /\ d.own = own /\ d.told = c.told
      /\ d.user = c.user /\ d.answer = c.answer /\ d.parent = c.parent /\ d.shown = c.shown
  BY <1>2, GotoOK DEF ThreadInv, Pcs, CallOK, SameRun
<1> HIDE DEF d, own
<1>5. /\ CallsOK' /\ handler'[h] = d
      /\ \A g \in Handlers \ {h} :
           /\ handler'[g] = handler[g]
           /\ Later(handler[g], handler'[g]) /\ Leaves(handler[g], handler'[g])
  BY <1>1, <1>4, StepOK DEF ThreadInv
<1>6. /\ Fresh \cap (0 .. used) = {} /\ 1 .. used' = (1 .. used) \cup Fresh
      /\ 0 .. used' = (0 .. used) \cup Fresh /\ prompts \subseteq 1 .. used /\ Top \notin Fresh
  BY <1>3, FreshIds
<1>7. Others'
  BY <1>1, <1>3, OthersKept DEF Growing, Fresh
<1>8. IdsInv'
  <2>1. /\ c.user \in prompts /\ c.answer \in (1 .. used) \ prompts /\ c.parent \in 0 .. used
        /\ Active(h) /\ Unkept(h)
    BY <1>1 DEF ThreadInv, IdsInv, Active, Unkept
  <2>2. d.own \in (0 .. used') \ prompts /\ d.own # d.answer
    BY <1>2, <1>4, <1>6, <2>1 DEF Top
  <2> QED
    BY <1>1, <1>2, <1>3, <1>4, <1>5, <1>6, <2>1, <2>2, IdsFresh
<1>9. LinksInv'
  <2>1. \A n, q \in Ids \cup {Top} : Link(n, q)' => Link(n, q)
    <3>1. \A g \in Handlers, n, q \in Ids \cup {Top} :
            InCall(handler'[g], n, q) => InCall(handler[g], n, q)
      BY <1>1, <1>4, <1>5 DEF InCall
    <3> QED
      BY <1>1, <3>1 DEF Link, InTree
  <2>2. \A g \in Handlers : Unkept(g)' =>
          /\ Unkept(g)
          /\ handler'[g].answer = handler[g].answer /\ handler'[g].user = handler[g].user
          /\ handler'[g].own = handler[g].own \/ handler'[g].own \in Fresh \cup {Top}
    BY <1>1, <1>2, <1>4, <1>5 DEF Unkept, Active
  <2>3. {} \in SUBSET (Fresh \X (0 .. used'))
    OBVIOUS
  <2> QED
    BY <1>3, <2>1, <2>2, <2>3, LinksFresh
<1>10. ThreadTypeOK'
  <2>1. prompts' \subseteq 1 .. used'
    BY <1>1, <1>6
  <2> QED
    BY <1>1, <1>2, <1>5, <2>1 DEF ThreadInv, ThreadTypeOK
<1>11. TreesInv'
  BY <1>1, <1>3, <1>6 DEF ThreadInv, TreesInv, Growing, RowsLeft
<1>12. StagesInv'
  BY <1>1, <1>3, <1>4, <1>5 DEF ThreadInv, StagesInv, Growing, RowsLeft, Active
<1>13. ShownInv'
  BY <1>1, <1>4, <1>5 DEF ThreadInv, ShownInv, ShownOK, Active
<1>14. ToldIsShown'
  <2>1. Leaves(handler[h], handler'[h])
    BY <1>1, <1>4, <1>5 DEF Leaves, Told
  <2> QED
    BY <1>1, <1>3, <1>5, <2>1, ToldKept DEF ThreadInv, Growing
<1> QED
  BY <1>7, <1>8, <1>9, <1>10, <1>11, <1>12, <1>13, <1>14 DEF ThreadInv, Others

(* A run starts: what it shows is the branch of its tab above it.           *)
Asked(t, u, answer, p) ==
  [Idle EXCEPT !.pc = "asked", !.tab = t, !.user = u, !.answer = answer,
               !.parent = p, !.shown = Path(tree[t], p)]

(* What holds of the calls when d is started; what is above its prompt is   *)
(* in the tree of the tab.                                                  *)
Started(t, h, u, answer, p, d) ==
  /\ CallsOK' /\ handler'[h] = d
  /\ \A g \in Handlers \ {h} :
       /\ Later(handler[g], handler'[g]) /\ SameRun(handler[g], handler'[g])
       /\ handler'[g].pc = handler[g].pc
       /\ handler'[g].tab = IF handler[g].tab = t THEN Nobody ELSE handler[g].tab
  /\ \A g \in Handlers : Leaves(handler[g], handler'[g])
  /\ d.pc = "asked" /\ d.tab = t /\ d.user = u /\ d.answer = answer /\ d.parent = p
  /\ d.own = Top /\ ShownOK(d)
  /\ \A n, q : InCall(d, n, q) =>
       \/ n = u /\ q = p
       \/ n = answer /\ q = u
       \/ InTree(t, n, q)

(* A tab starts a run for a message under p.                                *)
LEMMA RunStarts ==
  ASSUME ThreadInv, NEW t \in Tabs, NEW h \in Handlers, handler[h].pc = "idle",
         NEW u \in Ids, NEW answer \in Ids, NEW p \in Places(tree[t]),
         handler' = [Abandoned(t) EXCEPT ![h] = Asked(t, u, answer, p)]
  PROVE  Started(t, h, u, answer, p, Asked(t, u, answer, p))
<1> DEFINE d == Asked(t, u, answer, p)
<1>1. Leads(Path(tree[t], p), tree[t], p)
  BY PathLeads DEF ThreadInv, TreesInv
<1>2. DOMAIN tree[t] \subseteq Ids
  BY DEF ThreadInv, TreesInv, ThreadTypeOK, Ids
<1>3. /\ CallOK(d) /\ d.pc = "asked" /\ d.tab = t /\ d.user = u /\ d.answer = answer
      /\ d.parent = p /\ d.own = Top /\ d.shown = Path(tree[t], p)
  <2>1. Path(tree[t], p) \in Seq(Ids)
    BY <1>1, <1>2 DEF Leads
  <2>2. p \in Ids \cup {Top}
    BY <1>2 DEF Places
  <2>3. d = [Idle EXCEPT !.pc = "asked", !.tab = t, !.user = u, !.answer = answer,
                         !.parent = p, !.shown = Path(tree[t], p)]
    BY DEF Asked
  <2> HIDE DEF d
  <2> QED
    BY <2>1, <2>2, <2>3 DEF CallOK, Idle, Pcs
<1> HIDE DEF d
<1>4. /\ handler' = [g \in Handlers |-> handler'[g]] /\ handler'[h] = d
      /\ \A g \in Handlers \ {h} : handler'[g] = Abandoned(t)[g]
  BY AbandonedOK DEF ThreadInv, d
<1>5. ShownOK(d)
  BY <1>1, <1>3 DEF Leads, ShownOK
<1>6. ASSUME NEW n, NEW q, InCall(d, n, q)
      PROVE  \/ n = u /\ q = p
             \/ n = answer /\ q = u
             \/ InTree(t, n, q)
  <2> DEFINE s == Path(tree[t], p)
  <2>1. s \in Seq(DOMAIN tree[t]) /\ \A i \in 1 .. Len(s) : tree[t][s[i]] = Above(s, i)
    BY <1>1 DEF Leads, Above
  <2> HIDE DEF s
  <2>2. \A i \in 1 .. Len(s) : s[i] \in DOMAIN tree[t]
    BY <2>1
  <2> QED
    BY <1>3, <1>6, <2>1, <2>2 DEF InCall, InTree, s
<1>7. Leaves(handler[h], d)
  BY <1>3 DEF Leaves, Told
<1>8. \A g \in Handlers \ {h} :
        /\ CallOK(handler'[g])
        /\ Later(handler[g], handler'[g]) /\ SameRun(handler[g], handler'[g])
        /\ Leaves(handler[g], handler'[g])
        /\ handler'[g].pc = handler[g].pc
        /\ handler'[g].tab = IF handler[g].tab = t THEN Nobody ELSE handler[g].tab
  BY <1>4, AbandonedOK DEF ThreadInv
<1>9. CallsOK'
  BY <1>3, <1>4, <1>8 DEF CallsOK
<1>10. Started(t, h, u, answer, p, d)
  BY <1>3, <1>4, <1>5, <1>6, <1>7, <1>8, <1>9 DEF Started
<1> QED
  BY <1>10 DEF d

(* A tab shows a branch of its tree.                                        *)
LEMMA BranchIn ==
  ASSUME ThreadInv, NEW t \in Tabs
  PROVE  /\ Branch(t) \subseteq DOMAIN tree[t] /\ head[t] \in Places(tree[t])
         /\ \A n \in DOMAIN tree[t] : tree[t][n] \in Places(tree[t]) /\ n # Top
         /\ DOMAIN tree[t] \subseteq 1 .. used
<1>1. Grounded(tree[t]) /\ head[t] \in Places(tree[t]) /\ DOMAIN tree[t] \subseteq 1 .. used
  BY DEF ThreadInv, TreesInv, Places
<1>2. Path(tree[t], head[t]) \in Seq(DOMAIN tree[t])
  BY <1>1, PathLeads DEF Leads
<1> QED
  BY <1>1, <1>2 DEF Branch, ToSet, Grounded, Places

(* A tree with a leaf more is of the trees.                                 *)
LEMMA AttachType ==
  ASSUME NEW parents \in Trees, NEW m \in Ids, NEW p \in Ids \cup {Top}
  PROVE  Attach(parents, m, p) \in Trees
<1>1. PICK nodes \in SUBSET Ids : parents \in [nodes -> Ids \cup {Top}]
  BY DEF Trees
<1>2. Attach(parents, m, p) \in [nodes \cup {m} -> Ids \cup {Top}]
  BY <1>1 DEF Attach
<1> QED
  BY <1>2 DEF Trees

(* A message and its answer are added to the tab and sent.                  *)
LEMMA PostKeeps ==
  ASSUME ThreadInv, NEW t \in Tabs, NEW h \in Handlers, PostSome(t, h)
  PROVE  ThreadInv'
<1>1. PICK p \in Places(tree[t]) : PostMessage(t, h, p)
  BY BranchIn DEF PostSome
<1> DEFINE u == used + 1
           answer == used + 2
           d == Asked(t, u, answer, p)
           one == Attach(tree[t], u, p)
           two == Attach(one, answer, u)
           fresh == {<<u, p>>, <<answer, u>>}
<1>2. /\ used + 2 <= MaxMessages /\ used' = used + 2 /\ prompts' = prompts \cup {u}
      /\ tree' = [tree EXCEPT ![t] = two] /\ head' = [head EXCEPT ![t] = answer]
      /\ handler[h].pc = "idle" /\ handler' = [Abandoned(t) EXCEPT ![h] = d]
      /\ complete' = complete /\ rows' = rows /\ exists' = exists
  BY <1>1 DEF PostMessage, Grow, Run, Asked
<1>3. /\ used \in Nat /\ used' \in 0 .. MaxMessages /\ used' >= used
      /\ u \in Ids /\ answer \in Ids /\ u \in Fresh /\ answer \in Fresh /\ u # answer
  BY <1>2 DEF ThreadInv, ThreadTypeOK, Fresh, Ids
<1>4. Growing
  BY <1>2, <1>3, RowsSame DEF Growing
<1>5. /\ Fresh \cap (0 .. used) = {} /\ 1 .. used' = (1 .. used) \cup Fresh
      /\ 0 .. used' = (0 .. used) \cup Fresh /\ prompts \subseteq 1 .. used /\ Top \notin Fresh
      /\ KeptIds \subseteq 1 .. used
  BY <1>4, FreshIds
<1>6. p \in 0 .. used /\ 1 .. used \subseteq 0 .. used
  BY <1>3, BranchIn DEF Places, Top
<1>a. Started(t, h, u, answer, p, d)
  BY <1>2, <1>3, RunStarts
<1> HIDE DEF u, answer, d, one, two
<1>7. /\ CallsOK' /\ handler'[h] = d
      /\ \A g \in Handlers \ {h} :
           /\ Later(handler[g], handler'[g]) /\ SameRun(handler[g], handler'[g])
           /\ handler'[g].pc = handler[g].pc
           /\ handler'[g].tab = IF handler[g].tab = t THEN Nobody ELSE handler[g].tab
      /\ \A g \in Handlers : Leaves(handler[g], handler'[g])
      /\ d.pc = "asked" /\ d.tab = t /\ d.user = u /\ d.answer = answer /\ d.parent = p
      /\ d.own = Top /\ ShownOK(d)
      /\ \A n, q : InCall(d, n, q) => \/ n = u /\ q = p
                                      \/ n = answer /\ q = u
                                      \/ InTree(t, n, q)
  BY <1>a DEF Started
<1>8. /\ Grounded(one) /\ DOMAIN one = DOMAIN tree[t] \cup {u}
      /\ one = [n \in DOMAIN tree[t] \cup {u} |-> IF n = u THEN p ELSE tree[t][n]]
  <2>1. u \notin Places(tree[t])
    BY <1>3, <1>5, <1>6, BranchIn DEF Places
  <2> QED
    BY <2>1, GroundedAttach DEF ThreadInv, TreesInv, one, Attach
<1>9. /\ Grounded(two) /\ DOMAIN two = DOMAIN tree[t] \cup {u, answer}
      /\ two = [n \in DOMAIN one \cup {answer} |-> IF n = answer THEN u ELSE one[n]]
  <2>1. answer \notin Places(one) /\ u \in Places(one)
    BY <1>3, <1>5, <1>6, <1>8, BranchIn DEF Places
  <2> QED
    BY <1>8, <2>1, GroundedAttach DEF two, Attach
<1>10. \A s \in Tabs : tree'[s] = IF s = t THEN two ELSE tree[s]
  BY <1>2 DEF ThreadInv, ThreadTypeOK
<1>11. Others'
  BY <1>2, <1>3, <1>4, OthersKept DEF Growing, Fresh
<1>12. IdsInv'
  <2>1. /\ d.user \in prompts' /\ d.answer \in (1 .. used') \ prompts'
        /\ d.parent \in 0 .. used' /\ d.own \in (0 .. used') \ prompts' /\ d.own # d.answer
    BY <1>2, <1>3, <1>5, <1>6, <1>7 DEF Top
  <2> QED
    BY <1>3, <1>4, <1>7, <2>1, IdsFresh
<1>13. LinksInv'
  <2>1. fresh \in SUBSET (Fresh \X (0 .. used'))
    BY <1>3, <1>5, <1>6
  <2>2. \A n, q, r : <<n, q>> \in fresh /\ <<n, r>> \in fresh => q = r
    BY <1>3
  <2>3. ASSUME NEW n \in Ids \cup {Top}, NEW q \in Ids \cup {Top}, Link(n, q)'
        PROVE  Link(n, q) \/ <<n, q>> \in fresh
    <3>1. ASSUME NEW s \in Tabs, InTree(s, n, q)'
          PROVE  InTree(s, n, q) \/ <<n, q>> \in fresh
      <4>1. n \in DOMAIN tree'[s] /\ tree'[s][n] = q
        BY <3>1 DEF InTree
      <4>2. CASE s = t
        BY <1>8, <1>9, <1>10, <4>1, <4>2 DEF InTree
      <4>3. CASE s # t
        BY <1>10, <4>1, <4>3 DEF InTree
      <4> QED
        BY <4>2, <4>3
    <3>2. ASSUME NEW g \in Handlers, InCall(handler'[g], n, q)
          PROVE  Link(n, q) \/ <<n, q>> \in fresh
      <4>1. CASE g = h
        BY <1>7, <3>2, <4>1 DEF Link
      <4>2. CASE g # h
        <5>1. InCall(handler[g], n, q)
          BY <1>7, <3>2, <4>2 DEF InCall, SameRun
        <5> QED
          BY <5>1 DEF Link
      <4> QED
        BY <4>1, <4>2
    <3> QED
      BY <2>3, <3>1, <3>2 DEF Link
  <2>4. ASSUME NEW g \in Handlers, Unkept(g)'
        PROVE  /\ \/ /\ Unkept(g)
                     /\ handler'[g].answer = handler[g].answer
                     /\ handler'[g].user = handler[g].user
                  \/ handler'[g].answer \in Fresh
               /\ \A q : <<handler'[g].answer, q>> \in fresh => q = handler'[g].user
               /\ \/ Unkept(g) /\ handler'[g].own = handler[g].own
                  \/ handler'[g].own \in Fresh \cup {Top}
               /\ \A q : <<handler'[g].own, q>> \notin fresh
    <3>1. CASE g = h
      BY <1>3, <1>5, <1>7, <3>1
    <3>2. CASE g # h
      <4>1. Unkept(g) /\ Active(g) /\ SameRun(handler[g], handler'[g])
        BY <1>7, <2>4, <3>2 DEF Unkept, Active
      <4>2. handler[g].answer \in 0 .. used /\ handler[g].own \in 0 .. used
        BY <1>6, <4>1 DEF ThreadInv, IdsInv
      <4> QED
        BY <1>3, <1>5, <4>1, <4>2 DEF SameRun
    <3> QED
      BY <3>1, <3>2
  <2> HIDE DEF fresh
  <2> QED
    BY <1>4, <2>1, <2>2, <2>3, <2>4, LinksFresh
<1>14. ThreadTypeOK'
  <2>1. prompts' \subseteq 1 .. used'
    BY <1>2, <1>3, <1>5
  <2>2. two \in Trees
    <3>1. p \in Ids \cup {Top}
      BY <1>6 DEF ThreadInv, ThreadTypeOK, Ids, Top
    <3> QED
      BY <1>3, <3>1, AttachType DEF ThreadInv, ThreadTypeOK, one, two
  <2> QED
    BY <1>2, <1>3, <1>7, <2>1, <2>2 DEF ThreadInv, ThreadTypeOK
<1>15. TreesInv'
  <2>1. \A s \in Tabs : Grounded(tree'[s]) /\ DOMAIN tree[s] \subseteq DOMAIN tree'[s]
    BY <1>9, <1>10 DEF ThreadInv, TreesInv
  <2>2. \A s \in Tabs : DOMAIN tree'[s] \subseteq 1 .. used'
    BY <1>3, <1>5, <1>9, <1>10 DEF ThreadInv, TreesInv
  <2>3. \A s \in Tabs : head'[s] \in DOMAIN tree'[s] \cup {Top}
    BY <1>2, <1>9, <1>10 DEF ThreadInv, TreesInv, ThreadTypeOK
  <2> QED
    BY <1>2, <1>4, <2>1, <2>2, <2>3 DEF ThreadInv, TreesInv, Growing, RowsLeft
<1>16. StagesInv'
  <2>1. \A s \in Tabs : DOMAIN tree[s] \subseteq DOMAIN tree'[s]
    BY <1>9, <1>10
  <2>2. ASSUME NEW g \in Handlers \ {h}
        PROVE  /\ handler'[g].pc \in {"parented", "streaming", "finished"} /\ exists =>
                    handler'[g].parent \in KeptIds \cup {Top}
               /\ handler'[g].pc = "kept" /\ exists => handler'[g].answer \in KeptIds
               /\ handler'[g].tab # Nobody =>
                    handler'[g].pc # "idle" /\ handler'[g].answer \in DOMAIN tree'[handler'[g].tab]
    <3>1. handler'[g].tab # Nobody => handler[g].tab \in Tabs /\ handler'[g].tab = handler[g].tab
      BY <1>7 DEF ThreadInv, ThreadTypeOK, CallsOK, CallOK
    <3>2. handler'[g].pc = handler[g].pc /\ SameRun(handler[g], handler'[g])
      BY <1>7
    <3> QED
      BY <2>1, <3>1, <3>2 DEF ThreadInv, StagesInv, Active, SameRun
  <2>3. handler'[h].answer \in DOMAIN tree'[t]
    BY <1>7, <1>9, <1>10
  <2> QED
    BY <1>2, <1>4, <1>7, <2>2, <2>3 DEF StagesInv, Growing, RowsLeft, Active
<1>17. ShownInv'
  BY <1>7 DEF ThreadInv, ShownInv, ShownOK, Active, SameRun
<1>18. ToldIsShown'
  BY <1>2, <1>4, <1>7, ToldKept DEF ThreadInv, Growing
<1> QED
  BY <1>11, <1>12, <1>13, <1>14, <1>15, <1>16, <1>17, <1>18 DEF ThreadInv, Others

(* Another answer is asked for, or just added if there is nothing to send.  *)
LEMMA RefreshKeeps ==
  ASSUME ThreadInv, NEW t \in Tabs, NEW h \in Handlers, NEW a \in Ids, Refresh(t, h, a)
  PROVE  ThreadInv'
<1> DEFINE u == tree[t][a]
           answer == used + 1
           p == tree[t][u]
           d == Asked(t, u, answer, p)
           two == Attach(tree[t], answer, u)
           fresh == {<<answer, u>>}
<1>1. a \in DOMAIN tree[t] /\ u \in Places(tree[t])
  BY BranchIn DEF Refresh
<1>2. /\ used < MaxMessages /\ used' = used + 1 /\ prompts' = prompts
      /\ tree' = [tree EXCEPT ![t] = two] /\ head' = [head EXCEPT ![t] = answer]
      /\ u \in prompts => handler[h].pc = "idle" /\ handler' = [Abandoned(t) EXCEPT ![h] = d]
      /\ u \notin prompts => handler' = handler
      /\ complete' = complete /\ rows' = rows /\ exists' = exists
  BY DEF Refresh, Grow, Run, Asked
<1>3. /\ used \in Nat /\ used' \in 0 .. MaxMessages /\ used' >= used
      /\ answer \in Ids /\ Fresh = {answer}
  BY <1>2 DEF ThreadInv, ThreadTypeOK, Fresh, Ids
<1>4. Growing
  BY <1>2, <1>3, RowsSame DEF Growing
<1>5. /\ Fresh \cap (0 .. used) = {} /\ 1 .. used' = (1 .. used) \cup Fresh
      /\ 0 .. used' = (0 .. used) \cup Fresh /\ prompts \subseteq 1 .. used /\ Top \notin Fresh
      /\ KeptIds \subseteq 1 .. used
  BY <1>4, FreshIds
<1>6. /\ u \in 0 .. used /\ u \in Ids \cup {Top}
      /\ u \in prompts => u \in Ids /\ p \in Places(tree[t]) /\ p \in 0 .. used /\ InTree(t, u, p)
  <2>1. \A n \in Places(tree[t]) : n \in 0 .. used /\ n \in Ids \cup {Top}
    BY <1>3, BranchIn DEF Places, Top, ThreadInv, ThreadTypeOK, Ids
  <2>2. u \in prompts => u \in DOMAIN tree[t] /\ u \in Ids
    BY <1>1, <1>5, <2>1 DEF Places, Top
  <2>3. u \in prompts => p \in Places(tree[t])
    BY <2>2, BranchIn
  <2> QED
    BY <1>1, <2>1, <2>2, <2>3 DEF InTree
<1>a. u \in prompts => Started(t, h, u, answer, p, d)
  BY <1>2, <1>3, <1>6, RunStarts
<1> HIDE DEF u, answer, d, two, p
<1>7. /\ CallsOK'
      /\ u \in prompts =>
           /\ handler'[h] = d
           /\ d.pc = "asked" /\ d.tab = t /\ d.user = u /\ d.answer = answer /\ d.parent = p
           /\ d.own = Top /\ ShownOK(d)
           /\ \A n, q : InCall(d, n, q) => \/ n = u /\ q = p
                                           \/ n = answer /\ q = u
                                           \/ InTree(t, n, q)
      /\ u \notin prompts => handler'[h] = handler[h]
  BY <1>2, <1>a DEF Started, ThreadInv, ThreadTypeOK, CallsOK
<1>b. \A g \in Handlers :
        /\ Leaves(handler[g], handler'[g])
        /\ g # h =>
             /\ Later(handler[g], handler'[g]) /\ SameRun(handler[g], handler'[g])
             /\ handler'[g].pc = handler[g].pc
             /\ handler'[g].tab \in {handler[g].tab, Nobody}
  <2>1. CASE u \in prompts
    BY <1>a, <2>1 DEF Started
  <2>2. CASE u \notin prompts
    BY <1>2, <2>2 DEF Later, Leaves, SameRun, ThreadInv, StagesInv, Active
  <2> QED
    BY <2>1, <2>2
<1>9. /\ Grounded(two) /\ DOMAIN two = DOMAIN tree[t] \cup {answer}
      /\ two = [n \in DOMAIN tree[t] \cup {answer} |-> IF n = answer THEN u ELSE tree[t][n]]
  <2>1. answer \notin Places(tree[t])
    BY <1>3, <1>5, BranchIn DEF Places, Top
  <2> QED
    BY <1>1, <2>1, GroundedAttach DEF ThreadInv, TreesInv, two, Attach
<1>10. \A s \in Tabs : tree'[s] = IF s = t THEN two ELSE tree[s]
  BY <1>2 DEF ThreadInv, ThreadTypeOK
<1>11. Others'
  BY <1>2, <1>3, <1>4, OthersKept DEF Growing, Fresh
<1>12. IdsInv'
  <2>1. CASE u \in prompts
    <3>1. /\ d.user \in prompts' /\ d.answer \in (1 .. used') \ prompts'
          /\ d.parent \in 0 .. used' /\ d.own \in (0 .. used') \ prompts' /\ d.own # d.answer
      <4>1. Top \in 0 .. used' /\ Top \notin prompts
        BY <1>3, <1>5 DEF Top
      <4>2. answer \notin prompts
        BY <1>3, <1>5
      <4> QED
        BY <1>2, <1>3, <1>5, <1>6, <1>7, <2>1, <4>1, <4>2
    <3> QED
      BY <1>3, <1>4, <1>7, <1>b, <2>1, <3>1, IdsFresh
  <2>2. CASE u \notin prompts
    <3>1. \A g \in Handlers : Active(g) =>
            /\ handler[g].user \in prompts
            /\ handler[g].answer \in (1 .. used') \ prompts
            /\ handler[g].parent \in 0 .. used'
            /\ handler[g].own \in (0 .. used') \ prompts
            /\ handler[g].own # handler[g].answer
      BY <1>5 DEF ThreadInv, IdsInv
    <3> QED
      BY <1>2, <1>4, <2>2, <3>1 DEF ThreadInv, IdsInv, Growing, RowsLeft, Active, Unkept
  <2> QED
    BY <2>1, <2>2
<1>13. LinksInv'
  <2>1. fresh \in SUBSET (Fresh \X (0 .. used'))
    BY <1>3, <1>5, <1>6
  <2>2. \A n, q, r : <<n, q>> \in fresh /\ <<n, r>> \in fresh => q = r
    BY <1>3
  <2>3. ASSUME NEW n \in Ids \cup {Top}, NEW q \in Ids \cup {Top}, Link(n, q)'
        PROVE  Link(n, q) \/ <<n, q>> \in fresh
    <3>1. ASSUME NEW s \in Tabs, InTree(s, n, q)'
          PROVE  InTree(s, n, q) \/ <<n, q>> \in fresh
      BY <1>9, <1>10, <3>1 DEF InTree
    <3>2. ASSUME NEW g \in Handlers, InCall(handler'[g], n, q)
          PROVE  Link(n, q) \/ <<n, q>> \in fresh
      <4>1. CASE g = h /\ u \in prompts
        BY <1>6, <1>7, <3>2, <4>1 DEF Link
      <4>2. CASE g # h \/ u \notin prompts
        <5>1. InCall(handler[g], n, q)
          BY <1>2, <1>b, <3>2, <4>2 DEF InCall, SameRun
        <5> QED
          BY <5>1 DEF Link
      <4> QED
        BY <4>1, <4>2
    <3> QED
      BY <2>3, <3>1, <3>2 DEF Link
  <2>4. ASSUME NEW g \in Handlers, Unkept(g)'
        PROVE  /\ \/ /\ Unkept(g)
                     /\ handler'[g].answer = handler[g].answer
                     /\ handler'[g].user = handler[g].user
                  \/ handler'[g].answer \in Fresh
               /\ \A q : <<handler'[g].answer, q>> \in fresh => q = handler'[g].user
               /\ \/ Unkept(g) /\ handler'[g].own = handler[g].own
                  \/ handler'[g].own \in Fresh \cup {Top}
               /\ \A q : <<handler'[g].own, q>> \notin fresh
    <3>1. CASE g = h /\ u \in prompts
      BY <1>3, <1>5, <1>7, <3>1
    <3>2. CASE g # h \/ u \notin prompts
      <4>1. Unkept(g) /\ Active(g) /\ handler'[g].answer = handler[g].answer
            /\ handler'[g].user = handler[g].user /\ handler'[g].own = handler[g].own
        BY <1>2, <1>b, <2>4, <3>2 DEF Unkept, Active, SameRun
      <4>2. handler[g].answer \in 0 .. used /\ handler[g].own \in 0 .. used
        BY <4>1 DEF ThreadInv, IdsInv
      <4> QED
        BY <1>3, <1>5, <4>1, <4>2
    <3> QED
      BY <3>1, <3>2
  <2> HIDE DEF fresh
  <2> QED
    BY <1>4, <2>1, <2>2, <2>3, <2>4, LinksFresh
<1>14. ThreadTypeOK'
  <2>1. prompts' \subseteq 1 .. used'
    BY <1>2, <1>3, <1>5
  <2>2. two \in Trees
    BY <1>3, <1>6, AttachType DEF ThreadInv, ThreadTypeOK, two
  <2> QED
    BY <1>2, <1>3, <1>7, <2>1, <2>2 DEF ThreadInv, ThreadTypeOK
<1>15. TreesInv'
  <2>1. \A s \in Tabs : Grounded(tree'[s]) /\ DOMAIN tree[s] \subseteq DOMAIN tree'[s]
    BY <1>9, <1>10 DEF ThreadInv, TreesInv
  <2>2. \A s \in Tabs : DOMAIN tree'[s] \subseteq 1 .. used'
    BY <1>3, <1>5, <1>9, <1>10 DEF ThreadInv, TreesInv
  <2>3. \A s \in Tabs : head'[s] \in DOMAIN tree'[s] \cup {Top}
    BY <1>2, <1>9, <1>10 DEF ThreadInv, TreesInv, ThreadTypeOK
  <2> QED
    BY <1>2, <1>4, <2>1, <2>2, <2>3 DEF ThreadInv, TreesInv, Growing, RowsLeft
<1>16. StagesInv'
  <2>1. \A s \in Tabs : DOMAIN tree[s] \subseteq DOMAIN tree'[s]
    BY <1>9, <1>10
  <2>2. ASSUME NEW g \in Handlers, g # h \/ u \notin prompts
        PROVE  /\ handler'[g].pc \in {"parented", "streaming", "finished"} /\ exists =>
                    handler'[g].parent \in KeptIds \cup {Top}
               /\ handler'[g].pc = "kept" /\ exists => handler'[g].answer \in KeptIds
               /\ handler'[g].tab # Nobody =>
                    handler'[g].pc # "idle" /\ handler'[g].answer \in DOMAIN tree'[handler'[g].tab]
    <3>1. /\ handler'[g].pc = handler[g].pc /\ handler'[g].parent = handler[g].parent
          /\ handler'[g].answer = handler[g].answer
          /\ handler'[g].tab \in {handler[g].tab, Nobody}
      BY <1>2, <1>b, <2>2 DEF SameRun
    <3>2. handler'[g].tab # Nobody => handler[g].tab \in Tabs /\ handler'[g].tab = handler[g].tab
      BY <3>1 DEF ThreadInv, ThreadTypeOK, CallsOK, CallOK
    <3> QED
      BY <2>1, <3>1, <3>2 DEF ThreadInv, StagesInv, Active
  <2>3. u \in prompts => handler'[h].answer \in DOMAIN tree'[t]
    BY <1>7, <1>9, <1>10
  <2> QED
    BY <1>2, <1>4, <1>7, <2>2, <2>3 DEF StagesInv, Growing, RowsLeft, Active
<1>17. ShownInv'
  BY <1>7, <1>b DEF ThreadInv, ShownInv, ShownOK, Active, SameRun
<1>18. ToldIsShown'
  BY <1>2, <1>4, <1>b, ToldKept DEF ThreadInv, Growing
<1> QED
  BY <1>11, <1>12, <1>13, <1>14, <1>15, <1>16, <1>17, <1>18 DEF ThreadInv, Others

-----------------------------------------------------------------------------
(* The steps that change the rows *)

(* What a run adds comes after all that is kept, under ids not used there.   *)
IdsOf(list) == {list[i].id : i \in 1 .. Len(list)}
Found(list, id) == CHOOSE row \in ToSet(list) : row.id = id
IsTree(list) ==
  \A i \in 1 .. Len(list) :
    /\ \A j \in 1 .. i - 1 : list[j].id # list[i].id
    /\ list[i].parent = Top \/ \E j \in 1 .. i - 1 : list[j].id = list[i].parent
InBlocks(list) ==
  \A i, k \in 1 .. Len(list) : \A j \in i .. k :
    list[i].run = list[k].run => list[j].run = list[i].run

(* A row is found by its id.                                                *)
LEMMA FoundIn ==
  ASSUME NEW list \in Seq(Entry), IsTree(list)
  PROVE  \A i \in 1 .. Len(list) : Found(list, list[i].id) = list[i]
  BY RowFound DEF Found, IsTree

(* A list with two or three more at its end.                                *)
LEMMA TwoMore ==
  ASSUME NEW S, NEW list \in Seq(S), NEW a \in S, NEW b \in S, NEW n, n = Len(list),
         NEW longer, longer = list \o <<a, b>>
  PROVE  /\ longer \in Seq(S) /\ n \in Nat /\ Len(longer) = n + 2
         /\ \A i \in 1 .. n : longer[i] = list[i]
         /\ longer[n + 1] = a /\ longer[n + 2] = b
  OBVIOUS

LEMMA ThreeMore ==
  ASSUME NEW S, NEW list \in Seq(S), NEW a \in S, NEW b \in S, NEW c \in S, NEW n, n = Len(list),
         NEW longer, longer = list \o <<a, b, c>>
  PROVE  /\ longer \in Seq(S) /\ n \in Nat /\ Len(longer) = n + 3
         /\ \A i \in 1 .. n : longer[i] = list[i]
         /\ longer[n + 1] = a /\ longer[n + 2] = b /\ longer[n + 3] = c
  OBVIOUS

(* The ids under which a run is kept.                                       *)
IdsKept(c) == {c.user, c.answer} \cup ({c.own} \ {Top})

(* A run that may be added to a list, and the list with it.                 *)
MayAdd(list, c) ==
  /\ list \in Seq(Entry) /\ IsTree(list) /\ InBlocks(list)
  /\ \A i \in 1 .. Len(list) : list[i].run \in IdsOf(list)
  /\ c.user \in Ids \ IdsOf(list) /\ c.answer \in Ids \ IdsOf(list)
  /\ c.own \in Ids \cup {Top} /\ c.own \notin IdsOf(list)
  /\ c.parent \in Ids \cup {Top} /\ c.parent \in IdsOf(list) \cup {Top}
  /\ c.user # c.answer /\ c.user # c.own /\ c.own # c.answer

(* The rows of a run.                                                       *)
FirstRow(c) == [id |-> c.user, parent |-> c.parent, run |-> c.answer]
MidRow(c) == [id |-> c.own, parent |-> c.user, run |-> c.answer]
LastRow(c) == [id |-> c.answer, parent |-> IF c.own = Top THEN c.user ELSE c.own,
               run |-> c.answer]
RowsOf(c) == IF c.own = Top THEN <<FirstRow(c), LastRow(c)>>
                            ELSE <<FirstRow(c), MidRow(c), LastRow(c)>>

(* What holds of the longer list.                                           *)
HasAdded(list, longer, c) ==
  /\ longer \in Seq(Entry) /\ IsTree(longer) /\ InBlocks(longer)
  /\ IdsOf(longer) = IdsOf(list) \cup IdsKept(c)
  /\ \A m \in IdsOf(list) : Found(longer, m) = Found(list, m)
  /\ Found(longer, c.user) = FirstRow(c) /\ Found(longer, c.answer) = LastRow(c)
  /\ c.own # Top => Found(longer, c.own) = MidRow(c)

(* It does.                                                                 *)
LEMMA ListKept ==
  ASSUME NEW list, NEW c, MayAdd(list, c)
  PROVE  HasAdded(list, list \o RowsOf(c), c)
<1> DEFINE user == c.user
           answer == c.answer
           own == c.own
           parent == c.parent
           first == FirstRow(c)
           mid == MidRow(c)
           last == LastRow(c)
           longer == list \o RowsOf(c)
<1>d. /\ first = [id |-> user, parent |-> parent, run |-> answer]
      /\ mid = [id |-> own, parent |-> user, run |-> answer]
      /\ last = [id |-> answer, parent |-> IF own = Top THEN user ELSE own, run |-> answer]
      /\ longer = list \o (IF own = Top THEN <<first, last>> ELSE <<first, mid, last>>)
  BY DEF FirstRow, MidRow, LastRow, RowsOf
<1>e. /\ list \in Seq(Entry) /\ IsTree(list) /\ InBlocks(list)
      /\ \A i \in 1 .. Len(list) : list[i].run \in IdsOf(list)
      /\ user \in Ids \ IdsOf(list) /\ answer \in Ids \ IdsOf(list)
      /\ own \in Ids \cup {Top} /\ own \notin IdsOf(list)
      /\ parent \in Ids \cup {Top} /\ parent \in IdsOf(list) \cup {Top}
      /\ user # answer /\ user # own /\ own # answer
  BY DEF MayAdd
<1>f. IdsKept(c) = {user, answer} \cup ({own} \ {Top})
  BY DEF IdsKept
<1> SUFFICES /\ longer \in Seq(Entry) /\ IsTree(longer) /\ InBlocks(longer)
             /\ IdsOf(longer) = IdsOf(list) \cup {user, answer} \cup ({own} \ {Top})
             /\ \A m \in IdsOf(list) : Found(longer, m) = Found(list, m)
             /\ Found(longer, user) = first /\ Found(longer, answer) = last
             /\ own # Top => Found(longer, own) = mid
  BY <1>f DEF HasAdded
<1> HIDE DEF user, answer, own, parent, first, mid, last, longer
<1> DEFINE n == Len(list)
           k == IF own = Top THEN n + 2 ELSE n + 3
           new == n + 1 .. k
<1>1. first \in Entry /\ last \in Entry /\ (own # Top => mid \in Entry)
  BY <1>d, <1>e DEF Entry
<1>2. /\ longer \in Seq(Entry) /\ n \in Nat /\ Len(longer) = k
      /\ \A i \in 1 .. n : longer[i] = list[i]
      /\ longer[n + 1] = first
      /\ own = Top => longer[n + 2] = last
      /\ own # Top => longer[n + 2] = mid /\ longer[n + 3] = last
  <2>1. CASE own = Top
    BY <1>1, <1>d, <1>e, <2>1, TwoMore
  <2>2. CASE own # Top
    BY <1>1, <1>d, <1>e, <2>2, ThreeMore
  <2> QED
    BY <1>e, <2>1, <2>2
<1>a. /\ first.id = user /\ first.parent = parent /\ first.run = answer
      /\ mid.id = own /\ mid.parent = user /\ mid.run = answer
      /\ last.id = answer /\ last.run = answer /\ last.parent = IF own = Top THEN user ELSE own
  BY <1>e, <1>d
<1>3. 1 .. Len(longer) = (1 .. n) \cup new /\ \A i \in 1 .. n : i \notin new
  BY <1>e, <1>2
<1>b. \A i \in new : i = n + 1 \/ i = n + 2 \/ (own # Top /\ i = n + 3)
  BY <1>e, <1>2
<1>c. n + 1 \in new /\ n + 2 \in new /\ (own # Top => n + 3 \in new)
  BY <1>e, <1>2
<1>4. \A i \in new : /\ longer[i].run = answer
                     /\ longer[i].id \in {user, answer} \cup ({own} \ {Top})
  BY <1>e, <1>2, <1>a, <1>b
<1>5. \A i \in 1 .. n : list[i].id \in IdsOf(list)
  BY DEF IdsOf
<1>6. ASSUME NEW i \in 1 .. Len(longer)
      PROVE  /\ \A j \in 1 .. i - 1 : longer[j].id # longer[i].id
             /\ longer[i].parent = Top \/ \E j \in 1 .. i - 1 : longer[j].id = longer[i].parent
  <2>1. CASE i \in 1 .. n
    <3>1. \A j \in 1 .. i - 1 : longer[j] = list[j]
      BY <1>e, <1>2, <2>1
    <3>2. longer[i] = list[i]
      BY <1>e, <1>2, <2>1
    <3> QED
      BY <1>e, <2>1, <3>1, <3>2 DEF IsTree
  <2>2. CASE i = n + 1
    <3>1. \A j \in 1 .. i - 1 : longer[j].id \in IdsOf(list)
      BY <1>e, <1>2, <1>5, <2>2
    <3>2. parent # Top => \E j \in 1 .. i - 1 : longer[j].id = parent
      BY <1>e, <1>2, <2>2 DEF IdsOf
    <3>3. longer[i].id = user /\ longer[i].parent = parent
      BY <1>e, <1>2, <1>a, <2>2
    <3> QED
      BY <1>e, <3>1, <3>2, <3>3
  <2>3. CASE i = n + 2
    <3>1. longer[i].id # user /\ longer[i].id \notin IdsOf(list) /\ longer[i].parent = user
      BY <1>e, <1>2, <1>a, <2>3
    <3>2. \A j \in 1 .. i - 1 : longer[j].id \in IdsOf(list) \cup {user}
      BY <1>e, <1>2, <1>5, <1>a, <2>3
    <3>3. n + 1 \in 1 .. i - 1 /\ longer[n + 1].id = user
      BY <1>e, <1>2, <1>a, <2>3
    <3> QED
      BY <1>e, <3>1, <3>2, <3>3
  <2>4. CASE own # Top /\ i = n + 3
    <3>1. longer[i].id = answer /\ longer[i].parent = own
      BY <1>e, <1>2, <1>a, <2>4
    <3>2. \A j \in 1 .. i - 1 : longer[j].id \in IdsOf(list) \cup {user, own}
      BY <1>e, <1>2, <1>5, <1>a, <2>4
    <3>3. n + 2 \in 1 .. i - 1 /\ longer[n + 2].id = own
      BY <1>e, <1>2, <1>a, <2>4
    <3> QED
      BY <1>e, <3>1, <3>2, <3>3
  <2> QED
    BY <1>e, <1>3, <1>b, <2>1, <2>2, <2>3, <2>4
<1>13. IsTree(longer)
  BY <1>e, <1>6 DEF IsTree
<1>7. IdsOf(longer) = IdsOf(list) \cup {user, answer} \cup ({own} \ {Top})
  <2>1. IdsOf(longer) = {longer[i].id : i \in (1 .. n) \cup new}
    BY <1>e, <1>3 DEF IdsOf
  <2>2. IdsOf(list) = {longer[i].id : i \in 1 .. n}
    BY <1>e, <1>2 DEF IdsOf
  <2>3. {user, answer} \cup ({own} \ {Top}) \subseteq {longer[i].id : i \in new}
    BY <1>e, <1>2, <1>a, <1>c
  <2>4. {longer[i].id : i \in new} \subseteq {user, answer} \cup ({own} \ {Top})
    BY <1>e, <1>4
  <2> HIDE DEF new, n
  <2>5. IdsOf(longer) = {longer[i].id : i \in 1 .. n} \cup {longer[i].id : i \in new}
    BY <1>e, <2>1
  <2> QED
    BY <1>e, <2>2, <2>3, <2>4, <2>5
<1>8. \A i \in 1 .. Len(longer) : Found(longer, longer[i].id) = longer[i]
  BY <1>e, <1>2, <1>13, FoundIn
<1>9. \A i \in 1 .. Len(list) : Found(list, list[i].id) = list[i]
  BY <1>e, FoundIn
<1>10. \A m \in IdsOf(list) : Found(longer, m) = Found(list, m)
  <2> SUFFICES ASSUME NEW i \in 1 .. n PROVE Found(longer, list[i].id) = Found(list, list[i].id)
    BY DEF IdsOf
  <2>1. i \in 1 .. Len(longer) /\ longer[i] = list[i]
    BY <1>e, <1>2, <1>3
  <2>2. Found(longer, longer[i].id) = longer[i] /\ Found(list, list[i].id) = list[i]
    BY <1>e, <1>8, <1>9, <2>1
  <2> QED
    BY <1>e, <2>1, <2>2
<1>11. /\ Found(longer, user) = first /\ Found(longer, answer) = last
       /\ own # Top => Found(longer, own) = mid
  <2>1. Found(longer, longer[n + 1].id) = longer[n + 1]
        /\ Found(longer, longer[n + 2].id) = longer[n + 2]
        /\ (own # Top => Found(longer, longer[n + 3].id) = longer[n + 3])
    BY <1>e, <1>3, <1>8, <1>c
  <2> QED
    BY <1>e, <1>2, <1>a, <2>1
<1>12. InBlocks(longer)
  <2> SUFFICES ASSUME NEW i \in 1 .. Len(longer), NEW l \in 1 .. Len(longer), NEW j \in i .. l,
                      longer[i].run = longer[l].run
               PROVE  longer[j].run = longer[i].run
    BY DEF InBlocks
  <2>1. CASE l \in 1 .. n
    <3>1. i \in 1 .. n /\ j \in 1 .. n
      BY <1>e, <1>2, <2>1
    <3>2. longer[i] = list[i] /\ longer[j] = list[j] /\ longer[l] = list[l]
      BY <1>e, <1>2, <2>1, <3>1
    <3> QED
      BY <1>e, <2>1, <3>1, <3>2 DEF InBlocks
  <2>2. CASE l \in new /\ i \in new
    <3>1. j \in new
      BY <1>e, <1>2, <2>2
    <3> QED
      BY <1>e, <1>4, <2>2, <3>1
  <2>3. CASE l \in new /\ i \in 1 .. n
    <3>1. longer[i].run \in IdsOf(list)
      BY <1>e, <1>2, <2>3
    <3> QED
      BY <1>e, <1>4, <2>3, <3>1
  <2> QED
    BY <1>e, <1>3, <2>1, <2>2, <2>3
<1> QED
  BY <1>2, <1>7, <1>10, <1>11, <1>12, <1>13

(* What holds of the rows when the run of h has been kept.                  *)
RowsKept(h) ==
  /\ RowsOK' /\ BlocksInv' /\ KeptIds' = KeptIds \cup IdsKept(handler[h])
  /\ \A m \in KeptIds : Found(rows', m) = Found(rows, m)
  /\ \A m \in IdsKept(handler[h]) : Found(rows', m).run = handler[h].answer
  /\ Found(rows', handler[h].user).parent = handler[h].parent
  /\ handler[h].own = Top => Found(rows', handler[h].answer).parent = handler[h].user
  /\ handler[h].own # Top => /\ Found(rows', handler[h].own).parent = handler[h].user
                             /\ Found(rows', handler[h].answer).parent = handler[h].own

LEMMA RowIsFound ==
  /\ \A id : Row(id) = Found(rows, id)
  /\ \A id : Row(id)' = Found(rows', id)
  BY DEF Row, Found

(* The invariants of the rows after a step, in terms of the new rows.        *)
LEMMA RunsNext ==
  ASSUME \A n \in KeptIds' : Found(rows', n).run \in KeptIds',
         \A n \in KeptIds' \ prompts' :
           /\ Found(rows', n).parent \in KeptIds'
           /\ Found(rows', Found(rows', n).parent).run = Found(rows', n).run
  PROVE  RunsInv'
  BY DEF RunsInv, Row, Found

FollowsIn(list, ids, users, n, q) ==
  \/ Found(list, n).parent = q
  \/ /\ n \notin users /\ q \in users
     /\ Found(list, n).parent \in ids \ users
     /\ Found(list, Found(list, n).parent).parent = q

LEMMA FollowsIsIn ==
  ASSUME NEW n, NEW q
  PROVE  /\ Follows(n, q) <=> FollowsIn(rows, KeptIds, prompts, n, q)
         /\ Follows(n, q)' <=> FollowsIn(rows', KeptIds', prompts', n, q)
  BY DEF Follows, FollowsIn, Row, Found

(* Rows put together.                                                       *)
LEMMA OneAndOne ==
  ASSUME NEW a, NEW b
  PROVE  <<a>> \o <<b>> = <<a, b>>
<1> DEFINE S == {a, b}
           both == <<a>> \o <<b>>
<1>1. /\ <<a>> \in Seq(S) /\ <<b>> \in Seq(S) /\ <<a, b>> \in Seq(S)
      /\ Len(<<a>>) = 1 /\ Len(<<b>>) = 1 /\ Len(<<a, b>>) = 2
      /\ <<a>>[1] = a /\ <<b>>[1] = b /\ <<a, b>>[1] = a /\ <<a, b>>[2] = b
  OBVIOUS
<1>2. both \in Seq(S) /\ Len(both) = 2 /\ both[1] = a /\ both[2] = b
  BY <1>1, ConcatProperties
<1> HIDE DEF both, S
<1>3. \A i \in 1 .. Len(both) : both[i] = <<a, b>>[i]
  BY <1>1, <1>2
<1>4. both = <<a, b>>
  BY <1>1, <1>2, <1>3, SeqEqual
<1> QED
  BY <1>4 DEF both

LEMMA OneAndTwo ==
  ASSUME NEW a, NEW b, NEW c
  PROVE  <<a>> \o <<b, c>> = <<a, b, c>>
<1> DEFINE S == {a, b, c}
           all == <<a>> \o <<b, c>>
<1>1. /\ <<a>> \in Seq(S) /\ <<b, c>> \in Seq(S) /\ <<a, b, c>> \in Seq(S)
      /\ Len(<<a>>) = 1 /\ Len(<<b, c>>) = 2 /\ Len(<<a, b, c>>) = 3
      /\ <<a>>[1] = a /\ <<b, c>>[1] = b /\ <<b, c>>[2] = c
      /\ <<a, b, c>>[1] = a /\ <<a, b, c>>[2] = b /\ <<a, b, c>>[3] = c
  OBVIOUS
<1>2. all \in Seq(S) /\ Len(all) = 3 /\ all[1] = a /\ all[2] = b /\ all[3] = c
  BY <1>1, ConcatProperties
<1> HIDE DEF all, S
<1>3. \A i \in 1 .. Len(all) : all[i] = <<a, b, c>>[i]
  BY <1>1, <1>2
<1>4. all = <<a, b, c>>
  BY <1>1, <1>2, <1>3, SeqEqual
<1> QED
  BY <1>4 DEF all

(* KeepRun adds the rows of a run to a list that may have them.             *)
LEMMA KeepRunRows ==
  ASSUME ThreadInv, NEW h \in Handlers, KeepRun(h)
  PROVE  RowsKept(h)
<1> DEFINE user == handler[h].user
           answer == handler[h].answer
           own == handler[h].own
           parent == handler[h].parent
           c == handler[h]
<1>1. /\ user \notin KeptIds /\ answer \notin KeptIds /\ own \notin KeptIds
      /\ user \in prompts /\ answer \notin prompts /\ own \notin prompts /\ own # answer
      /\ parent \in KeptIds \cup {Top}
      /\ used \in Nat /\ prompts \subseteq 1 .. used
      /\ answer \in 1 .. used /\ own \in 0 .. used /\ used' = used
  BY DEF KeepRun, Step, ThreadInv, IdsInv, StagesInv, Active, Unkept, ThreadTypeOK, browser
<1>2. /\ user \in Ids /\ answer \in Ids /\ own \in Ids \cup {Top} /\ parent \in Ids \cup {Top}
  BY <1>1 DEF ThreadInv, ThreadTypeOK, CallsOK, CallOK, Ids, Top
<1>3. rows' = rows \o RowsOf(c)
  <2>1. rows' = rows \o Added(h)
    BY DEF KeepRun
  <2>2. CASE own = Top
    <3>1. Added(h) = <<FirstRow(c)>> \o <<LastRow(c)>>
      BY <2>2 DEF Added, FirstRow, LastRow
    <3>2. <<FirstRow(c)>> \o <<LastRow(c)>> = <<FirstRow(c), LastRow(c)>>
      BY OneAndOne
    <3> QED
      BY <2>1, <2>2, <3>1, <3>2 DEF RowsOf
  <2>3. CASE own # Top
    <3>1. Added(h) = <<FirstRow(c)>> \o <<MidRow(c), LastRow(c)>>
      BY <2>3 DEF Added, FirstRow, MidRow, LastRow
    <3>2. <<FirstRow(c)>> \o <<MidRow(c), LastRow(c)>> = <<FirstRow(c), MidRow(c), LastRow(c)>>
      BY OneAndTwo
    <3> QED
      BY <2>1, <2>3, <3>1, <3>2 DEF RowsOf
  <2> QED
    BY <2>2, <2>3
<1>4. /\ KeptIds = IdsOf(rows) /\ KeptIds' = IdsOf(rows')
      /\ \A id : Row(id) = Found(rows, id)
      /\ RowsAreATree <=> IsTree(rows)
      /\ RowsAreATree' <=> IsTree(rows')
      /\ BlocksInv <=> InBlocks(rows)
      /\ BlocksInv' <=> InBlocks(rows')
  BY DEF KeptIds, IdsOf, Row, Found, RowsAreATree, IsTree, BlocksInv, InBlocks
<1>5. rows \in Seq(Entry) /\ IsTree(rows) /\ InBlocks(rows)
  BY <1>4 DEF ThreadInv, RowsOK
<1>6. \A i \in 1 .. Len(rows) : rows[i].run \in IdsOf(rows)
  <2> SUFFICES ASSUME NEW i \in 1 .. Len(rows) PROVE rows[i].run \in IdsOf(rows)
    OBVIOUS
  <2>1. rows[i].id \in KeptIds /\ Row(rows[i].id) = rows[i]
    BY <1>4, <1>5, FoundIn DEF KeptIds
  <2> QED
    BY <1>4, <2>1 DEF ThreadInv, RunsInv
<1>7. HasAdded(rows, rows', c)
  <2>1. MayAdd(rows, c)
    BY <1>1, <1>2, <1>4, <1>5, <1>6 DEF MayAdd
  <2> QED
    BY <1>3, <2>1, ListKept
<1> HIDE DEF c
<1>b. /\ c.user = user /\ c.answer = answer /\ c.own = own /\ c.parent = parent
      /\ IdsKept(c) = {user, answer} \cup ({own} \ {Top})
  BY DEF IdsKept, c
<1> HIDE DEF user, answer, own, parent
<1>8. RowsOK'
  <2>1. KeptIds' \subseteq 1 .. used'
    <3>1. KeptIds' = KeptIds \cup {user, answer} \cup ({own} \ {Top})
      BY <1>4, <1>7, <1>b DEF HasAdded
    <3> QED
      BY <1>1, <3>1 DEF ThreadInv, RowsOK, Top
  <2> QED
    BY <1>4, <1>7, <2>1 DEF RowsOK, HasAdded
<1>9. \A m \in {user, answer} \cup ({own} \ {Top}) : Found(rows', m).run = answer
  BY <1>7, <1>b DEF HasAdded, FirstRow, MidRow, LastRow
<1>10. /\ Found(rows', user).parent = parent
       /\ own = Top => Found(rows', answer).parent = user
       /\ own # Top => Found(rows', own).parent = user /\ Found(rows', answer).parent = own
  BY <1>7, <1>b DEF HasAdded, FirstRow, MidRow, LastRow
<1>11. KeptIds' = KeptIds \cup IdsKept(handler[h]) /\ BlocksInv'
       /\ \A m \in KeptIds : Found(rows', m) = Found(rows, m)
  BY <1>4, <1>7 DEF HasAdded, c
<1> QED
  BY <1>8, <1>9, <1>10, <1>11, <1>b DEF RowsKept, user, answer, own, parent, c

(* A run is kept: what its tab shows follows in the rows as well.           *)
LEMMA KeepRunKeeps ==
  ASSUME ThreadInv, NEW h \in Handlers, KeepRun(h)
  PROVE  ThreadInv'
<1> DEFINE c == handler[h]
           d == Goto(h, "kept")
<1>1. /\ handler' = [handler EXCEPT ![h] = d] /\ c.pc = "finished" /\ c.user \notin KeptIds
      /\ exists /\ UNCHANGED <<tree, head, complete, prompts, used, exists>>
  BY DEF KeepRun, Step, browser
<1>2. CallOK(d) /\ d.pc = "kept" /\ d.told = c.told /\ d.tab = c.tab /\ SameRun(c, d)
  BY GotoOK DEF ThreadInv, Pcs
<1> HIDE DEF d
<1>3. /\ CallsOK' /\ handler'[h] = d /\ \A g \in Handlers \ {h} : handler'[g] = handler[g]
  BY <1>1, <1>2, StepOK DEF ThreadInv
<1>4. \A g \in Handlers :
        /\ SameRun(handler[g], handler'[g]) /\ handler'[g].tab = handler[g].tab
        /\ handler'[g].told = handler[g].told
        /\ Active(g)' <=> Active(g)
        /\ Unkept(g)' <=> Unkept(g) /\ g # h
        /\ g # h => handler'[g].pc = handler[g].pc
  BY <1>1, <1>2, <1>3 DEF SameRun, Active, Unkept
<1>5. RowsKept(h)
  BY KeepRunRows
<1>6. /\ c.user \in prompts /\ c.answer \in (1 .. used) \ prompts
      /\ c.own \in (0 .. used) \ prompts /\ c.own # c.answer /\ Active(h) /\ Unkept(h)
      /\ used \in Nat /\ prompts \subseteq 1 .. used
      /\ KeptIds \subseteq KeptIds'
      /\ c.answer \in KeptIds' /\ c.user \in KeptIds' /\ c.answer \notin KeptIds
      /\ c.own # Top => c.own \in KeptIds'
  BY <1>1, <1>5 DEF ThreadInv, IdsInv, Active, Unkept, ThreadTypeOK, RowsKept, IdsKept
<1>7. Others'
  <2> DEFINE row(n) == Found(rows', n)
  <2>1. ASSUME NEW n \in KeptIds' PROVE row(n).run \in KeptIds'
    BY <1>5, <1>6, <2>1, RowIsFound DEF RowsKept, ThreadInv, RunsInv
  <2>2. ASSUME NEW n \in KeptIds' \ prompts'
        PROVE  row(n).parent \in KeptIds' /\ row(row(n).parent).run = row(n).run
    <3>1. CASE n \in KeptIds
      <4>1. /\ row(n) = Row(n) /\ Row(n).parent \in KeptIds
            /\ Row(Row(n).parent).run = Row(n).run
        BY <1>1, <1>5, <3>1, RowIsFound DEF RowsKept, ThreadInv, RunsInv
      <4>2. row(Row(n).parent) = Row(Row(n).parent)
        BY <1>5, <4>1, RowIsFound DEF RowsKept
      <4> QED
        BY <1>6, <4>1, <4>2
    <3>2. CASE n = c.answer /\ c.own = Top
      BY <1>5, <1>6, <3>2 DEF RowsKept, IdsKept
    <3>3. CASE n = c.answer /\ c.own # Top
      BY <1>5, <1>6, <3>3 DEF RowsKept, IdsKept
    <3>4. CASE n = c.own /\ c.own # Top
      BY <1>5, <1>6, <3>4 DEF RowsKept, IdsKept
    <3> QED
      BY <1>1, <1>5, <1>6, <3>1, <3>2, <3>3, <3>4 DEF RowsKept, IdsKept
  <2>3. RunsInv'
    BY <2>1, <2>2, RunsNext
  <2> QED
    BY <1>5, <2>3 DEF Others, RowsKept
<1>8. IdsInv'
  <2>1. ASSUME NEW g \in Handlers, Unkept(g)'
        PROVE  handler'[g].answer \notin KeptIds' /\ handler'[g].own \notin KeptIds'
    <3>1. /\ Unkept(g) /\ g # h /\ Active(g) /\ Active(h)
          /\ handler'[g].answer = handler[g].answer /\ handler'[g].own = handler[g].own
      BY <1>4, <1>6, <2>1 DEF SameRun, Unkept
    <3>2. /\ handler[g].answer \notin KeptIds /\ handler[g].own \notin KeptIds
          /\ handler[g].answer \notin prompts /\ handler[g].own \notin prompts
          /\ handler[g].answer \notin {c.answer, c.own}
          /\ c.answer \notin {handler[g].answer, handler[g].own}
          /\ handler[g].own # Top => handler[g].own # c.own
      BY <3>1 DEF ThreadInv, IdsInv
    <3> QED
      BY <1>5, <1>6, <3>1, <3>2 DEF RowsKept, IdsKept
  <2>2. ASSUME NEW g \in Handlers, Active(g)'
        PROVE  /\ handler'[g].user \in prompts' /\ handler'[g].answer \in (1 .. used') \ prompts'
               /\ handler'[g].parent \in 0 .. used' /\ handler'[g].own \in (0 .. used') \ prompts'
               /\ handler'[g].own # handler'[g].answer
    BY <1>1, <1>4, <2>2 DEF SameRun, ThreadInv, IdsInv
  <2>3. ASSUME NEW g \in Handlers, NEW k \in Handlers, g # k, Active(g)', Active(k)'
        PROVE  /\ handler'[g].answer \notin {handler'[k].answer, handler'[k].own}
               /\ handler'[g].own # Top => handler'[g].own # handler'[k].own
    BY <1>4, <2>3 DEF SameRun, ThreadInv, IdsInv
  <2> QED
    BY <2>1, <2>2, <2>3 DEF IdsInv
<1>9. LinksInv'
  <2>1. \A n, q : Link(n, q)' <=> Link(n, q)
    <3>1. \A g \in Handlers : \A n, q : InCall(handler'[g], n, q) <=> InCall(handler[g], n, q)
      BY <1>1, <1>2, <1>3 DEF InCall, SameRun
    <3> QED
      BY <1>1, <3>1 DEF Link, InTree
  <2>2. ASSUME NEW n \in Ids \cup {Top}, NEW q \in Ids \cup {Top}, Link(n, q), n \in KeptIds'
        PROVE  Follows(n, q)'
    <3> SUFFICES FollowsIn(rows', KeptIds', prompts, n, q)
      BY <1>1, FollowsIsIn
    <3>1. CASE n \in KeptIds
      <4>1. FollowsIn(rows, KeptIds, prompts, n, q)
        BY <2>2, <3>1, FollowsIsIn DEF ThreadInv, LinksInv
      <4>2. \A m \in KeptIds : Found(rows', m) = Found(rows, m)
        BY <1>5 DEF RowsKept
      <4> QED
        BY <1>6, <3>1, <4>1, <4>2 DEF FollowsIn
    <3>2. CASE n = c.user
      <4>1. Link(n, c.parent) /\ c.parent \in Ids \cup {Top}
        BY <1>6, <3>2 DEF Link, InCall, Active, ThreadInv, ThreadTypeOK, CallsOK, CallOK
      <4>2. q = c.parent
        BY <1>6, <2>2, <3>2, <4>1 DEF ThreadInv, LinksInv
      <4> QED
        BY <1>5, <3>2, <4>2 DEF RowsKept, FollowsIn
    <3>3. CASE n = c.answer
      <4>1. q = c.user
        BY <1>6, <2>2, <3>3 DEF ThreadInv, LinksInv
      <4>2. CASE c.own = Top
        BY <1>5, <3>3, <4>1, <4>2 DEF RowsKept, FollowsIn
      <4>3. CASE c.own # Top
        <5>1. Found(rows', n).parent = c.own /\ Found(rows', c.own).parent = q
          BY <1>5, <3>3, <4>1, <4>3 DEF RowsKept
        <5> QED
          BY <1>6, <3>3, <4>1, <4>3, <5>1 DEF FollowsIn
      <4> QED
        BY <4>2, <4>3
    <3>4. CASE n = c.own
      BY <1>6, <2>2, <3>4 DEF ThreadInv, LinksInv
    <3> QED
      BY <1>5, <2>2, <3>1, <3>2, <3>3, <3>4 DEF RowsKept, IdsKept
  <2>3. ASSUME NEW n \in Ids \cup {Top}, NEW q \in Ids \cup {Top}, Link(n, q)',
               NEW g \in Handlers, Unkept(g)'
        PROVE  /\ n = handler'[g].answer => q = handler'[g].user
               /\ n # handler'[g].own
    <3>1. Link(n, q) /\ Unkept(g) /\ SameRun(handler[g], handler'[g])
      BY <1>4, <2>1, <2>3
    <3> QED
      BY <3>1 DEF ThreadInv, LinksInv, SameRun
  <2>4. ASSUME NEW n \in Ids \cup {Top}, NEW q \in Ids \cup {Top}, Link(n, q)'
        PROVE  /\ n \in 1 .. used' /\ q \in 0 .. used'
               /\ n \in prompts' => \A r \in Ids \cup {Top} : Link(n, r)' => r = q
    BY <1>1, <2>1, <2>4 DEF ThreadInv, LinksInv
  <2> QED
    BY <2>1, <2>2, <2>3, <2>4 DEF LinksInv
<1>10. ThreadTypeOK'
  BY <1>1, <1>3, <1>5 DEF ThreadInv, ThreadTypeOK, RowsKept, RowsOK
<1>11. TreesInv'
  BY <1>1, <1>6 DEF ThreadInv, TreesInv
<1>12. StagesInv'
  <2>1. handler'[h].pc = "kept" /\ handler'[h].answer \in KeptIds'
    BY <1>2, <1>3, <1>6 DEF SameRun
  <2>2. ASSUME NEW g \in Handlers
        PROVE  handler'[g].tab # Nobody =>
                 Active(g)' /\ handler'[g].answer \in DOMAIN tree'[handler'[g].tab]
    BY <1>1, <1>4 DEF ThreadInv, StagesInv, SameRun
  <2>3. ASSUME NEW g \in Handlers \ {h}
        PROVE  /\ handler'[g].pc \in {"parented", "streaming", "finished"} /\ exists' =>
                    handler'[g].parent \in KeptIds' \cup {Top}
               /\ handler'[g].pc = "kept" /\ exists' => handler'[g].answer \in KeptIds'
    BY <1>1, <1>3, <1>6 DEF ThreadInv, StagesInv
  <2> QED
    BY <2>1, <2>2, <2>3 DEF StagesInv
<1>13. ShownInv'
  BY <1>4 DEF ThreadInv, ShownInv, ShownOK, SameRun
<1>14. ToldIsShown'
  <2> SUFFICES ASSUME NEW g \in Handlers PROVE ToldOK(g)'
    BY ToldMeans
  <2>1. ToldOK(g) /\ (handler'[g].pc \in Told => handler[g].pc \in Told)
    BY <1>1, <1>4, ToldMeans DEF ThreadInv, Told
  <2>2. /\ handler[g]'.shown = handler[g].shown /\ handler[g]'.told = handler[g].told
    BY <1>4 DEF SameRun
  <2>3. ToSet(handler[g].shown) \subseteq KeptIds =>
          RunsShown(handler[g].shown)' = RunsShown(handler[g].shown)
    <3>1. RunsShown(handler[g].shown)'
            = [i \in DOMAIN handler[g].shown |-> Found(rows', handler[g].shown[i]).run]
      BY <2>2 DEF RunsShown, Row, Found
    <3>2. RunsShown(handler[g].shown)
            = [i \in DOMAIN handler[g].shown |-> Found(rows, handler[g].shown[i]).run]
      BY DEF RunsShown, Row, Found
    <3>3. ToSet(handler[g].shown) \subseteq KeptIds =>
            \A i \in DOMAIN handler[g].shown :
              Found(rows', handler[g].shown[i]) = Found(rows, handler[g].shown[i])
      BY <1>5 DEF RowsKept, ToSet
    <3> QED
      BY <3>1, <3>2, <3>3
  <2> QED
    BY <1>1, <1>6, <2>1, <2>2, <2>3 DEF ToldOK
<1> QED
  BY <1>7, <1>8, <1>9, <1>10, <1>11, <1>12, <1>13, <1>14 DEF ThreadInv, Others

-----------------------------------------------------------------------------
(* A tab opened, a conversation deleted *)

(* A tab that loads the history shows the tree of what is kept.             *)
LEMMA OpenKeeps ==
  ASSUME ThreadInv, NEW t \in Tabs, OpenThread(t)
  PROVE  ThreadInv'
<1>1. /\ handler' = Abandoned(t) /\ tree' = [tree EXCEPT ![t] = Kept]
      /\ head' = [head EXCEPT ![t] = IF rows = <<>> THEN Top ELSE Last(rows).id]
      /\ complete' = [complete EXCEPT ![t] = KeptIds \ prompts]
      /\ prompts' = prompts /\ used' = used /\ rows' = rows /\ exists' = exists
  BY DEF OpenThread
<1>2. /\ CallsOK' /\ QuietCalls
      /\ \A h \in Handlers :
           /\ Leaves(handler[h], handler'[h]) /\ SameRun(handler[h], handler'[h])
           /\ handler'[h].pc = handler[h].pc
           /\ handler'[h].tab = IF handler[h].tab = t THEN Nobody ELSE handler[h].tab
  BY <1>1, AbandonedOK DEF ThreadInv, CallsOK, QuietCalls
<1>3. RowsLeft
  BY <1>1, RowsSame
<1>4. Others'
  BY <1>1, <1>3, OthersKept DEF ThreadInv, ThreadTypeOK
<1>5. IdsInv' /\ ShownInv'
  BY <1>1, <1>2, <1>3, IdsQuiet, ShownQuiet DEF ThreadInv, RowsLeft
<1>6. /\ Grounded(Kept) /\ DOMAIN Kept = KeptIds /\ KeptIds \subseteq 1 .. used
      /\ 1 .. used \subseteq Ids
      /\ \A n \in KeptIds : Kept[n] = Row(n).parent /\ Row(n).parent \in Ids \cup {Top}
  <2>1. \A n \in KeptIds : Row(n) \in Entry
    BY RowAt DEF ThreadInv
  <2> QED
    BY <2>1, KeptGrounded DEF ThreadInv, RowsOK, Kept, Entry, ThreadTypeOK, Ids
<1>7. \A s \in Tabs :
        /\ tree'[s] = IF s = t THEN Kept ELSE tree[s]
        /\ complete'[s] = IF s = t THEN KeptIds \ prompts ELSE complete[s]
        /\ head'[s] = IF s = t THEN IF rows = <<>> THEN Top ELSE Last(rows).id ELSE head[s]
  BY <1>1 DEF ThreadInv, ThreadTypeOK
<1>8. head'[t] \in KeptIds \cup {Top}
  <2>1. rows # <<>> => Len(rows) \in 1 .. Len(rows)
    BY DEF ThreadInv, RowsOK
  <2>2. rows # <<>> => Last(rows).id \in KeptIds
    BY <2>1 DEF Last, KeptIds
  <2> QED
    BY <1>7, <2>2
<1>9. LinksInv'
  <2>1. ASSUME NEW s \in Tabs, NEW n \in Ids \cup {Top}, NEW q \in Ids \cup {Top}, InTree(s, n, q)'
        PROVE  Link(n, q) \/ (n \in KeptIds /\ q = Row(n).parent)
    BY <1>6, <1>7, <2>1 DEF InTree, Link
  <2> QED
    BY <1>1, <1>2, <1>3, <2>1, LinksQuiet
<1>10. ThreadTypeOK'
  <2>1. Kept \in Trees
    <3>1. Kept \in [KeptIds -> Ids \cup {Top}] /\ KeptIds \in SUBSET Ids
      BY <1>6 DEF Kept
    <3> QED
      BY <3>1 DEF Trees
  <2>2. KeptIds \subseteq Ids
    BY <1>6
  <2>3. tree' \in [Tabs -> Trees]
    BY <1>1, <2>1 DEF ThreadInv, ThreadTypeOK
  <2>4. complete' \in [Tabs -> SUBSET Ids]
    BY <1>1, <2>2 DEF ThreadInv, ThreadTypeOK
  <2>5. head' \in [Tabs -> Ids \cup {Top}]
    <3>1. \A s \in Tabs : head'[s] \in Ids \cup {Top}
      BY <1>7, <1>8, <2>2 DEF ThreadInv, ThreadTypeOK
    <3> QED
      BY <1>1, <3>1 DEF ThreadInv, ThreadTypeOK
  <2> QED
    BY <1>1, <1>2, <2>3, <2>4, <2>5 DEF ThreadInv, ThreadTypeOK
<1>11. TreesInv'
  <2>1. \A s \in Tabs : /\ Grounded(tree'[s]) /\ DOMAIN tree'[s] \subseteq 1 .. used'
                        /\ complete'[s] \subseteq DOMAIN tree'[s]
    <3>1. ASSUME NEW s \in Tabs, s = t
          PROVE  /\ Grounded(tree'[s]) /\ DOMAIN tree'[s] \subseteq 1 .. used'
                 /\ complete'[s] \subseteq DOMAIN tree'[s]
      <4>1. tree'[s] = Kept /\ complete'[s] = KeptIds \ prompts
        BY <1>7, <3>1
      <4> QED
        BY <1>1, <1>6, <4>1
    <3>2. ASSUME NEW s \in Tabs, s # t
          PROVE  /\ Grounded(tree'[s]) /\ DOMAIN tree'[s] \subseteq 1 .. used'
                 /\ complete'[s] \subseteq DOMAIN tree'[s]
      <4>1. tree'[s] = tree[s] /\ complete'[s] = complete[s]
        BY <1>7, <3>2
      <4> QED
        BY <1>1, <4>1 DEF ThreadInv, TreesInv
    <3> QED
      BY <3>1, <3>2
  <2>2. \A s \in Tabs : head'[s] \in DOMAIN tree'[s] \cup {Top}
    BY <1>6, <1>7, <1>8 DEF ThreadInv, TreesInv
  <2>3. \A s \in Tabs : exists' => complete'[s] \subseteq KeptIds'
    BY <1>1, <1>3, <1>7 DEF ThreadInv, TreesInv, RowsLeft
  <2> QED
    BY <2>1, <2>2, <2>3 DEF TreesInv
<1>12. StagesInv'
  <2>1. ASSUME NEW h \in Handlers, handler'[h].tab # Nobody
        PROVE  Active(h)' /\ handler'[h].answer \in DOMAIN tree'[handler'[h].tab]
    <3>1. /\ handler'[h].tab = handler[h].tab /\ handler[h].tab # t /\ handler[h].tab \in Tabs
          /\ handler'[h].answer = handler[h].answer /\ handler'[h].pc = handler[h].pc
      BY <1>2, <2>1 DEF ThreadInv, ThreadTypeOK, CallsOK, CallOK, SameRun
    <3> QED
      BY <1>7, <2>1, <3>1 DEF ThreadInv, StagesInv, Active
  <2> QED
    BY <1>1, <1>2, <1>3, <2>1 DEF ThreadInv, StagesInv, RowsLeft, SameRun
<1>13. ToldIsShown'
  BY <1>1, <1>2, <1>3, ToldKept DEF ThreadInv
<1> QED
  BY <1>4, <1>5, <1>9, <1>10, <1>11, <1>12, <1>13 DEF ThreadInv, Others

(* A tab without messages.                                                  *)
LEMMA NoTreeOK == NoTree \in Trees /\ DOMAIN NoTree = {} /\ Grounded(NoTree)
<1>1. DOMAIN NoTree = {}
  BY DEF NoTree
<1>2. NoTree \in [{} -> Ids \cup {Top}]
  BY DEF NoTree
<1> QED
  BY <1>1, <1>2 DEF Trees, Grounded

(* There is nothing to say of no rows.                                      *)
LEMMA NoRowsOK ==
  ASSUME used \in Nat
  PROVE  /\ rows = <<>> => Others /\ KeptIds = {}
         /\ rows' = <<>> => Others' /\ KeptIds' = {}
<1>1. <<>> \in Seq(Entry) /\ Len(<<>>) = 0 /\ 1 .. 0 = {}
  OBVIOUS
<1> QED
  BY <1>1 DEF Others, RowsOK, RowsAreATree, RunsInv, BlocksInv, KeptIds

(* What is deleted stays deleted, whatever tabs and calls go on with.       *)
LEMMA DeleteKeeps ==
  ASSUME ThreadInv, NEW t \in Tabs, DeleteConversation(t)
  PROVE  ThreadInv'
<1>1. /\ handler' = Abandoned(t) /\ tree' = [tree EXCEPT ![t] = NoTree]
      /\ head' = [head EXCEPT ![t] = Top] /\ complete' = [complete EXCEPT ![t] = {}]
      /\ prompts' = prompts /\ used' = used /\ rows' = <<>> /\ exists' = FALSE
  BY DEF DeleteConversation
<1>2. /\ CallsOK' /\ QuietCalls
      /\ \A h \in Handlers :
           /\ SameRun(handler[h], handler'[h]) /\ handler'[h].pc = handler[h].pc
           /\ handler'[h].tab = IF handler[h].tab = t THEN Nobody ELSE handler[h].tab
  BY <1>1, AbandonedOK DEF ThreadInv, CallsOK, QuietCalls
<1>3. RowsGone
  BY <1>1, RowsDeleted
<1>4. Others'
  BY <1>1, NoRowsOK DEF ThreadInv, ThreadTypeOK
<1>5. IdsInv' /\ ShownInv'
  BY <1>1, <1>2, <1>3, IdsQuiet, ShownQuiet DEF ThreadInv, RowsGone
<1>6. \A s \in Tabs :
        /\ tree'[s] = IF s = t THEN NoTree ELSE tree[s]
        /\ complete'[s] = IF s = t THEN {} ELSE complete[s]
        /\ head'[s] = IF s = t THEN Top ELSE head[s]
  BY <1>1 DEF ThreadInv, ThreadTypeOK
<1>7. LinksInv'
  <2>1. ASSUME NEW s \in Tabs, NEW n \in Ids \cup {Top}, NEW q \in Ids \cup {Top}, InTree(s, n, q)'
        PROVE  Link(n, q)
    BY <1>6, <2>1, NoTreeOK DEF InTree, Link
  <2> QED
    BY <1>1, <1>2, <1>3, <2>1, LinksQuiet
<1>8. ThreadTypeOK'
  <2>1. /\ tree' \in [Tabs -> Trees] /\ complete' \in [Tabs -> SUBSET Ids]
        /\ head' \in [Tabs -> Ids \cup {Top}]
    BY <1>1, NoTreeOK DEF ThreadInv, ThreadTypeOK
  <2> QED
    BY <1>1, <1>2, <1>4, <2>1 DEF ThreadInv, ThreadTypeOK, Others, RowsOK
<1>9. TreesInv'
  BY <1>1, <1>6, NoTreeOK DEF ThreadInv, TreesInv
<1>10. StagesInv'
  <2>1. ASSUME NEW h \in Handlers, handler'[h].tab # Nobody
        PROVE  Active(h)' /\ handler'[h].answer \in DOMAIN tree'[handler'[h].tab]
    <3>1. /\ handler'[h].tab = handler[h].tab /\ handler[h].tab # t /\ handler[h].tab \in Tabs
          /\ handler'[h].answer = handler[h].answer /\ handler'[h].pc = handler[h].pc
      BY <1>2, <2>1 DEF ThreadInv, ThreadTypeOK, CallsOK, CallOK, SameRun
    <3> QED
      BY <1>6, <2>1, <3>1 DEF ThreadInv, StagesInv, Active
  <2> QED
    BY <1>1, <2>1 DEF StagesInv
<1>11. ToldIsShown'
  BY <1>1 DEF ToldIsShown
<1> QED
  BY <1>4, <1>5, <1>7, <1>8, <1>9, <1>10, <1>11 DEF ThreadInv, Others

-----------------------------------------------------------------------------
(* The theorems *)

(* At first there is nothing.                                               *)
LEMMA InitThread == ThreadInit => ThreadInv
<1> SUFFICES ASSUME ThreadInit PROVE ThreadInv
  OBVIOUS
<1>1. /\ tree = [t \in Tabs |-> NoTree] /\ head = [t \in Tabs |-> Top]
      /\ complete = [t \in Tabs |-> {}] /\ prompts = {} /\ used = 0
      /\ handler = [h \in Handlers |-> Idle] /\ rows = <<>> /\ exists = TRUE
  BY DEF ThreadInit
<1>2. \A h \in Handlers : handler[h] = Idle /\ ~Active(h) /\ ~Unkept(h)
  BY <1>1, IdleOK DEF Active, Unkept
<1>3. Others /\ KeptIds = {}
  BY <1>1, NoRowsOK
<1>4. ThreadTypeOK
  <2>1. tree \in [Tabs -> Trees] /\ head \in [Tabs -> Ids \cup {Top}]
        /\ complete \in [Tabs -> SUBSET Ids]
    BY <1>1, NoTreeOK
  <2>2. CallsOK
    BY <1>1, <1>2, IdleOK DEF CallsOK
  <2> QED
    BY <1>1, <1>3, <2>1, <2>2 DEF ThreadTypeOK, Others, RowsOK
<1>5. TreesInv
  BY <1>1, NoTreeOK DEF TreesInv
<1>6. IdsInv /\ StagesInv /\ ShownInv
  BY <1>2, IdleOK DEF IdsInv, StagesInv, ShownInv
<1>7. \A n, q : ~Link(n, q)
  BY <1>1, <1>2, IdleOK, NoTreeOK DEF Link, InTree, InCall
<1>8. LinksInv
  BY <1>7 DEF LinksInv
<1>9. ToldIsShown
  BY <1>2, IdleOK DEF ToldIsShown
<1> QED
  BY <1>3, <1>4, <1>5, <1>6, <1>8, <1>9 DEF ThreadInv, Others

(* Nothing happens.                                                         *)
LEMMA StutterKeeps == ThreadInv /\ UNCHANGED threadVars => ThreadInv'
<1> SUFFICES ASSUME ThreadInv, UNCHANGED threadVars PROVE ThreadInv'
  OBVIOUS
<1>1. /\ tree' = tree /\ head' = head /\ complete' = complete /\ prompts' = prompts
      /\ used' = used /\ handler' = handler /\ rows' = rows /\ exists' = exists
  BY DEF threadVars, browser
<1>2. CallsOK' /\ \A h \in Handlers :
        Later(handler[h], handler'[h]) /\ Leaves(handler[h], handler'[h])
  BY <1>1 DEF Later, Leaves, SameRun, ThreadInv, StagesInv, Active, ThreadTypeOK, CallsOK
<1>3. Quiet
  BY <1>1, <1>2 DEF Quiet, QuietCalls
<1>4. Others' /\ IdsInv' /\ LinksInv' /\ ShownInv' /\ RowsLeft
  BY <1>3, QuietThread
<1>5. ThreadTypeOK' /\ TreesInv' /\ StagesInv'
  BY <1>1, <1>2, <1>4 DEF ThreadInv, ThreadTypeOK, TreesInv, StagesInv, RowsLeft, Active
<1>6. ToldIsShown'
  BY <1>1, <1>2, <1>4, ToldKept DEF ThreadInv
<1> QED
  BY <1>4, <1>5, <1>6 DEF ThreadInv, Others

(* All that is said of a conversation stays true in each of its steps: of    *)
(* the trees that tabs show, the ids that calls are to keep, the rows and     *)
(* what is above what.                                                      *)
THEOREM ThreadInvariant == ThreadSpec => []ThreadInv
<1>1. ThreadInv /\ [ThreadNext]_threadVars => ThreadInv'
  <2> SUFFICES ASSUME ThreadInv, [ThreadNext]_threadVars PROVE ThreadInv'
    OBVIOUS
  <2>1. ASSUME NEW t \in Tabs, StopGenerating(t) PROVE ThreadInv'
    BY <2>1, StopKeeps
  <2>2. ASSUME NEW t \in Tabs, OpenThread(t) PROVE ThreadInv'
    BY <2>2, OpenKeeps
  <2>3. ASSUME NEW t \in Tabs, DeleteConversation(t) PROVE ThreadInv'
    BY <2>3, DeleteKeeps
  <2>4. ASSUME NEW t \in Tabs, NEW m \in Ids, PickBranch(t, m) PROVE ThreadInv'
    BY <2>4, PickKeeps
  <2>5. ASSUME NEW t \in Tabs, NEW h \in Handlers, PostSome(t, h) PROVE ThreadInv'
    BY <2>5, PostKeeps
  <2>6. ASSUME NEW t \in Tabs, NEW h \in Handlers, NEW a \in Ids, Refresh(t, h, a)
        PROVE  ThreadInv'
    BY <2>6, RefreshKeeps
  <2>7. ASSUME NEW h \in Handlers, ServeSend(h) PROVE ThreadInv'
    <3>1. CASE FindParent(h)
      BY <3>1, FindParentKeeps
    <3>2. CASE ListRuns(h)
      BY <3>2, ListRunsKeeps
    <3>3. CASE KeepRun(h)
      BY <3>3, KeepRunKeeps
    <3>4. CASE SendFinished(h)
      BY <3>4, SendFinishedKeeps
    <3>5. CASE Fail(h)
      BY <3>5, FailKeeps
    <3>6. ASSUME NEW tools \in BOOLEAN, AgentFinishes(h, tools) PROVE ThreadInv'
      BY <3>6, AgentFinishesKeeps
    <3> QED
      BY <2>7, <3>1, <3>2, <3>3, <3>4, <3>5, <3>6 DEF ServeSend
  <2>8. CASE UNCHANGED threadVars
    BY <2>8, StutterKeeps
  <2> QED
    BY <2>1, <2>2, <2>3, <2>4, <2>5, <2>6, <2>7, <2>8 DEF ThreadNext
<1> QED
  BY <1>1, InitThread, PTL DEF ThreadSpec

(* The messages of a conversation are a tree in the order in which they are   *)
(* listed, however many tabs send, stop, reload and delete at once.          *)
THEOREM RowsAreATreeHolds == ThreadSpec => []RowsAreATree
<1>1. ThreadInv => RowsAreATree
  BY DEF ThreadInv, RowsOK
<1> QED
  BY <1>1, ThreadInvariant, PTL

(* The agent answers on the ground of what the user sees above the message.   *)
THEOREM ToldIsShownHolds == ThreadSpec => []ToldIsShown
<1>1. ThreadInv => ToldIsShown
  BY DEF ThreadInv
<1> QED
  BY <1>1, ThreadInvariant, PTL

(* A complete answer and the branch above it survive a reload: the tab's tree *)
(* links a kept message to a kept one.                                      *)
THEOREM CompleteIsKeptHolds == ThreadSpec => []CompleteIsKept
<1>1. ThreadInv => CompleteIsKept
  <2> SUFFICES ASSUME ThreadInv, exists, NEW t \in Tabs, NEW a \in complete[t]
               PROVE  ToSet(Path(tree[t], a)) \subseteq KeptIds
    BY DEF CompleteIsKept
  <2>1. /\ Grounded(tree[t]) /\ a \in DOMAIN tree[t] /\ a \in KeptIds
        /\ DOMAIN tree[t] \subseteq Ids
    <3>1. used \in Nat /\ used <= MaxMessages
      BY DEF ThreadInv, ThreadTypeOK
    <3> QED
      BY <3>1 DEF ThreadInv, TreesInv, Ids
  <2>2. ASSUME NEW n \in KeptIds \cap DOMAIN tree[t]
        PROVE  tree[t][n] \in KeptIds \cup {Top}
    <3> DEFINE q == tree[t][n]
    <3>1. n \in Ids /\ q \in Ids \cup {Top}
      BY <2>1 DEF Grounded
    <3>2. Link(n, q)
      BY DEF Link, InTree
    <3>3. Follows(n, q) /\ prompts \subseteq Ids
      <4>1. prompts \subseteq Ids
        BY DEF ThreadInv, ThreadTypeOK, Ids
      <4> QED
        BY <3>1, <3>2, <4>1 DEF ThreadInv, LinksInv
    <3> HIDE DEF q
    <3>4. q # Top => q \in KeptIds
      BY <3>3, FollowsUp DEF ThreadInv
    <3> QED
      BY <3>4 DEF q
  <2> QED
    BY <2>1, <2>2, PathWithin DEF Places
<1> QED
  BY <1>1, ThreadInvariant, PTL

-----------------------------------------------------------------------------
(* SpaceNotify *)

USE BoundsAssumption, MayFailAssumption

-----------------------------------------------------------------------------
(* The types *)

LEMMA InitTypeOK == Init => TypeOK
  BY DEF Init, TypeOK, Subscribed, NoAnswers

LEMMA AskType ==
  ASSUME NEW p \in Pages, asked \in [Pages -> Nat], Ask(p)
  PROVE  asked' \in [Pages -> Nat]
<1>1. asked' = [asked EXCEPT ![p] = @ + 1]
  BY ONLY Ask(p) DEF Ask
<1> QED
  BY <1>1

LEMMA StepTypeOK == TypeOK /\ [Next]_vars => TypeOK'
<1> SUFFICES ASSUME TypeOK, [Next]_vars
             PROVE  TypeOK'
  OBVIOUS
<1> USE DEF TypeOK, server, page
<1>1. CASE UNCHANGED vars
  BY <1>1 DEF vars, Subscribed
<1>2. ASSUME NEW p \in Pages, Post(p)
      PROVE  TypeOK'
  <2>1. asked' \in [Pages -> Nat]
    <3>1. CASE Ask(p)
      BY <3>1, AskType
    <3>2. CASE UNCHANGED asked
      BY <3>2
    <3> QED
      BY <1>2, <3>1, <3>2 DEF Post
  <2>2. queue' \in Seq({"change", "nil"})
    <3>1. queue' = Append(queue, "change") \/ queue' = queue
      BY <1>2 DEF Post
    <3>2. queue \in Seq({"change", "nil"})
      OBVIOUS
    <3> QED
      BY ONLY <3>1, <3>2
  <2>3. /\ posted < MaxPosts /\ posted' = posted + 1
        /\ UNCHANGED <<connected, drops, stream, full, seen, answers, shown>>
    BY <1>2 DEF Post
  <2>4. posted' \in 0..MaxPosts
    BY <2>3
  <2>5. full' \subseteq Subscribed'
    BY <2>3 DEF Subscribed
  <2> QED
    BY <2>1, <2>2, <2>3, <2>4, <2>5
<1>3. ASSUME NEW p \in Pages, Mount(p)
      PROVE  TypeOK'
  <2>1. asked' \in [Pages -> Nat]
    BY <1>3, AskType DEF Mount
  <2> QED
    BY <1>3, <2>1 DEF Mount, StreamGoto, Subscribed
<1>4. ASSUME NEW p \in Pages, Subscribe(p)
      PROVE  TypeOK'
  BY <1>4 DEF Subscribe, StreamGoto, Subscribed
<1>5. ASSUME NEW p \in Pages, Take(p)
      PROVE  TypeOK'
  BY <1>5 DEF Take, StreamGoto, Subscribed
<1>6. ASSUME NEW p \in Pages, Send(p)
      PROVE  TypeOK'
  <2>1. CASE StreamGoto(p, "sent") /\ Ask(p) /\ UNCHANGED full
             /\ seen' = [seen EXCEPT ![p] = posted]
    <3>1. asked' \in [Pages -> Nat]
      BY <2>1, AskType
    <3> QED
      BY <1>6, <2>1, <3>1 DEF Send, StreamGoto, Subscribed
  <2>2. CASE StreamGoto(p, "ended") /\ full' = full \ {p} /\ UNCHANGED <<seen, asked>>
    BY <1>6, <2>2 DEF Send, StreamGoto, Subscribed
  <2> QED
    BY <1>6, <2>1, <2>2 DEF Send
<1>7. ASSUME NEW p \in Pages, Wait(p)
      PROVE  TypeOK'
  BY <1>7 DEF Wait, StreamGoto, Subscribed
<1>8. ASSUME NEW p \in Pages, Unmount(p)
      PROVE  TypeOK'
  <2>1. NoAnswers \in [0..MaxPosts -> Nat]
    BY DEF NoAnswers
  <2>2. answers' \in [Pages -> [0..MaxPosts -> Nat]]
    BY <1>8, <2>1 DEF Unmount
  <2>3. asked' \in [Pages -> Nat] /\ shown' \in [Pages -> 0..MaxPosts]
    BY <1>8 DEF Unmount
  <2> QED
    BY <1>8, <2>2, <2>3 DEF Unmount, StreamGoto, Subscribed
<1>9. ASSUME NEW p \in Pages, Serve(p)
      PROVE  TypeOK'
  <2>1. asked' \in [Pages -> Nat]
    BY <1>9 DEF Serve
  <2>2. answers' \in [Pages -> [0..MaxPosts -> Nat]]
    <3>1. \/ answers' = [answers EXCEPT ![p][posted] = @ + 1]
          \/ answers' = answers
      BY <1>9 DEF Serve
    <3> DEFINE list == [answers[p] EXCEPT ![posted] = @ + 1]
    <3>2. list \in [0..MaxPosts -> Nat]
      OBVIOUS
    <3>3. [answers EXCEPT ![p] = list] \in [Pages -> [0..MaxPosts -> Nat]]
      BY <3>2
    <3> QED
      BY <3>1, <3>3
  <2> QED
    BY <1>9, <2>1, <2>2 DEF Serve, Subscribed
<1>10. ASSUME NEW p \in Pages, Show(p)
       PROVE  TypeOK'
  <2>1. PICK n \in 0..MaxPosts :
          /\ answers[p][n] > 0
          /\ answers' = [answers EXCEPT ![p][n] = @ - 1]
          /\ shown' = [shown EXCEPT ![p] = n]
    BY <1>10 DEF Show
  <2>2. answers' \in [Pages -> [0..MaxPosts -> Nat]]
    <3> DEFINE list == [answers[p] EXCEPT ![n] = @ - 1]
    <3>1. list \in [0..MaxPosts -> Nat]
      BY <2>1
    <3>2. [answers EXCEPT ![p] = list] \in [Pages -> [0..MaxPosts -> Nat]]
      BY <3>1
    <3> QED
      BY <2>1, <3>2
  <2> QED
    BY <1>10, <2>1, <2>2 DEF Show, Subscribed
<1>11. CASE Drop
  <2>1. PICK n \in 0..Len(queue) : queue' = SubSeq(queue, 1, n)
    BY <1>11 DEF Drop
  <2>2. queue' \in Seq({"change", "nil"})
    <3>1. queue \in Seq({"change", "nil"})
      OBVIOUS
    <3> QED
      BY ONLY <2>1, <3>1
  <2>3. /\ drops < MaxDrops /\ drops' = drops + 1
        /\ connected' = FALSE
        /\ UNCHANGED <<posted, stream, full, seen, page>>
    BY <1>11 DEF Drop
  <2>4. drops' \in 0..MaxDrops
    BY <2>3
  <2>5. full' \subseteq Subscribed'
    BY <2>3 DEF Subscribed
  <2> QED
    BY <2>2, <2>3, <2>4, <2>5
<1>12. CASE Reconnect
  BY <1>12 DEF Reconnect, Subscribed
<1>13. CASE Dispatch
  <2>1. queue' \in Seq({"change", "nil"})
    <3>1. queue \in Seq({"change", "nil"}) /\ queue # <<>> /\ queue' = Tail(queue)
      BY <1>13 DEF Dispatch
    <3> QED
      BY ONLY <3>1
  <2> QED
    BY <1>13, <2>1 DEF Dispatch, Signal, Subscribed
<1>14. CASE PodRolls
  BY <1>14 DEF PodRolls, Subscribed
<1> QED
  BY <1>1, <1>2, <1>3, <1>4, <1>5, <1>6, <1>7, <1>8, <1>9, <1>10, <1>11, <1>12,
     <1>13, <1>14 DEF Next, PageStep

(* The observer, the listener and the pages keep their types, and only a   *)
(* subscription holds a signal (message-observer.go).                      *)
THEOREM TypeCorrect == Spec => []TypeOK
  BY InitTypeOK, StepTypeOK, PTL DEF Spec

-----------------------------------------------------------------------------
(* The wake-ups *)

(* NoChangeLost for one page.                                              *)
Awake(p) ==
  p \in Subscribed /\ seen[p] < posted =>
    p \in full \/ stream[p] = "sending" \/ queue # <<>> \/ ~connected

LEMMA StepNoChangeLost ==
  TypeOK /\ NoChangeLost /\ [Next]_vars => NoChangeLost'
<1> SUFFICES ASSUME TypeOK, NoChangeLost, [Next]_vars, NEW q \in Pages
             PROVE  Awake(q)'
  BY DEF NoChangeLost, Awake, Subscribed
<1>0. Awake(q)
  BY DEF NoChangeLost, Awake
<1> USE DEF TypeOK, server, page, Awake
<1>1. CASE UNCHANGED vars
  BY <1>0, <1>1 DEF vars, Subscribed
<1>2. ASSUME NEW p \in Pages, Post(p)
      PROVE  Awake(q)'
  <2>1. connected => queue' = Append(queue, "change")
    BY <1>2 DEF Post
  <2>2. queue \in Seq({"change", "nil"})
    OBVIOUS
  <2>3. Append(queue, "change") # <<>>
    BY ONLY <2>2
  <2>4. connected' = connected
    BY <1>2 DEF Post
  <2> QED
    BY <2>1, <2>3, <2>4
<1>3. ASSUME NEW p \in Pages, Mount(p)
      PROVE  Awake(q)'
  BY <1>0, <1>3 DEF Mount, StreamGoto, Subscribed
<1>4. ASSUME NEW p \in Pages, Subscribe(p)
      PROVE  Awake(q)'
  BY <1>0, <1>4 DEF Subscribe, StreamGoto, Subscribed
<1>5. ASSUME NEW p \in Pages, Take(p)
      PROVE  Awake(q)'
  BY <1>0, <1>5 DEF Take, StreamGoto, Subscribed
<1>6. ASSUME NEW p \in Pages, Send(p)
      PROVE  Awake(q)'
  <2>1. \/ stream' = [stream EXCEPT ![p] = "sent"] /\ seen' = [seen EXCEPT ![p] = posted]
           /\ full' = full
        \/ stream' = [stream EXCEPT ![p] = "ended"] /\ seen' = seen /\ full' = full \ {p}
    BY <1>6 DEF Send, StreamGoto
  <2>2. posted' = posted /\ queue' = queue /\ (connected' <=> connected)
    BY <1>6 DEF Send
  <2>3. CASE q = p
    BY <2>1, <2>2, <2>3 DEF Subscribed
  <2>4. CASE q # p
    <3>1. /\ stream'[q] = stream[q] /\ seen'[q] = seen[q]
          /\ q \in full => q \in full'
      BY <2>1, <2>4
    <3> QED
      BY <1>0, <2>2, <3>1 DEF Subscribed
  <2> QED
    BY <2>3, <2>4
<1>7. ASSUME NEW p \in Pages, Wait(p)
      PROVE  Awake(q)'
  BY <1>0, <1>7 DEF Wait, StreamGoto, Subscribed
<1>8. ASSUME NEW p \in Pages, Unmount(p)
      PROVE  Awake(q)'
  BY <1>0, <1>8 DEF Unmount, StreamGoto, Subscribed
<1>9. ASSUME NEW p \in Pages, Serve(p) \/ Show(p)
      PROVE  Awake(q)'
  BY <1>0, <1>9 DEF Serve, Show, Subscribed
<1>10. CASE Drop
  BY <1>10 DEF Drop
<1>11. CASE Reconnect
  <2>1. queue \in Seq({"change", "nil"}) /\ queue' = Append(queue, "nil")
    BY <1>11 DEF Reconnect
  <2>2. queue' # <<>>
    BY ONLY <2>1
  <2> QED
    BY <2>2
<1>12. CASE Dispatch
  BY <1>12 DEF Dispatch, Signal, Subscribed
<1>13. CASE PodRolls
  BY <1>13 DEF PodRolls, Subscribed
<1> QED
  BY <1>1, <1>2, <1>3, <1>4, <1>5, <1>6, <1>7, <1>8, <1>9, <1>10, <1>11, <1>12,
     <1>13 DEF Next, PageStep

(* A stream that is behind always has a wake-up under way, whatever the    *)
(* posts, the lost connections and the streams that come and go            *)
(* (message-observer.go, message-listener.go).                             *)
THEOREM NoChangeIsLost == Spec => []NoChangeLost
<1>1. Init => NoChangeLost
  BY DEF Init, NoChangeLost, Subscribed
<1> QED
  BY <1>1, InitTypeOK, StepTypeOK, StepNoChangeLost, PTL DEF Spec

-----------------------------------------------------------------------------
(* The refinement *)

LEMMA StepRefines == TypeOK /\ [Next]_vars => [Alerts!Next]_(Alerts!vars)
<1> SUFFICES ASSUME TypeOK, [Next]_vars
             PROVE  Alerts!Next \/ UNCHANGED <<posted, Subscribed, seen>>
  BY DEF Alerts!vars
<1> USE DEF TypeOK, server, page
<1>1. CASE UNCHANGED vars
  BY <1>1 DEF vars, Subscribed
<1>2. ASSUME NEW p \in Pages, Post(p)
      PROVE  Alerts!Post
  BY <1>2 DEF Post, Alerts!Post, Subscribed
<1>3. ASSUME NEW p \in Pages, Subscribe(p)
      PROVE  Alerts!Open(p)
  BY <1>3 DEF Subscribe, StreamGoto, Alerts!Open, Subscribed
<1>4. ASSUME NEW p \in Pages, Send(p)
      PROVE  Alerts!Alert(p) \/ Alerts!Leave({p})
  BY <1>4 DEF Send, StreamGoto, Alerts!Alert, Alerts!Leave, Subscribed
<1>5. ASSUME NEW p \in Pages, Unmount(p)
      PROVE  Alerts!Leave({p})
  BY <1>5 DEF Unmount, StreamGoto, Alerts!Leave, Subscribed
<1>6. ASSUME PodRolls
      PROVE  Alerts!Leave(Pages)
  BY <1>6 DEF PodRolls, Alerts!Leave, Subscribed
<1>7. ASSUME NEW p \in Pages, Mount(p) \/ Take(p) \/ Wait(p)
      PROVE  UNCHANGED <<posted, Subscribed, seen>>
  BY <1>7 DEF Mount, Take, Wait, StreamGoto, Subscribed
<1>8. ASSUME NEW p \in Pages, Serve(p) \/ Show(p)
      PROVE  UNCHANGED <<posted, Subscribed, seen>>
  BY <1>8 DEF Serve, Show, Subscribed
<1>9. ASSUME Drop \/ Reconnect \/ Dispatch
      PROVE  UNCHANGED <<posted, Subscribed, seen>>
  BY <1>9 DEF Drop, Reconnect, Dispatch, Subscribed
<1> QED
  BY <1>1, <1>2, <1>3, <1>4, <1>5, <1>6, <1>7, <1>8, <1>9 DEF Next, PageStep, Alerts!Next

(* Every step of the listener, the observer and the streams is one the     *)
(* promise of OpenSpace allows: a page is alerted of all the changes so    *)
(* far, of those alone, and only while it has the space open.              *)
THEOREM AlertsAreKept == Spec => Alerts!Spec
<1>1. Init => Alerts!Init
  BY DEF Init, Alerts!Init, Subscribed
<1> QED
  BY <1>1, InitTypeOK, StepTypeOK, StepRefines, PTL DEF Spec, Alerts!Spec
=============================================================================
