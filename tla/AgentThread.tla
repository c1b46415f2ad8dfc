---------------------------- MODULE AgentThread ----------------------------
(***************************************************************************)
(* A conversation with the agent, as tabs of the browser show it and as the *)
(* backend keeps it. A tab holds a tree of messages and shows one branch of *)
(* it (agent-runtime/, assistant-ui/thread.tsx over the assistant-ui        *)
(* library); the server relays the run of the agent and keeps it, with its   *)
(* messages, when it has finished (conversation/send-agent-message.go).      *)
(* Messages carry the ids that the tab gave them, so that the next message   *)
(* can name its parent. A tab listens to one run at a time; a run whose tab  *)
(* no longer does goes on until its handler notices.                        *)
(***************************************************************************)
EXTENDS Naturals, Sequences, SequencesExt

CONSTANTS
    Tabs,
    Nobody,         \* the tab of a handler that nobody listens to
    Handlers,       \* sends under way at once
    MaxMessages     \* ids of messages

ASSUME NobodyAssumption == Nobody \notin Tabs
ASSUME BoundAssumption == MaxMessages \in Nat

Ids == 1 .. MaxMessages
Top == 0                                        \* the parent of a first message

VARIABLES
    tree,       \* per tab, the parent of each message it knows
    head,       \* per tab, the last message of the branch shown
    complete,   \* per tab, the answers it shows as complete
    prompts,      \* ids of users' messages
    used,       \* ids given out
    handler,    \* SendAgentMessage calls
    rows,       \* ai_conversation_messages, in the order of `ordinal`
    exists      \* ai_conversations has the conversation

browser == <<tree, head, complete>>
threadVars == <<browser, prompts, used, handler, rows, exists>>

NoTree == [m \in {} |-> Top]

Idle == [pc |-> "idle", tab |-> Nobody, user |-> Top, answer |-> Top, parent |-> Top,
         told |-> <<>>, shown |-> <<>>, own |-> Top]

KeptIds == {rows[i].id : i \in 1 .. Len(rows)}
Row(id) == CHOOSE row \in ToSet(rows) : row.id = id

(* The messages from the first to m, by the parents of a tree.              *)
Path(parents, m) ==
    LET path[n \in DOMAIN parents \cup {Top}] ==
            IF n = Top THEN <<>> ELSE Append(path[parents[n]], n)
    IN  path[m]
Branch(t) == ToSet(Path(tree[t], head[t]))
Kept == [id \in KeptIds |-> Row(id).parent]

(* Which of some things comes first in a sequence before another does.      *)
FirstIn(seq, things) ==
    {pair \in things \X things :
        \E i \in DOMAIN seq : seq[i] = pair[1] /\ \A j \in 1 .. i : seq[j] # pair[2]}

InOrder(things, before) == SetToSortSeq(things, LAMBDA x, y : <<x, y>> \in before)

(* The elements of a sequence, each at the place where it comes first.      *)
Distinct(seq) == InOrder(ToSet(seq), FirstIn(seq, ToSet(seq)))

Running(t) == \E h \in Handlers : handler[h].tab = t

ThreadInit ==
    /\ tree = [t \in Tabs |-> NoTree] /\ head = [t \in Tabs |-> Top]
    /\ complete = [t \in Tabs |-> {}]
    /\ prompts = {} /\ used = 0
    /\ handler = [h \in Handlers |-> Idle]
    /\ rows = <<>> /\ exists = TRUE

-----------------------------------------------------------------------------
(* The tab. A run it starts aborts the one it listens to.                   *)

(* The tree of a tab with a message added.                                  *)
Attach(parents, m, p) ==
    [n \in DOMAIN parents \cup {m} |-> IF n = m THEN p ELSE parents[n]]
Grow(t, parents) == tree' = [tree EXCEPT ![t] = parents]

Abandoned(t) == [h \in Handlers |->
    IF handler[h].tab = t THEN [handler[h] EXCEPT !.tab = Nobody] ELSE handler[h]]

(* run() of the chat model, for the answer to a user's message u under p.    *)
Run(t, h, u, answer, p) ==
    /\ handler[h].pc = "idle"
    /\ handler' = [Abandoned(t) EXCEPT ![h] =
            [Idle EXCEPT !.pc = "asked", !.tab = t, !.user = u, !.answer = answer,
                         !.parent = p, !.shown = Path(tree[t], p)]]

(* Mutant: an edited message is sent as a reply to what is shown last.       *)
PostAtHead(t, h, p) ==
    /\ ~Running(t) \/ p # head[t]
    /\ used + 2 <= MaxMessages /\ used' = used + 2
    /\ LET u == used + 1
           answer == used + 2
       IN  /\ prompts' = prompts \cup {u}
           /\ Grow(t, Attach(Attach(tree[t], u, p), answer, u))
           /\ head' = [head EXCEPT ![t] = answer]
           /\ handler[h].pc = "idle"
           /\ handler' = [Abandoned(t) EXCEPT ![h] =
                   [Idle EXCEPT !.pc = "asked", !.tab = t, !.user = u, !.answer = answer,
                                !.parent = head[t], !.shown = Path(tree[t], p)]]
    /\ UNCHANGED <<complete, rows, exists>>

(* A new message at the end of the branch, when no run is under way, or an   *)
(* edited one next to the one it replaces: p is its parent.                  *)
PostMessage(t, h, p) ==
    /\ ~Running(t) \/ p # head[t]
    /\ used + 2 <= MaxMessages /\ used' = used + 2
    /\ LET u == used + 1
           answer == used + 2
       IN  /\ prompts' = prompts \cup {u}
           /\ Grow(t, Attach(Attach(tree[t], u, p), answer, u))
           /\ head' = [head EXCEPT ![t] = answer]
           /\ Run(t, h, u, answer, p)
    /\ UNCHANGED <<complete, rows, exists>>

PostSome(t, h) ==
    \E p \in {head[t]} \cup {tree[t][u] : u \in Branch(t) \cap prompts} : PostMessage(t, h, p)

(* Another answer to the message above answer a. Above an answer that took   *)
(* tools there is, after a load, another answer: run() throws.               *)
Refresh(t, h, a) ==
    /\ ~Running(t) /\ a \in Branch(t) \ prompts
    /\ used < MaxMessages /\ used' = used + 1
    /\ LET u == tree[t][a]
           answer == used + 1
       IN  /\ Grow(t, Attach(tree[t], answer, u))
           /\ head' = [head EXCEPT ![t] = answer]
           /\ IF u \in prompts THEN Run(t, h, u, answer, tree[t][u]) ELSE UNCHANGED handler
    /\ UNCHANGED <<complete, prompts, rows, exists>>

StopGenerating(t) ==
    /\ Running(t)
    /\ handler' = Abandoned(t)
    /\ UNCHANGED <<browser, prompts, used, rows, exists>>

(* The end of another branch.                                               *)
PickBranch(t, m) ==
    /\ ~Running(t) /\ m \in DOMAIN tree[t] \ (prompts \cup {head[t]})
    /\ \A n \in DOMAIN tree[t] : tree[t][n] # m
    /\ head' = [head EXCEPT ![t] = m]
    /\ UNCHANGED <<tree, complete, prompts, used, handler, rows, exists>>

(* The history is loaded into a tab opened, or opened again; its messages    *)
(* count as complete, and the last of them ends the branch shown.           *)
OpenThread(t) ==
    /\ exists
    /\ tree' = [tree EXCEPT ![t] = Kept]
    /\ head' = [head EXCEPT ![t] = IF rows = <<>> THEN Top ELSE Last(rows).id]
    /\ complete' = [complete EXCEPT ![t] = KeptIds \ prompts]
    /\ handler' = Abandoned(t)
    /\ UNCHANGED <<prompts, used, rows, exists>>

(* The conversation goes with its runs and messages (ON DELETE CASCADE);     *)
(* another tab goes on showing it.                                          *)
DeleteConversation(t) ==
    /\ exists /\ exists' = FALSE
    /\ rows' = <<>>
    /\ tree' = [tree EXCEPT ![t] = NoTree] /\ head' = [head EXCEPT ![t] = Top]
    /\ complete' = [complete EXCEPT ![t] = {}]
    /\ handler' = Abandoned(t)
    /\ UNCHANGED <<prompts, used>>

-----------------------------------------------------------------------------
(* SendAgentMessage, statement by statement.                                *)

Step(h, from, to) == handler[h].pc = from /\ handler' = [handler EXCEPT ![h] = to]
Goto(h, pc) == [handler[h] EXCEPT !.pc = pc]

(* The conversation is the user's, and the parent named is in it.           *)
FindParent(h) ==
    /\ exists /\ (handler[h].parent = Top \/ handler[h].parent \in KeptIds)
    /\ Step(h, "asked", Goto(h, "parented"))
    /\ UNCHANGED <<browser, prompts, used, rows, exists>>

(* Runs are listed in the order in which they were kept.                    *)
Older(runs) == FirstIn([i \in DOMAIN rows |-> rows[i].run], runs)

(* The runs that made the parent and the messages above it, oldest first.    *)
(* There are none when the conversation was deleted since: the handler       *)
(* panics.                                                                  *)
ListRuns(h) ==
    /\ handler[h].parent = Top \/ handler[h].parent \in KeptIds
    /\ LET runs == {Row(id).run : id \in ToSet(Path(Kept, handler[h].parent))}
       IN  Step(h, "parented", [Goto(h, "streaming") EXCEPT !.told = InOrder(runs, Older(runs))])
    /\ UNCHANGED <<browser, prompts, used, rows, exists>>

(* The agent ends its run, with or without a message for a call of tools     *)
(* before the answer.                                                       *)
AgentFinishes(h, tools) ==
    /\ tools => used < MaxMessages
    /\ used' = used + (IF tools THEN 1 ELSE 0)
    /\ Step(h, "streaming", [Goto(h, "finished") EXCEPT !.own = IF tools THEN used' ELSE Top])
    /\ UNCHANGED <<browser, prompts, rows, exists>>

(* What a run adds: the user's message, a message of its own id for a call   *)
(* of tools, and the answer, each the child of the one before.              *)
Added(h) ==
    LET call == handler[h]
        row(id, parent) == [id |-> id, parent |-> parent, run |-> call.answer]
    IN  <<row(call.user, call.parent)>> \o
        (IF call.own = Top THEN <<row(call.answer, call.user)>>
                           ELSE <<row(call.own, call.user), row(call.answer, call.own)>>)

(* Mutant: no unique index.                                                 *)
KeepRunTwice(h) ==
    /\ exists
    /\ Step(h, "finished", Goto(h, "kept"))
    /\ rows' = rows \o Added(h)
    /\ UNCHANGED <<browser, prompts, used, exists>>

(* The run and its messages are written in one transaction. An id that the   *)
(* conversation has (its user's message was kept) or a conversation deleted  *)
(* fails it.                                                                *)
KeepRun(h) ==
    /\ exists /\ handler[h].user \notin KeptIds
    /\ Step(h, "finished", Goto(h, "kept"))
    /\ rows' = rows \o Added(h)
    /\ UNCHANGED <<browser, prompts, used, exists>>

End(h) == handler' = [handler EXCEPT ![h] = Idle]

(* Mutant: the end of the run is forwarded before it is kept.               *)
SendFinishedFirst(h) ==
    /\ handler[h].pc \in {"finished", "kept"}
    /\ End(h)
    /\ complete' = IF handler[h].tab = Nobody THEN complete
                   ELSE [complete EXCEPT ![handler[h].tab] = @ \cup {handler[h].answer}]
    /\ UNCHANGED <<tree, head, prompts, used, rows, exists>>

(* The tab learns that the answer is complete.                              *)
SendFinished(h) ==
    /\ handler[h].pc = "kept"
    /\ End(h)
    /\ complete' = IF handler[h].tab = Nobody THEN complete
                   ELSE [complete EXCEPT ![handler[h].tab] = @ \cup {handler[h].answer}]
    /\ UNCHANGED <<tree, head, prompts, used, rows, exists>>

(* A guard that does not hold, a failing statement, agent or connection, or  *)
(* the tab's abort ends the call: the tab shows its answer as incomplete.    *)
Fail(h) ==
    /\ handler[h].pc # "idle"
    /\ End(h)
    /\ UNCHANGED <<browser, prompts, used, rows, exists>>

-----------------------------------------------------------------------------
ServeSend(h) ==
    \/ FindParent(h) \/ ListRuns(h) \/ KeepRun(h) \/ SendFinished(h) \/ Fail(h)
    \/ \E tools \in BOOLEAN : AgentFinishes(h, tools)

ThreadNext ==
    \/ \E t \in Tabs :
        \/ StopGenerating(t) \/ OpenThread(t) \/ DeleteConversation(t)
        \/ \E m \in Ids : PickBranch(t, m)
        \/ \E h \in Handlers : PostSome(t, h) \/ \E a \in Ids : Refresh(t, h, a)
    \/ \E h \in Handlers : ServeSend(h)

ThreadSpec == ThreadInit /\ [][ThreadNext]_threadVars

-----------------------------------------------------------------------------
(* Properties, of a conversation that is not deleted.                       *)

(* The agent is told the runs that made what the tab showed above the        *)
(* message, in that order, and all of it: whatever the tab edited, refreshed *)
(* or stopped, and whatever other tabs added meanwhile.                     *)
ToldIsShown ==
    \A h \in Handlers :
        exists /\ handler[h].pc \in {"streaming", "finished", "kept"} =>
            LET shown == handler[h].shown IN
            /\ ToSet(shown) \subseteq KeptIds
            /\ handler[h].told = Distinct([i \in DOMAIN shown |-> Row(shown[i]).run])

(* An answer shown as complete, and all that is shown above it, is still      *)
(* there after a reload.                                                    *)
CompleteIsKept ==
    exists => \A t \in Tabs : \A a \in complete[t] :
        ToSet(Path(tree[t], a)) \subseteq KeptIds

(* The messages are listed as the library imports them: no id twice, and a   *)
(* parent before its children.                                              *)
RowsAreATree ==
    \A i \in 1 .. Len(rows) :
        /\ \A j \in 1 .. i - 1 : rows[j].id # rows[i].id
        /\ rows[i].parent = Top \/ \E j \in 1 .. i - 1 : rows[j].id = rows[i].parent
=============================================================================
