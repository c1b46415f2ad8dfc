---------------------------- MODULE SpaceNotify ----------------------------
(***************************************************************************)
(* How the pages that have a space open learn of its messages:             *)
(*                                                                         *)
(*   SendSpaceMessage     backend/services/spaces/send-space-message.go    *)
(*   the listener and its dispatcher                                       *)
(*                        backend/messages/message-listener.go             *)
(*   the observer         backend/messages/message-observer.go             *)
(*   OpenSpace            backend/services/spaces/open-space.go            *)
(*   ListSpaceMessages    backend/services/spaces/list-space-messages.go   *)
(*   the page             web/src/components/spaces/SpaceView.tsx          *)
(*   its worker           web/src/components/spaces/spaceWorker.ts         *)
(*                                                                         *)
(* One space (one topic of the observer).  A list of its messages is       *)
(* abstracted to how many there are.  Postgres and the pq listener are     *)
(* modelled from their use: a committed pg_notify reaches the listener in  *)
(* order while it is connected, and a reconnection sends it a nil.         *)
(***************************************************************************)
EXTENDS Naturals, Sequences, Functions

CONSTANTS
  Pages,         \* pages that may open the space, one subscription each
  MayFail,       \* whether requests of the pages may fail
  MaxPosts,      \* bound: messages sent
  MaxDrops,      \* bound: times the listener's connection or its pod is lost
  MaxLoads       \* bound: loads a page has under way at once

ASSUME BoundsAssumption == MaxPosts \in Nat /\ MaxDrops \in Nat /\ MaxLoads \in Nat
ASSUME MayFailAssumption == MayFail \in BOOLEAN

VARIABLES
  posted,     \* messages in the database
  connected,  \* the listener's connection is up
  queue,      \* what the listener has for the dispatcher
  stream,     \* where each page's OpenSpace stands
  full,       \* the subscriptions whose channel holds a signal
  asked,      \* each page's ListSpaceMessages requests not yet served
  answers,    \* the lists on their way back to each page, by length
  shown,      \* the messages each page shows
  seen,       \* history: posted, when each page was last alerted
  drops       \* history: the connections lost

server == <<connected, queue, drops>>
page == <<asked, answers, shown>>
vars == <<posted, server, stream, full, seen, page>>

(* The subscriptions of the observer: "open" waits for a signal, "sending" *)
(* has taken one and has yet to send its alert, and "sent" has yet to go   *)
(* back to waiting.                                                        *)
Subscribed == {p \in Pages : stream[p] \in {"open", "sending", "sent"}}

NoAnswers == [n \in 0..MaxPosts |-> 0]

StreamGoto(p, s) == stream' = [stream EXCEPT ![p] = s]

(* A page starts to load the messages.  The loads under way are those      *)
(* asked for and those answered.                                           *)
Loads(p) == asked[p] + SumFunction(answers[p])
Ask(p) == /\ Loads(p) < MaxLoads
          /\ asked' = [asked EXCEPT ![p] = @ + 1]

-----------------------------------------------------------------------------
Init ==
  /\ posted = 0
  /\ connected = TRUE /\ queue = <<>> /\ drops = 0
  /\ stream = [p \in Pages |-> "closed"]
  /\ full = {}
  /\ seen = [p \in Pages |-> 0]
  /\ asked = [p \in Pages |-> 0]
  /\ answers = [p \in Pages |-> NoAnswers]
  /\ shown = [p \in Pages |-> 0]

-----------------------------------------------------------------------------
(* Sending a message *)

(* The transaction of SendSpaceMessage: the message and the notification   *)
(* become visible together.  The sender, if its response arrives, reloads. *)
Post(p) ==
  /\ stream[p] # "closed"
  /\ posted < MaxPosts
  /\ posted' = posted + 1
  /\ queue' = IF connected THEN Append(queue, "change") ELSE queue
  /\ \/ Ask(p)
     \/ MayFail /\ UNCHANGED asked
  /\ UNCHANGED <<connected, drops, stream, full, seen, answers, shown>>

-----------------------------------------------------------------------------
(* The listener and the observer *)

(* The connection is lost, with the notifications still in it.             *)
Drop ==
  /\ connected
  /\ drops < MaxDrops
  /\ drops' = drops + 1
  /\ connected' = FALSE
  /\ \E n \in 0..Len(queue) : queue' = SubSeq(queue, 1, n)
  /\ UNCHANGED <<posted, stream, full, seen, page>>

Reconnect ==
  /\ ~connected
  /\ connected' = TRUE
  /\ queue' = Append(queue, "nil")
  /\ UNCHANGED <<posted, drops, stream, full, seen, page>>

(* Signals on channels without a buffer, which only a waiting stream can   *)
(* take: a mutated form.                                                   *)
SignalUnbuffered == full \cup {p \in Pages : stream[p] = "open"}

(* Publish: a channel that is full already keeps its one signal.  The      *)
(* channels are signalled one after another under a read lock, which only  *)
(* a stream taking a signal can come between.                              *)
Signal == full \cup Subscribed

(* A dispatcher that waits for the next notification after a nil: a        *)
(* mutated form.                                                           *)
DispatchNoResync ==
  /\ queue # <<>>
  /\ queue' = Tail(queue)
  /\ full' = IF Head(queue) = "nil" THEN full ELSE Signal
  /\ UNCHANGED <<posted, connected, drops, stream, seen, page>>

(* DispatchNotifications: Publish for a change, ResyncAll for a nil, which *)
(* for the subscribers of one topic are the same.                          *)
Dispatch ==
  /\ queue # <<>>
  /\ queue' = Tail(queue)
  /\ full' = Signal
  /\ UNCHANGED <<posted, connected, drops, stream, seen, page>>

-----------------------------------------------------------------------------
(* A page's stream *)

(* The page is mounted: it loads the messages, and asks for a token to     *)
(* start its worker with.                                                  *)
Mount(p) ==
  /\ stream[p] = "closed"
  /\ StreamGoto(p, "starting")
  /\ Ask(p)
  /\ UNCHANGED <<posted, server, full, seen, answers, shown>>

(* The worker's OpenSpace request reaches the observer.                    *)
Subscribe(p) ==
  /\ stream[p] = "starting"
  /\ StreamGoto(p, "open")
  /\ seen' = [seen EXCEPT ![p] = posted]
  /\ UNCHANGED <<posted, server, full, page>>

Take(p) ==
  /\ stream[p] = "open"
  /\ p \in full
  /\ full' = full \ {p}
  /\ StreamGoto(p, "sending")
  /\ UNCHANGED <<posted, server, seen, page>>

(* The alert is sent, and the page reloads; or the stream is broken, which *)
(* ends the worker, and nothing starts another.                            *)
Send(p) ==
  /\ stream[p] = "sending"
  /\ \/ /\ StreamGoto(p, "sent")
        /\ seen' = [seen EXCEPT ![p] = posted]
        /\ Ask(p)
        /\ UNCHANGED full
     \/ /\ MayFail
        /\ StreamGoto(p, "ended")
        /\ full' = full \ {p}
        /\ UNCHANGED <<seen, asked>>
  /\ UNCHANGED <<posted, server, answers, shown>>

Wait(p) ==
  /\ stream[p] = "sent"
  /\ StreamGoto(p, "open")
  /\ UNCHANGED <<posted, server, full, seen, page>>

(* The page is left: its worker is terminated, its stream unsubscribed and *)
(* its responses ignored.                                                  *)
Unmount(p) ==
  /\ stream[p] # "closed"
  /\ StreamGoto(p, "closed")
  /\ full' = full \ {p}
  /\ asked' = [asked EXCEPT ![p] = 0]
  /\ answers' = [answers EXCEPT ![p] = NoAnswers]
  /\ shown' = [shown EXCEPT ![p] = 0]
  /\ UNCHANGED <<posted, server, seen>>

(* The pod is replaced: its streams break, and a new listener connects.    *)
PodRolls ==
  /\ MayFail
  /\ drops < MaxDrops
  /\ drops' = drops + 1
  /\ connected' = TRUE /\ queue' = <<>>
  /\ stream' = [p \in Pages |-> IF p \in Subscribed THEN "ended" ELSE stream[p]]
  /\ full' = {}
  /\ UNCHANGED <<posted, seen, page>>

-----------------------------------------------------------------------------
(* A page's loads, any number of which may be under way *)

(* ListSpaceMessages reads the messages, or fails.                         *)
Serve(p) ==
  /\ asked[p] > 0
  /\ asked' = [asked EXCEPT ![p] = @ - 1]
  /\ \/ answers' = [answers EXCEPT ![p][posted] = @ + 1]
     \/ MayFail /\ UNCHANGED answers
  /\ UNCHANGED <<posted, server, stream, full, seen, shown>>

(* A list arrives and is shown, whichever request it answers.              *)
Show(p) ==
  /\ \E n \in 0..MaxPosts :
       /\ answers[p][n] > 0
       /\ answers' = [answers EXCEPT ![p][n] = @ - 1]
       /\ shown' = [shown EXCEPT ![p] = n]
  /\ UNCHANGED <<posted, server, stream, full, seen, asked>>

PageStep(p) == \/ Post(p) \/ Mount(p) \/ Subscribe(p) \/ Take(p) \/ Send(p)
               \/ Wait(p) \/ Unmount(p) \/ Serve(p) \/ Show(p)

Next ==
  \/ \E p \in Pages : PageStep(p)
  \/ Drop \/ Reconnect \/ Dispatch \/ PodRolls

(* The listener reconnects, the dispatcher and the streams run, and every  *)
(* request is served and answered.                                         *)
Fairness ==
  /\ WF_vars(Reconnect) /\ WF_vars(Dispatch)
  /\ \A p \in Pages : /\ WF_vars(Subscribe(p)) /\ WF_vars(Take(p)) /\ WF_vars(Send(p))
                      /\ WF_vars(Wait(p)) /\ WF_vars(Serve(p)) /\ WF_vars(Show(p))

Spec == Init /\ [][Next]_vars
FairSpec == Spec /\ Fairness

-----------------------------------------------------------------------------
(* Type invariant of the observer, the listener and the pages              *)
(* (message-observer.go, SpaceView.tsx): only a subscription holds a       *)
(* signal.                                                                 *)
TypeOK ==
  /\ posted \in 0..MaxPosts
  /\ connected \in BOOLEAN
  /\ queue \in Seq({"change", "nil"})
  /\ drops \in 0..MaxDrops
  /\ stream \in [Pages -> {"closed", "starting", "open", "sending", "sent", "ended"}]
  /\ full \subseteq Subscribed
  /\ seen \in [Pages -> 0..MaxPosts]
  /\ asked \in [Pages -> Nat]
  /\ answers \in [Pages -> [0..MaxPosts -> Nat]]
  /\ shown \in [Pages -> 0..MaxPosts]

(* No change is lost between the database and a subscribed stream: while a *)
(* stream has not alerted its page of a message sent after it subscribed,  *)
(* a wake-up is under way: in its channel, which holds only one signal, in *)
(* its hands, in the listener's queue, or in a reconnection to come.       *)
NoChangeLost ==
  \A p \in Subscribed :
    seen[p] < posted =>
      p \in full \/ stream[p] = "sending" \/ queue # <<>> \/ ~connected

(* The promise of SpaceAlerts, with its fairness: the subscriptions are    *)
(* the pages that have the space open.                                     *)
Alerts == INSTANCE SpaceAlerts WITH open <- Subscribed
KeepsPromise == Alerts!FairSpec
=============================================================================
