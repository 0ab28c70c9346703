----------------------------- MODULE QueueFeed -----------------------------
(***************************************************************************)
(* How a client learns of changes of its queue: QueueNotifier, the event   *)
(* and the cache that the execution queue notifies, the WebSocket handlers *)
(* that sleep on the event, and the polls that share the cache.            *)
(*                                                                         *)
(* The state of the queue is the number of committed changes.  enqueue     *)
(* notifies after its commit, every other operation of the queue between   *)
(* its flush and the commit of its session, and the sessions of ranking    *)
(* runs never.                                                             *)
(***************************************************************************)
EXTENDS Naturals

CONSTANTS
  Changes,   \* sessions that change the queue
  Watchers,  \* WebSocket connections of the user
  Nothing

VARIABLES
  committed,   \* changes committed to the tables
  change,      \* [Changes -> where the session is]
  feed,        \* [Watchers -> [at, read, shown, heard, last]]; last: how its last fetch ended
  event,       \* asyncio.Event
  statusCache, \* the user's entry: [shows, fresh], or Nothing
  poll,        \* what the GET /queue in flight has read, or Nothing
  notices,     \* history: calls of notify
  announced    \* history: the last change that was committed before its notice

feedVars == <<committed, change, feed, event, statusCache, poll, notices, announced>>
clientVars == <<poll, announced>>

-----------------------------------------------------------------------------
(* QueueNotifier and the sessions that call it                             *)

(* set wakes every handler that waits now, and the cache is dropped.       *)
Notify ==
  /\ event' = TRUE
  /\ statusCache' = Nothing
  /\ notices' = notices + 1
  /\ feed' = [w \in Watchers |->
       IF feed[w].at = "asleep" THEN [feed[w] EXCEPT !.at = "fetching", !.heard = 0] ELSE feed[w]]

Moves(c, from, to) == change[c] = from /\ change' = [change EXCEPT ![c] = to]

(* enqueue commits, then notifies.                                         *)
CommitEnqueue(c) ==
  /\ Moves(c, "idle", "committed")
  /\ committed' = committed + 1
  /\ UNCHANGED <<feed, event, statusCache, notices, clientVars>>
NotifyEnqueued(c) ==
  /\ Moves(c, "committed", "over")
  /\ Notify
  /\ announced' = committed
  /\ UNCHANGED <<committed, poll>>

(* Any other operation flushes and notifies; its session commits later, or *)
(* rolls back.                                                             *)
FlushAndNotify(c) ==
  /\ Moves(c, "idle", "flushed")
  /\ Notify
  /\ UNCHANGED <<committed, clientVars>>
EndSession(c) ==
  /\ Moves(c, "flushed", "over")
  /\ committed' \in {committed, committed + 1}
  /\ UNCHANGED <<feed, event, statusCache, notices, clientVars>>

CommitSilently(c) ==
  /\ Moves(c, "idle", "over")
  /\ committed' = committed + 1
  /\ UNCHANGED <<feed, event, statusCache, notices, clientVars>>

-----------------------------------------------------------------------------
(* queue_websocket                                                         *)

Disconnected == [at |-> "away", read |-> 0, shown |-> Nothing, heard |-> 0, last |-> "none"]
Closed == [Disconnected EXCEPT !.at = "closed"]

Connect(w) ==
  /\ feed[w].at = "away"
  /\ feed' = [feed EXCEPT ![w].at = "fetching"]
  /\ UNCHANGED <<committed, change, event, statusCache, notices, clientVars>>

(* Mutant of Fetched: the handlers read what the polls cached.             *)
FetchedFromCache(w) == IF statusCache = Nothing THEN committed ELSE statusCache.shows

Fetched(w) == committed
Fetch(w) ==
  /\ feed[w].at = "fetching"
  /\ feed' = [feed EXCEPT ![w].at = "fetched", ![w].read = Fetched(w), ![w].heard = notices]
  /\ UNCHANGED <<committed, change, event, statusCache, notices, clientVars>>

(* wait_for_change clears the event before it waits, so it always waits.   *)
Asleep(w, entry) ==
  /\ event' = FALSE
  /\ feed' = [feed EXCEPT ![w] = [entry EXCEPT !.at = "asleep", !.read = 0]]
Send(w) ==
  /\ feed[w].at = "fetched"
  /\ Asleep(w, [feed[w] EXCEPT !.shown = feed[w].read, !.last = "sent"])
  /\ UNCHANGED <<committed, change, statusCache, notices, clientVars>>

(* A failed fetch ends the handler the first time, and later waits for the *)
(* next change.                                                            *)
FetchFails(w) ==
  /\ feed[w].at = "fetching"
  /\ IF feed[w].shown = Nothing
     THEN feed' = [feed EXCEPT ![w] = Closed] /\ UNCHANGED event
     ELSE Asleep(w, [feed[w] EXCEPT !.last = "failed"])
  /\ UNCHANGED <<committed, change, statusCache, notices, clientVars>>

(* A send to a client that is gone closes the handler.                     *)
SendFails(w) ==
  /\ feed[w].at = "fetched"
  /\ feed' = [feed EXCEPT ![w] = Closed]
  /\ UNCHANGED <<committed, change, event, statusCache, notices, clientVars>>

-----------------------------------------------------------------------------
(* GET /orchestrator/queue                                                 *)

Cached == IF statusCache = Nothing THEN FALSE ELSE statusCache.fresh

PollReads ==
  /\ poll = Nothing /\ ~Cached
  /\ poll' = committed
  /\ statusCache' = Nothing
  /\ UNCHANGED <<committed, change, feed, event, notices, announced>>
PollStores ==
  /\ poll # Nothing
  /\ statusCache' = [shows |-> poll, fresh |-> TRUE]
  /\ poll' = Nothing
  /\ UNCHANGED <<committed, change, feed, event, notices, announced>>

(* The second for which an entry is fresh passes.                          *)
CacheAges ==
  /\ Cached
  /\ statusCache' = [statusCache EXCEPT !.fresh = FALSE]
  /\ UNCHANGED <<committed, change, feed, event, notices, clientVars>>

FeedInit ==
  /\ committed = 0 /\ change = [c \in Changes |-> "idle"]
  /\ feed = [w \in Watchers |-> Disconnected]
  /\ event = FALSE /\ statusCache = Nothing /\ poll = Nothing
  /\ notices = 0 /\ announced = 0

FeedNext ==
  \/ \E c \in Changes : \/ CommitEnqueue(c) \/ NotifyEnqueued(c)
                        \/ FlushAndNotify(c) \/ EndSession(c) \/ CommitSilently(c)
  \/ \E w \in Watchers : Connect(w) \/ Fetch(w) \/ Send(w) \/ FetchFails(w) \/ SendFails(w)
  \/ PollReads \/ PollStores \/ CacheAges

FeedSpec == FeedInit /\ [][FeedNext]_feedVars

-----------------------------------------------------------------------------
(* Properties                                                              *)

(* A client whose handler sleeps has been shown every change that was      *)
(* committed before its notice, unless a fetch failed or a notice came     *)
(* between the handler's last fetch and its sleep.                         *)
SleepersAreCurrent ==
  \A w \in Watchers :
    feed[w].at = "asleep" /\ feed[w].last = "sent" /\ feed[w].heard = notices
    => announced <= feed[w].shown

(* "Returns immediately if a notification arrived while we weren't waiting *)
(* (e.g. during the previous fetch + send cycle), ensuring we never miss   *)
(* an update": no handler sleeps over a notice that came after its fetch.  *)
NoNoticeIsMissed ==
  \A w \in Watchers :
    feed[w].at = "asleep" /\ feed[w].last = "sent" => feed[w].heard = notices
=============================================================================
