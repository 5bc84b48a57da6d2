-------------------------- MODULE RabbitMQConnection --------------------------
(***************************************************************************)
(* The singleton connection to RabbitMQ of a worker process and the        *)
(* threads that publish over it: get_channel under its lock, with          *)
(* reconnection, then basic_publish outside the lock.  A member of Calls   *)
(* is one call of RabbitMQBookingPublisher._publish, in a thread of its    *)
(* own, about one event.                                                   *)
(*                                                                         *)
(* pika's connections are numbered by the dials that succeeded.  Each has  *)
(* one channel, known by the number of its connection.  pika notices that  *)
(* a link is gone only while a call does input or output on it, so a       *)
(* severed connection is still `open` until then.                          *)
(***************************************************************************)
EXTENDS Naturals, FiniteSets

CONSTANTS Calls,
          MaxRetries,  \* attempts of one get_channel
          MaxFaults    \* bound on failures of the network and the broker

ASSUME ConnectionAssumption == MaxRetries \in Nat \ {0} /\ MaxFaults \in Nat

VARIABLES holder,        \* the thread that holds _lock, a set of at most one
          connection,    \* _connection, 0 for None
          channel,       \* _channel, 0 for None
          open,          \* connections with is_open
          openChannels,  \* channels with is_open
          severed,       \* connections whose link is gone
          call,          \* where a publish call is
          attempt,       \* passes of the holder through the loop of get_channel
          mine,          \* the channel it was handed
          racing,        \* calls in basic_publish on a channel another was in
          faults,        \* failures so far
          hit,           \* history: calls that met a failure or a race
          declared       \* history: connections with exchange_declare answered

historyVars == <<hit, declared>>
rabbitVars == <<holder, connection, channel, open, openChannels, severed, call,
                attempt, mine, racing, faults, historyVars>>

Over == {"sent", "lost"}
InProgress == {c \in Calls : call[c] \notin {"idle"} \cup Over}
Publishing == {c \in Calls : call[c] = "publishing"}

RabbitTypeOK ==
  /\ holder \subseteq Calls /\ \A c, d \in holder : c = d
  /\ connection \in Nat /\ channel \in Nat /\ channel <= connection
  /\ open \subseteq 1..connection /\ openChannels \subseteq open
  /\ severed \subseteq open
  /\ call \in [Calls -> {"idle", "waiting", "trying", "dialled", "opened", "sleeping",
                         "leaving", "ready", "publishing"} \cup Over]
  /\ attempt \in 0..MaxRetries /\ mine \in [Calls -> 0..channel]
  /\ racing \subseteq Calls /\ hit \subseteq Calls /\ faults \in 0..MaxFaults
  /\ declared \subseteq 1..channel

RabbitInit == /\ holder = {} /\ connection = 0 /\ channel = 0
              /\ open = {} /\ openChannels = {} /\ severed = {}
              /\ call = [c \in Calls |-> "idle"]
              /\ attempt = 0
              /\ mine = [c \in Calls |-> 0]
              /\ racing = {} /\ faults = 0 /\ hit = {} /\ declared = {}

CallGoesTo(c, place) == call' = [call EXCEPT ![c] = place]

\* The link of connection k is gone, and nobody knows.
Stale(k) == k \in severed

-----------------------------------------------------------------------------
(* What happens to the link.                                               *)

\* Whoever is in progress may suffer from it.
Failure == /\ faults < MaxFaults /\ faults' = faults + 1
           /\ hit' = hit \cup InProgress /\ UNCHANGED declared

\* The network or the broker goes away.
LinkLost == /\ Failure
            /\ connection \in open \ severed
            /\ severed' = severed \cup {connection}
            /\ UNCHANGED <<holder, connection, channel, open, openChannels, call,
                           attempt, mine, racing>>

\* heartbeat=60, and no thread of the worker serves the connection between two
\* publishes: after a quiet period the broker hangs up, no failure needed.
HeartbeatMissed == /\ InProgress = {}
                   /\ connection \in open \ severed
                   /\ severed' = severed \cup {connection}
                   /\ UNCHANGED <<holder, connection, channel, open, openChannels, call,
                                  attempt, mine, racing, faults, historyVars>>

\* pika marks a connection, and the channel on it, as closed; from then on the
\* link does not matter.
Closed(k) == /\ open' = open \ {k} /\ openChannels' = openChannels \ {k}
             /\ severed' = severed \ {k}

-----------------------------------------------------------------------------
(* get_channel                                                             *)

\* A plausible slip: the channel not looked at.
IsConnectedOnly == connection \in open

\* A plausible slip: the references looked at, and not their is_open.
IsConnectedOnce == connection # 0 /\ channel # 0

\* _is_connected
IsConnected == connection \in open /\ channel \in openChannels

\* _publish calls get_rabbitmq_channel, whose first step is the lock.
Enter(c) == /\ call[c] = "idle"
            /\ CallGoesTo(c, "waiting")
            /\ hit' = IF Stale(connection) THEN hit \cup {c} ELSE hit
            /\ UNCHANGED <<holder, connection, channel, open, openChannels, severed,
                           attempt, mine, racing, faults, declared>>

\* A plausible slip: no lock.
AcquireAnyway(c) == /\ call[c] = "waiting"
                    /\ holder' = holder \cup {c}
                    /\ CallGoesTo(c, "trying")
                    /\ UNCHANGED <<connection, channel, open, openChannels, severed, attempt,
                                   mine, racing, faults, historyVars>>

\* with self._lock
Acquire(c) == /\ call[c] = "waiting" /\ holder = {}
              /\ holder' = {c}
              /\ CallGoesTo(c, "trying")
              /\ UNCHANGED <<connection, channel, open, openChannels, severed, attempt,
                             mine, racing, faults, historyVars>>

\* _is_connected() is true as of its last read.  Threads that publish hold no lock:
\* one of them may close the channel before it is returned.
Check(c) == /\ call[c] = "trying" /\ IsConnected
            /\ CallGoesTo(c, "leaving")
            /\ UNCHANGED <<holder, connection, channel, open, openChannels, severed, attempt,
                           mine, racing, faults, historyVars>>

\* return self._channel, out of the with block
Return(c) == /\ call[c] = "leaving"
             /\ holder' = holder \ {c} /\ attempt' = 0
             /\ mine' = [mine EXCEPT ![c] = channel]
             /\ CallGoesTo(c, "ready")
             /\ UNCHANGED <<connection, channel, open, openChannels, severed, racing,
                            faults, historyVars>>

\* _connect: pika.BlockingConnection, assigned before anything else is done
Dial(c) == /\ call[c] = "trying" /\ ~IsConnected
           /\ connection' = connection + 1
           /\ open' = open \cup {connection'}
           /\ CallGoesTo(c, "dialled")
           /\ UNCHANGED <<holder, channel, openChannels, severed, attempt, mine, racing,
                          faults, historyVars>>

\* _connect: connection.channel()
OpenChannel(c) == /\ call[c] = "dialled" /\ connection \notin severed
                  /\ channel' = connection
                  /\ openChannels' = openChannels \cup {connection}
                  /\ CallGoesTo(c, "opened")
                  /\ UNCHANGED <<holder, connection, open, severed, attempt, mine, racing,
                                 faults, historyVars>>

\* _connect: exchange_declare, which waits for the broker's answer
Declare(c) == /\ call[c] = "opened" /\ connection \notin severed
              /\ declared' = declared \cup {connection}
              /\ CallGoesTo(c, "leaving")
              /\ UNCHANGED <<holder, connection, channel, open, openChannels, severed,
                             attempt, mine, racing, faults, hit>>

\* A plausible slip: acquire() and release() in place of the with block, so that
\* an exception leaves the lock taken.
RaiseWithLock(c) == UNCHANGED holder /\ attempt' = 0 /\ CallGoesTo(c, "lost")

\* An exception leaves the with block; _publish logs it, and the event is lost.
Raise(c) == holder' = holder \ {c} /\ attempt' = 0 /\ CallGoesTo(c, "lost")

\* The except clause of the loop: sleep, lock in hand, or the RuntimeError.
Retry(c) == \/ /\ attempt + 1 < MaxRetries
               /\ attempt' = attempt + 1
               /\ CallGoesTo(c, "sleeping")
               /\ UNCHANGED holder
            \/ attempt + 1 = MaxRetries /\ Raise(c)

\* AMQPConnectionError out of _connect
ConnectFails(c) ==
  /\ \/ /\ call[c] = "trying" /\ ~IsConnected
        /\ Failure /\ UNCHANGED <<open, openChannels, severed>>
     \/ /\ call[c] \in {"dialled", "opened"} /\ connection \in severed
        /\ Closed(connection) /\ UNCHANGED <<faults, historyVars>>
  /\ Retry(c)
  /\ UNCHANGED <<connection, channel, mine, racing>>

Wake(c) == /\ call[c] = "sleeping"
           /\ CallGoesTo(c, "trying")
           /\ UNCHANGED <<holder, connection, channel, open, openChannels, severed,
                          attempt, mine, racing, faults, historyVars>>

\* The broker answers exchange_declare by closing the channel: not an
\* AMQPConnectionError, so no retry, and the connection stays open.
DeclareRefused(c) ==
  /\ call[c] = "opened" /\ connection \notin severed
  /\ Failure
  /\ openChannels' = openChannels \ {connection}
  /\ Raise(c)
  /\ UNCHANGED <<connection, channel, open, severed, mine, racing>>

-----------------------------------------------------------------------------
(* basic_publish, with no lock held.                                       *)

BeginPublish(c) ==
  /\ call[c] = "ready"
  /\ LET others == {d \in Publishing : mine[d] = mine[c]}
         all == IF others = {} THEN {} ELSE others \cup {c}
     IN racing' = racing \cup all /\ hit' = hit \cup all
  /\ CallGoesTo(c, "publishing")
  /\ UNCHANGED <<holder, connection, channel, open, openChannels, severed, attempt,
                 mine, faults, declared>>

\* The call ends with this fate.
EndPublish(c, fate) == /\ call[c] = "publishing"
                       /\ CallGoesTo(c, fate)
                       /\ racing' = racing \ {c}
                       /\ mine' = [mine EXCEPT ![c] = 0]
                       /\ UNCHANGED <<holder, connection, channel, attempt>>

Delivered(c) == /\ mine[c] \in openChannels \ severed
                /\ EndPublish(c, "sent")
                /\ UNCHANGED <<open, openChannels, severed, faults, historyVars>>

\* ChannelWrongStateError: the channel was closed since get_channel checked it.
ChannelClosed(c) == /\ mine[c] \notin openChannels
                    /\ EndPublish(c, "lost")
                    /\ UNCHANGED <<open, openChannels, severed, faults, historyVars>>

\* The frames go to a link that is gone.  There are no publisher confirms: the
\* call may return as if they had arrived, or pika notices and raises.
SentIntoTheVoid(c) == /\ Stale(mine[c])
                      /\ EndPublish(c, "lost")
                      /\ Closed(mine[c]) \/ UNCHANGED <<open, openChannels, severed>>
                      /\ UNCHANGED <<faults, historyVars>>

\* The broker blocks the connection for too long, or the link breaks just now.
PublishFails(c) == /\ mine[c] \in openChannels \ severed
                   /\ Failure
                   /\ EndPublish(c, "lost")
                   /\ Closed(mine[c])

\* pika's connections are not for use by two threads at once.  Whatever the code
\* does then: besides Delivered, an event may be lost, the connection be closed
\* under everybody, or the broker hang up on frames it cannot read.
RaceLoses(c) == /\ c \in racing
                /\ EndPublish(c, "lost")
                /\ \/ UNCHANGED <<open, openChannels, severed>>
                   \/ Closed(mine[c])
                   \/ /\ mine[c] \in open
                      /\ severed' = severed \cup {mine[c]} /\ UNCHANGED <<open, openChannels>>
                /\ hit' = hit \cup InProgress
                /\ UNCHANGED <<faults, declared>>

-----------------------------------------------------------------------------
\* close: nothing to do for a connection that is not open.
CloseConnection == /\ holder = {}
                   /\ Closed(connection)
                   /\ UNCHANGED <<holder, connection, channel, call, attempt, mine,
                                  racing, faults, historyVars>>

\* What a call does by itself; the lock is waited for.
CallProceeds(c) ==
  \/ Acquire(c) \/ Check(c) \/ Dial(c) \/ OpenChannel(c) \/ Declare(c) \/ Return(c)
  \/ ConnectFails(c) \/ Wake(c)
  \/ BeginPublish(c) \/ Delivered(c) \/ ChannelClosed(c) \/ SentIntoTheVoid(c)

CallSuffers(c) == DeclareRefused(c) \/ PublishFails(c) \/ RaceLoses(c)

RabbitNext == \/ LinkLost \/ HeartbeatMissed
              \/ \E c \in Calls : Enter(c) \/ CallProceeds(c) \/ CallSuffers(c)

RabbitSpec == RabbitInit /\ [][RabbitNext]_rabbitVars

-----------------------------------------------------------------------------
\* "Thread-safe RabbitMQ connection wrapper": no two threads are on one channel.
ChannelUsedByOne ==
  \A c, d \in Publishing : mine[c] = mine[d] => c = d

\* An event is lost only to a call that a failure, a race or a link nobody knew
\* to be gone met on its way: once a broken connection has been noticed, the next
\* call gets a new one, and no call inherits the channel another one lost.
LossIsExplained == \A c \in Calls : call[c] = "lost" => c \in hit

\* Nobody publishes over a connection whose exchange_declare was not answered: what
\* _connect left half made when it raised is never handed out.
PublishesOnDeclared ==
  \A c \in Calls : call[c] \in {"ready", "publishing"} => mine[c] \in declared

-----------------------------------------------------------------------------
(* Why LossIsExplained and PublishesOnDeclared hold, as an inductive invariant.  *)

\* Whoever is in get_channel beyond its first line holds the lock.
LockIsHeld ==
  \A c \in Calls : c \in holder <=> call[c] \in {"trying", "dialled", "opened", "sleeping",
                                               "leaving"}

\* A connection has its channel, unless its holder is still making it; until it is
\* made, nobody has been handed its channel.
ChannelIsCurrent ==
  /\ connection \in open /\ channel # connection => \E c \in Calls : call[c] = "dialled"
  /\ \A c \in Calls :
       /\ call[c] \in {"dialled", "opened"} => connection \in open
       /\ call[c] = "dialled" => channel # connection
       /\ call[c] = "opened" => /\ channel = connection /\ connection \in openChannels
                                /\ \A d \in Calls : mine[d] # connection

\* A call in progress on a link that is gone, or on a closed channel, is a call in hit.
BrokenIsKnown ==
  \A c \in Calls :
    /\ c \in InProgress /\ connection \in severed => c \in hit
    /\ call[c] = "leaving" /\ channel \notin openChannels \ severed => c \in hit
    /\ call[c] \in {"ready", "publishing"} /\ mine[c] \notin openChannels \ severed => c \in hit

\* An open channel without its exchange is one whose holder is still in _connect.
HalfMadeIsHeld ==
  /\ channel \in openChannels \ declared => \E c \in Calls : call[c] = "opened"
  /\ \A c \in Calls : call[c] = "leaving" => channel \in declared

RabbitInv == /\ RabbitTypeOK /\ LockIsHeld /\ ChannelIsCurrent
             /\ BrokenIsKnown /\ LossIsExplained
             /\ HalfMadeIsHeld /\ PublishesOnDeclared
=============================================================================
