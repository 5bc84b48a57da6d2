------------------------ MODULE WorkerProcess_proofs ------------------------
(***************************************************************************)
(* Why nothing of a worker is leaked or handed out half made, and why no   *)
(* event is lost but to a failure, a race or a dead link, for any numbers  *)
(* of requests, threads, connections, retries and failures.                *)
(*                                                                         *)
(* The first half is about the RabbitMQ connection alone: RabbitInv is     *)
(* inductive.  Its heart is BrokenIsKnown.  A link can only break in       *)
(* LinkLost, PublishFails and RaceLoses, which put everyone in progress    *)
(* into hit, or in HeartbeatMissed, when nobody is in progress; so whoever *)
(* is on a broken channel later either was there, or was given it by a     *)
(* holder that was there.  The second half is about the pools of the       *)
(* worker.                                                                 *)
(***************************************************************************)
EXTENDS WorkerProcess, FiniteSetTheorems, TLAPS

Getting == {"trying", "dialled", "opened", "sleeping", "leaving"}

\* Who holds the lock is alone in get_channel.
LEMMA OneHolder ==
  ASSUME RabbitTypeOK, LockIsHeld, NEW c \in Calls, NEW d \in Calls,
         call[c] \in Getting, call[d] \in Getting
  PROVE  c = d /\ holder = {c}
BY DEF RabbitTypeOK, LockIsHeld, Getting

\* A connection that is open has its channel when its holder looks at it.
LEMMA OpenHasChannel ==
  ASSUME RabbitInv, NEW c \in Calls, call[c] = "trying", connection \in open
  PROVE  channel = connection
<1>1. \A d \in Calls : call[d] # "dialled"
  BY OneHolder DEF Getting, RabbitInv
<1> QED BY <1>1 DEF RabbitInv, ChannelIsCurrent

LEMMA RabbitInitInv == RabbitInit => RabbitInv
BY ConnectionAssumption
   DEF RabbitInit, RabbitInv, RabbitTypeOK, LockIsHeld, ChannelIsCurrent, BrokenIsKnown,
       LossIsExplained, HalfMadeIsHeld, PublishesOnDeclared, InProgress, Over,
       ConnectionAssumption

-----------------------------------------------------------------------------
\* What RabbitInv says is a matter of the variables it reads.
LEMMA RabbitStutters == RabbitInv /\ UNCHANGED rabbitVars => RabbitInv'
BY DEF rabbitVars, historyVars, RabbitInv, RabbitTypeOK, LockIsHeld, ChannelIsCurrent,
       BrokenIsKnown, LossIsExplained, HalfMadeIsHeld, PublishesOnDeclared, InProgress, Over

\* Failures elsewhere in the worker count too.
LEMMA RabbitElsewhere ==
  ASSUME RabbitInv, faults' \in 0..MaxFaults,
         UNCHANGED <<holder, connection, channel, open, openChannels, severed, call,
                     attempt, mine, racing, historyVars>>
  PROVE  RabbitInv'
BY DEF RabbitInv, RabbitTypeOK, LockIsHeld, ChannelIsCurrent, BrokenIsKnown,
       LossIsExplained, HalfMadeIsHeld, PublishesOnDeclared, InProgress, Over, historyVars

LEMMA LinkKeeps ==
  ASSUME RabbitInv, LinkLost \/ HeartbeatMissed PROVE RabbitInv'
<1>1. /\ RabbitTypeOK' /\ LockIsHeld' /\ ChannelIsCurrent'
      /\ HalfMadeIsHeld' /\ PublishesOnDeclared'
  <2>1. UNCHANGED <<holder, connection, channel, open, openChannels, call, attempt, mine,
                    racing, declared>>
    BY DEF LinkLost, HeartbeatMissed, Failure, historyVars
  <2>2. severed' \subseteq open
    BY DEF RabbitInv, RabbitTypeOK, LinkLost, HeartbeatMissed
  <2>3. hit' \subseteq Calls /\ faults' \in 0..MaxFaults
    BY ConnectionAssumption
       DEF RabbitInv, RabbitTypeOK, LinkLost, HeartbeatMissed, Failure, InProgress,
           ConnectionAssumption, historyVars
  <2> QED BY <2>1, <2>2, <2>3
      DEF RabbitInv, RabbitTypeOK, LockIsHeld, ChannelIsCurrent, HalfMadeIsHeld,
          PublishesOnDeclared, Over
<1>2. BrokenIsKnown' /\ LossIsExplained'
  <2>1. CASE LinkLost
    BY <2>1 DEF RabbitInv, LinkLost, Failure, RabbitTypeOK, BrokenIsKnown,
                LossIsExplained, InProgress, Over
  <2>2. CASE HeartbeatMissed
    <3>1. \A d \in Calls : call'[d] = call[d] /\ call[d] \in {"idle"} \cup Over
      BY <2>2 DEF HeartbeatMissed, InProgress
    <3> QED BY <2>2, <3>1 DEF RabbitInv, HeartbeatMissed, BrokenIsKnown, LossIsExplained,
                              InProgress, Over, historyVars
  <2> QED BY <2>1, <2>2
<1> QED BY <1>1, <1>2 DEF RabbitInv

LEMMA EnterKeeps ==
  ASSUME RabbitInv, NEW c \in Calls, Enter(c) PROVE RabbitInv'
BY DEF RabbitInv, Enter, CallGoesTo, Stale, RabbitTypeOK, LockIsHeld, ChannelIsCurrent,
       BrokenIsKnown, LossIsExplained, HalfMadeIsHeld, PublishesOnDeclared, InProgress,
       Over, historyVars

LEMMA AcquireKeeps ==
  ASSUME RabbitInv, NEW c \in Calls, Acquire(c) PROVE RabbitInv'
BY DEF RabbitInv, Acquire, CallGoesTo, RabbitTypeOK, LockIsHeld, ChannelIsCurrent,
       BrokenIsKnown, LossIsExplained, HalfMadeIsHeld, PublishesOnDeclared, InProgress,
       Over, historyVars

LEMMA WakeKeeps ==
  ASSUME RabbitInv, NEW c \in Calls, Wake(c) PROVE RabbitInv'
BY DEF RabbitInv, Wake, CallGoesTo, RabbitTypeOK, LockIsHeld, ChannelIsCurrent,
       BrokenIsKnown, LossIsExplained, HalfMadeIsHeld, PublishesOnDeclared, InProgress,
       Over, historyVars

LEMMA CheckKeeps ==
  ASSUME RabbitInv, NEW c \in Calls, Check(c) PROVE RabbitInv'
<1>1. channel = connection
  BY OpenHasChannel DEF Check, IsConnected
<1>2. \A d \in Calls : d # c => call[d] \notin Getting
  BY OneHolder DEF Check, Getting, RabbitInv
<1>3. RabbitTypeOK' /\ LockIsHeld' /\ ChannelIsCurrent'
  BY <1>1, <1>2 DEF RabbitInv, Check, CallGoesTo, RabbitTypeOK, LockIsHeld,
                    ChannelIsCurrent, Getting, historyVars
<1>4. BrokenIsKnown' /\ LossIsExplained'
  BY <1>1 DEF RabbitInv, Check, IsConnected, CallGoesTo, RabbitTypeOK, BrokenIsKnown,
              LossIsExplained, InProgress, Over, historyVars
<1>5. channel \in declared
  BY <1>1, <1>2 DEF RabbitInv, HalfMadeIsHeld, Check, IsConnected, Getting
<1>6. HalfMadeIsHeld' /\ PublishesOnDeclared'
  BY <1>5 DEF RabbitInv, Check, CallGoesTo, RabbitTypeOK, HalfMadeIsHeld,
              PublishesOnDeclared, historyVars
<1> QED BY <1>3, <1>4, <1>6 DEF RabbitInv

LEMMA ReturnKeeps ==
  ASSUME RabbitInv, NEW c \in Calls, Return(c) PROVE RabbitInv'
<1>1. \A d \in Calls : d # c => call[d] \notin Getting
  BY OneHolder DEF Return, Getting, RabbitInv
<1>2. RabbitTypeOK'
  BY ConnectionAssumption
     DEF RabbitInv, Return, CallGoesTo, RabbitTypeOK, ConnectionAssumption, historyVars
<1>3. LockIsHeld' /\ ChannelIsCurrent'
  BY <1>1 DEF RabbitInv, Return, CallGoesTo, RabbitTypeOK, LockIsHeld, ChannelIsCurrent,
              Getting
<1>4. BrokenIsKnown' /\ LossIsExplained'
  BY DEF RabbitInv, Return, CallGoesTo, RabbitTypeOK, BrokenIsKnown, LossIsExplained,
         InProgress, Over, historyVars
<1>5. HalfMadeIsHeld' /\ PublishesOnDeclared'
  BY DEF RabbitInv, Return, CallGoesTo, RabbitTypeOK, HalfMadeIsHeld, PublishesOnDeclared,
         historyVars
<1> QED BY <1>2, <1>3, <1>4, <1>5 DEF RabbitInv

LEMMA DialKeeps ==
  ASSUME RabbitInv, NEW c \in Calls, Dial(c) PROVE RabbitInv'
<1>1. \A d \in Calls : d # c => call[d] \notin Getting
  BY OneHolder DEF Dial, Getting, RabbitInv
<1>2. RabbitTypeOK'
  BY DEF RabbitInv, Dial, CallGoesTo, RabbitTypeOK, historyVars
<1>3. LockIsHeld' /\ ChannelIsCurrent'
  BY <1>1 DEF RabbitInv, Dial, CallGoesTo, RabbitTypeOK, LockIsHeld, ChannelIsCurrent,
              Getting
<1>4. BrokenIsKnown' /\ LossIsExplained'
  BY DEF RabbitInv, Dial, CallGoesTo, RabbitTypeOK, BrokenIsKnown, LossIsExplained,
         InProgress, Over, historyVars
<1>5. HalfMadeIsHeld' /\ PublishesOnDeclared'
  BY <1>1 DEF RabbitInv, Dial, CallGoesTo, RabbitTypeOK, HalfMadeIsHeld,
              PublishesOnDeclared, Getting, historyVars
<1> QED BY <1>2, <1>3, <1>4, <1>5 DEF RabbitInv

LEMMA OpenChannelKeeps ==
  ASSUME RabbitInv, NEW c \in Calls, OpenChannel(c) PROVE RabbitInv'
<1>1. \A d \in Calls : d # c => call[d] \notin Getting
  BY OneHolder DEF OpenChannel, Getting, RabbitInv
<1>2. connection \in open /\ channel < connection
  BY DEF RabbitInv, OpenChannel, ChannelIsCurrent, RabbitTypeOK
<1>3. RabbitTypeOK'
  BY <1>2 DEF RabbitInv, OpenChannel, CallGoesTo, RabbitTypeOK, historyVars
<1>4. LockIsHeld' /\ ChannelIsCurrent'
  BY <1>1, <1>2 DEF RabbitInv, OpenChannel, CallGoesTo, RabbitTypeOK, LockIsHeld,
                    ChannelIsCurrent, Getting
<1>5. BrokenIsKnown' /\ LossIsExplained'
  BY DEF RabbitInv, OpenChannel, CallGoesTo, RabbitTypeOK, BrokenIsKnown, LossIsExplained,
         InProgress, Over, historyVars
<1>6. HalfMadeIsHeld' /\ PublishesOnDeclared'
  BY <1>1 DEF RabbitInv, OpenChannel, CallGoesTo, RabbitTypeOK, HalfMadeIsHeld,
              PublishesOnDeclared, Getting, historyVars
<1> QED BY <1>3, <1>4, <1>5, <1>6 DEF RabbitInv

LEMMA DeclareKeeps ==
  ASSUME RabbitInv, NEW c \in Calls, Declare(c) PROVE RabbitInv'
<1>1. channel = connection /\ connection \in openChannels \ severed
  BY DEF RabbitInv, Declare, ChannelIsCurrent
<1>2. \A d \in Calls : d # c => call[d] \notin Getting
  BY OneHolder DEF Declare, Getting, RabbitInv
<1>3. RabbitTypeOK'
  BY <1>1 DEF RabbitInv, Declare, CallGoesTo, RabbitTypeOK
<1>4. LockIsHeld' /\ ChannelIsCurrent'
  BY <1>1, <1>2 DEF RabbitInv, Declare, CallGoesTo, RabbitTypeOK, LockIsHeld,
                    ChannelIsCurrent, Getting
<1>5. BrokenIsKnown' /\ LossIsExplained'
  BY <1>1 DEF RabbitInv, Declare, CallGoesTo, RabbitTypeOK, BrokenIsKnown,
              LossIsExplained, InProgress, Over
<1>6. HalfMadeIsHeld' /\ PublishesOnDeclared'
  BY <1>1 DEF RabbitInv, Declare, CallGoesTo, RabbitTypeOK, HalfMadeIsHeld,
              PublishesOnDeclared
<1> QED BY <1>3, <1>4, <1>5, <1>6 DEF RabbitInv

\* A failed attempt closes what it made, and the call that gives up met the failure.
LEMMA ConnectFailsKeeps ==
  ASSUME RabbitInv, NEW c \in Calls, ConnectFails(c) PROVE RabbitInv'
<1>1. \A d \in Calls : d # c => call[d] \notin Getting
  BY OneHolder DEF ConnectFails, Getting, RabbitInv
<1>2. RabbitTypeOK'
  <2>1. /\ open' \subseteq open /\ openChannels' \subseteq open' /\ severed' \subseteq open'
        /\ hit' \subseteq Calls /\ faults' \in 0..MaxFaults
    <3>1. CASE call[c] = "trying"
      <4>1. Failure /\ UNCHANGED <<open, openChannels, severed>>
        BY <3>1 DEF ConnectFails
      <4> QED BY <4>1, ConnectionAssumption
          DEF RabbitInv, Failure, RabbitTypeOK, ConnectionAssumption, InProgress
    <3>2. CASE call[c] # "trying"
      BY <3>2 DEF RabbitInv, ConnectFails, Closed, RabbitTypeOK, historyVars
    <3> QED BY <3>1, <3>2
  <2>2. /\ attempt' \in 0..MaxRetries /\ holder' \subseteq holder
        /\ \E place \in {"sleeping", "lost"} : call' = [call EXCEPT ![c] = place]
    BY ConnectionAssumption
       DEF RabbitInv, ConnectFails, Retry, Raise, CallGoesTo, RabbitTypeOK,
           ConnectionAssumption
  <2>3. UNCHANGED <<connection, channel, mine, racing, declared>>
    BY DEF ConnectFails, Failure, historyVars
  <2> QED BY <2>1, <2>2, <2>3 DEF RabbitInv, RabbitTypeOK, Over
<1>3. LockIsHeld'
  BY DEF RabbitInv, ConnectFails, Retry, Raise, CallGoesTo, RabbitTypeOK, LockIsHeld
<1>4. ChannelIsCurrent'
  <2>1. CASE call[c] = "trying"
    <3>1. connection \in open => channel = connection
      BY <2>1, OpenHasChannel
    <3> QED BY <1>1, <2>1, <3>1
        DEF RabbitInv, ConnectFails, Retry, Raise, CallGoesTo, RabbitTypeOK,
            ChannelIsCurrent, Getting
  <2>2. CASE call[c] # "trying"
    BY <1>1, <2>2 DEF RabbitInv, ConnectFails, Closed, Retry, Raise, CallGoesTo,
                      RabbitTypeOK, ChannelIsCurrent, Getting
  <2> QED BY <2>1, <2>2
<1>5. BrokenIsKnown' /\ LossIsExplained'
  <2>1. CASE call[c] = "trying"
    BY <2>1 DEF RabbitInv, ConnectFails, Failure, Retry, Raise, CallGoesTo, RabbitTypeOK,
                BrokenIsKnown, LossIsExplained, InProgress, Over
  <2>2. CASE call[c] # "trying"
    BY <2>2 DEF RabbitInv, ConnectFails, Closed, Retry, Raise, CallGoesTo, RabbitTypeOK,
                BrokenIsKnown, LossIsExplained, InProgress, Over, historyVars
  <2> QED BY <2>1, <2>2
<1>6. HalfMadeIsHeld' /\ PublishesOnDeclared'
  <2>1. /\ UNCHANGED <<channel, mine, declared>>
        /\ \E place \in {"sleeping", "lost"} : call' = [call EXCEPT ![c] = place]
    BY DEF ConnectFails, Failure, Retry, Raise, CallGoesTo, historyVars
  <2>2. call[c] = "opened" => channel \notin openChannels'
    BY DEF RabbitInv, ConnectFails, Closed, ChannelIsCurrent
  <2>3. openChannels' \subseteq openChannels
    BY DEF ConnectFails, Closed
  <2> QED BY <1>1, <2>1, <2>2, <2>3
      DEF RabbitInv, RabbitTypeOK, HalfMadeIsHeld, PublishesOnDeclared, Getting
<1> QED BY <1>2, <1>3, <1>4, <1>5, <1>6 DEF RabbitInv

LEMMA DeclareRefusedKeeps ==
  ASSUME RabbitInv, NEW c \in Calls, DeclareRefused(c) PROVE RabbitInv'
<1>1. channel = connection
  BY DEF RabbitInv, DeclareRefused, ChannelIsCurrent
<1>2. \A d \in Calls : d # c => call[d] \notin Getting
  BY OneHolder DEF DeclareRefused, Getting, RabbitInv
<1>3. RabbitTypeOK'
  BY ConnectionAssumption
     DEF RabbitInv, DeclareRefused, Failure, Raise, CallGoesTo, RabbitTypeOK,
         ConnectionAssumption, InProgress, Over
<1>4. LockIsHeld' /\ ChannelIsCurrent'
  BY <1>1, <1>2 DEF RabbitInv, DeclareRefused, Raise, CallGoesTo, RabbitTypeOK, LockIsHeld,
                    ChannelIsCurrent, Getting
<1>5. BrokenIsKnown' /\ LossIsExplained'
  BY DEF RabbitInv, DeclareRefused, Failure, Raise, CallGoesTo, RabbitTypeOK,
         BrokenIsKnown, LossIsExplained, InProgress, Over
<1>6. HalfMadeIsHeld' /\ PublishesOnDeclared'
  BY <1>1 DEF RabbitInv, DeclareRefused, Failure, Raise, CallGoesTo, RabbitTypeOK,
              HalfMadeIsHeld, PublishesOnDeclared
<1> QED BY <1>3, <1>4, <1>5, <1>6 DEF RabbitInv

LEMMA BeginPublishKeeps ==
  ASSUME RabbitInv, NEW c \in Calls, BeginPublish(c) PROVE RabbitInv'
<1> DEFINE others == {d \in Publishing : mine[d] = mine[c]}
           all == IF others = {} THEN {} ELSE others \cup {c}
<1>1. /\ all \subseteq Calls /\ racing' = racing \cup all /\ hit' = hit \cup all
      /\ CallGoesTo(c, "publishing") /\ call[c] = "ready"
      /\ UNCHANGED <<holder, connection, channel, open, openChannels, severed, attempt,
                     mine, faults, declared>>
  BY DEF BeginPublish, Publishing
<1> HIDE DEF all
<1> QED BY <1>1 DEF RabbitInv, CallGoesTo, RabbitTypeOK, LockIsHeld, ChannelIsCurrent,
                    BrokenIsKnown, LossIsExplained, HalfMadeIsHeld, PublishesOnDeclared,
                    InProgress, Over

\* What may happen to the connection of a publish that ends: nothing, it is closed,
\* or its link is gone.  Whoever shares it knows in each case.
LEMMA EndPublishKeeps ==
  ASSUME RabbitInv, NEW c \in Calls, NEW fate \in Over, EndPublish(c, fate),
         hit' \subseteq Calls, hit \subseteq hit', faults' \in 0..MaxFaults,
         UNCHANGED declared,
         fate = "lost" => c \in hit',
         \/ UNCHANGED <<open, openChannels, severed>>
         \/ /\ \/ Closed(mine[c])
               \/ mine[c] \in open /\ severed' = severed \cup {mine[c]}
                  /\ UNCHANGED <<open, openChannels>>
            /\ \/ InProgress \subseteq hit'
               \/ mine[c] \in severed /\ Closed(mine[c])
  PROVE  RabbitInv'
<1>1. /\ call[c] = "publishing" /\ call' = [call EXCEPT ![c] = fate]
      /\ mine' = [mine EXCEPT ![c] = 0] /\ racing' = racing \ {c}
      /\ UNCHANGED <<holder, connection, channel, attempt>>
  BY DEF EndPublish, CallGoesTo
<1>2. open' \subseteq open /\ openChannels' \subseteq open' /\ severed' \subseteq open'
      /\ (\A k \in Nat : k # mine[c] => /\ (k \in open <=> k \in open')
                                       /\ (k \in openChannels <=> k \in openChannels')
                                       /\ (k \in severed <=> k \in severed'))
  BY DEF Closed, RabbitInv, RabbitTypeOK
<1>3. RabbitTypeOK'
  BY <1>1, <1>2 DEF RabbitInv, RabbitTypeOK, Over
<1>4. LockIsHeld'
  BY <1>1 DEF RabbitInv, RabbitTypeOK, LockIsHeld, Over
<1>5. ChannelIsCurrent'
  BY <1>1, <1>2 DEF RabbitInv, RabbitTypeOK, ChannelIsCurrent, Over
<1>6. BrokenIsKnown'
  <2> SUFFICES ASSUME NEW d \in Calls
               PROVE  /\ d \in InProgress' /\ connection \in severed' => d \in hit'
                      /\ call[d]' = "leaving"
                         /\ channel \notin openChannels' \ severed' => d \in hit'
                      /\ call[d]' \in {"ready", "publishing"}
                         /\ mine[d]' \notin openChannels' \ severed' => d \in hit'
    BY <1>1 DEF BrokenIsKnown
  <2>1. CASE d = c
    BY <1>1, <2>1 DEF RabbitInv, RabbitTypeOK, InProgress, Over
  <2>2. CASE d # c
    <3>1. call[d]' = call[d] /\ mine[d]' = mine[d] /\ (d \in InProgress <=> d \in InProgress')
      BY <1>1, <2>2 DEF RabbitInv, RabbitTypeOK, InProgress, Over
    <3>2. /\ d \in InProgress /\ connection \in severed => d \in hit
          /\ call[d] = "leaving" /\ channel \notin openChannels \ severed => d \in hit
          /\ call[d] \in {"ready", "publishing"}
             /\ mine[d] \notin openChannels \ severed => d \in hit
      BY DEF RabbitInv, BrokenIsKnown
    <3>3. call[d] \in {"leaving", "ready", "publishing"} => d \in InProgress
      BY DEF InProgress, Over
    <3>4. mine[d] \in Nat /\ channel \in Nat
      BY DEF RabbitInv, RabbitTypeOK
    <3>5. CASE d \in hit'
      BY <3>5
    <3>6. CASE d \notin hit'
      <4>1. \/ UNCHANGED <<open, openChannels, severed>>
            \/ d \notin InProgress
            \/ mine[c] \in severed /\ Closed(mine[c])
        BY <3>6
      <4> QED BY <1>1, <3>1, <3>2, <3>3, <3>4, <3>6, <4>1, <1>2 DEF Closed
    <3> QED BY <3>5, <3>6
  <2> QED BY <2>1, <2>2
<1>7. LossIsExplained'
  BY <1>1 DEF RabbitInv, RabbitTypeOK, LossIsExplained, Over
<1>8. openChannels' \subseteq openChannels
  BY DEF Closed
<1>9. HalfMadeIsHeld' /\ PublishesOnDeclared'
  BY <1>1, <1>8 DEF RabbitInv, RabbitTypeOK, HalfMadeIsHeld, PublishesOnDeclared, Over
<1> QED BY <1>3, <1>4, <1>5, <1>6, <1>7, <1>9 DEF RabbitInv

LEMMA EndOfPublishKeeps ==
  ASSUME RabbitInv, NEW c \in Calls,
         \/ Delivered(c) \/ ChannelClosed(c) \/ SentIntoTheVoid(c)
         \/ PublishFails(c) \/ RaceLoses(c)
  PROVE  RabbitInv'
<1>1. /\ hit \subseteq Calls /\ faults \in 0..MaxFaults /\ mine[c] \in Nat
      /\ InProgress \subseteq Calls /\ declared' = declared
  BY DEF RabbitInv, RabbitTypeOK, InProgress, Delivered, ChannelClosed, SentIntoTheVoid,
         PublishFails, RaceLoses, Failure, historyVars
<1>2. CASE Delivered(c)
  BY <1>1, <1>2, EndPublishKeeps DEF Delivered, Over, historyVars
<1>3. CASE ChannelClosed(c)
  <2>1. c \in hit
    BY <1>3 DEF ChannelClosed, EndPublish, RabbitInv, BrokenIsKnown
  <2> QED BY <1>1, <1>3, <2>1, EndPublishKeeps DEF ChannelClosed, Over, historyVars
<1>4. CASE SentIntoTheVoid(c)
  <2>1. c \in hit
    BY <1>4 DEF SentIntoTheVoid, Stale, EndPublish, RabbitInv, BrokenIsKnown
  <2> QED BY <1>1, <1>4, <2>1, EndPublishKeeps DEF SentIntoTheVoid, Stale, Over, historyVars
<1>5. CASE PublishFails(c)
  <2>1. /\ EndPublish(c, "lost") /\ Closed(mine[c])
        /\ hit' = hit \cup InProgress /\ faults' \in 0..MaxFaults
    BY <1>1, <1>5, ConnectionAssumption
       DEF PublishFails, Failure, ConnectionAssumption
  <2>2. c \in InProgress
    BY <2>1 DEF EndPublish, InProgress, Over
  <2> QED BY <1>1, <2>1, <2>2, EndPublishKeeps DEF Over
<1>6. CASE RaceLoses(c)
  <2>1. /\ EndPublish(c, "lost") /\ hit' = hit \cup InProgress /\ faults' = faults
        /\ \/ UNCHANGED <<open, openChannels, severed>>
           \/ Closed(mine[c])
           \/ mine[c] \in open
              /\ severed' = severed \cup {mine[c]} /\ UNCHANGED <<open, openChannels>>
    BY <1>6 DEF RaceLoses
  <2>2. c \in InProgress
    BY <2>1 DEF EndPublish, InProgress, Over
  <2> QED BY <1>1, <2>1, <2>2, EndPublishKeeps DEF Over
<1> QED BY <1>2, <1>3, <1>4, <1>5, <1>6

\* close_rabbitmq, when nobody is in progress.
LEMMA CloseKeeps ==
  ASSUME RabbitInv, InProgress = {}, CloseConnection
  PROVE  RabbitInv' /\ connection' \notin open'
<1>1. \A c \in Calls : call'[c] = call[c] /\ call[c] \in {"idle"} \cup Over
  BY DEF CloseConnection, InProgress
<1>2. connection' \notin open' /\ RabbitTypeOK' /\ LockIsHeld'
  BY DEF CloseConnection, Closed, RabbitInv, RabbitTypeOK, LockIsHeld, historyVars
<1>3. /\ ChannelIsCurrent' /\ BrokenIsKnown' /\ LossIsExplained'
      /\ HalfMadeIsHeld' /\ PublishesOnDeclared'
  BY <1>1, <1>2 DEF CloseConnection, Closed, RabbitInv, RabbitTypeOK, ChannelIsCurrent,
                    BrokenIsKnown, LossIsExplained, HalfMadeIsHeld, PublishesOnDeclared,
                    InProgress, Over, historyVars
<1> QED BY <1>2, <1>3 DEF RabbitInv

LEMMA ProceedKeeps ==
  ASSUME RabbitInv, NEW c \in Calls, CallProceeds(c) \/ CallSuffers(c)
  PROVE  RabbitInv'
BY AcquireKeeps, CheckKeeps, DialKeeps, OpenChannelKeeps, DeclareKeeps, ReturnKeeps,
   ConnectFailsKeeps, WakeKeeps, BeginPublishKeeps, EndOfPublishKeeps, DeclareRefusedKeeps
   DEF CallProceeds, CallSuffers

-----------------------------------------------------------------------------
(* The worker.                                                             *)

Places == {"idle", "getpool", "creating", "gotpool", "connecting", "query", "redis",
           "command", "commit", "undo", "undoing", "publish", "closing", "done",
           "checking", "serving", "draining", "stopped"}

LEMMA FiniteThreads ==
  /\ IsFiniteSet(Requests) /\ IsFiniteSet(Threads)
  /\ "lifespan" \in Threads /\ "lifespan" \notin Requests
  /\ Requests \subseteq Threads /\ Calls \subseteq Requests
BY WorkerAssumption, FS_Union, FS_AddElement DEF Requests, Threads, WorkerAssumption

LEMMA Smaller ==
  ASSUME NEW S, IsFiniteSet(S), NEW T, T \subseteq S, NEW n \in Nat, Cardinality(S) <= n
  PROVE  Cardinality(T) <= n
BY FS_Subset, FS_CardinalityType

LEMMA OneMore ==
  ASSUME NEW S, IsFiniteSet(S), NEW x, NEW T, T \subseteq S \cup {x}, NEW n \in Nat,
         Cardinality(S) < n
  PROVE  Cardinality(T) <= n
<1>1. Cardinality(S) \in Nat
  BY FS_CardinalityType
<1>2. /\ IsFiniteSet(S \cup {x})
      /\ Cardinality(S \cup {x}) = IF x \in S THEN Cardinality(S) ELSE Cardinality(S) + 1
  BY FS_AddElement
<1>3. Cardinality(S \cup {x}) <= n
  BY <1>1, <1>2
<1> QED BY <1>2, <1>3, Smaller

LEMMA WorkerInitInv == WorkerInit => WorkerInv
<1> SUFFICES ASSUME WorkerInit PROVE WorkerInv
  OBVIOUS
<1> USE DEF WorkerInit
<1>1. RabbitInv /\ RabbitTypeOK
  BY RabbitInitInv DEF RabbitInv
<1>2. Commanding = {} /\ Cardinality(dbHolders) = 0
  BY FS_EmptySet DEF Commanding
<1>3. TypeOK /\ PoolBound
  BY <1>1, <1>2, FS_EmptySet, WorkerAssumption DEF TypeOK, PoolBound, WorkerAssumption
<1>4. LifespanIsAt /\ OnePool /\ CallOfRequest /\ DbWhileUsed /\ StoppedIsQuiet
  BY FiniteThreads
     DEF LifespanIsAt, OnePool, CallOfRequest, DbWhileUsed, StoppedIsQuiet, RabbitInit
<1> QED BY <1>1, <1>3, <1>4 DEF WorkerInv

\* There is one pool, and every command to Redis is on it.
LEMMA OneInCommand ==
  ASSUME WorkerInv, NEW r \in Requests, at[r] \notin {"idle", "done"}
  PROVE  /\ pool = 1 /\ pools = 1 /\ at[r] # "creating"
         /\ at["lifespan"] \notin {"checking", "getpool", "creating", "stopped"}
         /\ at[r] \notin {"getpool", "gotpool"} => /\ myPool[r] = 1
                                                   /\ InCommand(myPool[r]) = Commanding
<1>1. /\ at["lifespan"] \notin {"checking", "getpool", "creating", "stopped"}
      /\ pool = 1 /\ pools = 1
      /\ \A s \in Requests : /\ at[s] # "creating"
                             /\ at[s] \notin {"idle", "getpool", "gotpool"} => myPool[s] = 1
  BY DEF WorkerInv, OnePool, StoppedIsQuiet, Busy
<1>2. Commanding \subseteq Requests
  BY DEF WorkerInv, LifespanIsAt, Commanding, Threads
<1>3. InCommand(1) = Commanding
  BY <1>1, <1>2 DEF InCommand, Commanding
<1>4. ASSUME at[r] \notin {"getpool", "gotpool"}
      PROVE  myPool[r] = 1 /\ InCommand(myPool[r]) = Commanding
  <2>1. myPool[r] = 1
    BY <1>1, <1>4
  <2> QED BY <1>3, <2>1
<1> QED BY <1>1, <1>4

\* A request in its middle goes from one place to another.
LEMMA MoveKeeps ==
  ASSUME WorkerInv, NEW r \in Requests,
         at[r] \notin {"idle", "publish", "closing", "done"},
         NEW p \in {"connecting", "query", "redis", "command", "commit", "undo", "undoing",
                    "closing"},
         GoesTo(r, p),
         dbHolders' \subseteq dbHolders \cup {r}, Cardinality(dbHolders') <= MaxDb,
         r \in dbHolders' => p # "connecting",
         UNCHANGED <<pool, pools>>,
         myPool' = [myPool EXCEPT ![r] = 1],
         p \in {"command", "undoing"} => Cardinality(Commanding) < MaxRedis,
         RabbitInv', UNCHANGED <<connection, open, call>>
  PROVE  WorkerInv'
<1>1. /\ pool = 1 /\ pools = 1
      /\ at["lifespan"] \notin {"checking", "getpool", "creating", "stopped"}
  BY OneInCommand
<1>2. /\ at \in [Threads -> Places] /\ myPool \in [Threads -> 0..1]
      /\ dbHolders \subseteq Requests /\ r \in Threads
  BY <1>1, FiniteThreads DEF WorkerInv, TypeOK, Places
<1>3. /\ at' \in [Threads -> Places] /\ at'[r] = p
      /\ \A t \in Threads : t # r => at'[t] = at[t]
      /\ myPool' \in [Threads -> 0..1] /\ myPool'[r] = 1
      /\ \A t \in Threads : t # r => myPool'[t] = myPool[t]
  BY <1>2 DEF GoesTo, Places
<1>4. TypeOK'
  BY <1>1, <1>2, <1>3 DEF TypeOK, RabbitInv, Places
<1>5. LifespanIsAt' /\ StoppedIsQuiet'
  BY <1>1, <1>3, FiniteThreads DEF WorkerInv, LifespanIsAt, StoppedIsQuiet
<1>6. OnePool'
  BY <1>1, <1>3, FiniteThreads DEF WorkerInv, OnePool
<1>7. CallOfRequest'
  BY <1>3, FiniteThreads DEF WorkerInv, CallOfRequest
<1>8. DbWhileUsed'
  BY <1>2, <1>3, FiniteThreads DEF WorkerInv, DbWhileUsed
<1>9. PoolBound'
  <2>1. IsFiniteSet(Commanding) /\ Cardinality(Commanding) <= MaxRedis
    BY FiniteThreads, FS_Subset DEF WorkerInv, PoolBound, Commanding
  <2>2. MaxRedis \in Nat
    BY WorkerAssumption DEF WorkerAssumption
  <2>3. CASE p \in {"command", "undoing"}
    <3>1. Commanding' \subseteq Commanding \cup {r}
      BY <1>3 DEF Commanding
    <3> QED BY <2>1, <2>2, <2>3, <3>1, OneMore DEF PoolBound
  <2>4. CASE p \notin {"command", "undoing"}
    <3>1. Commanding' \subseteq Commanding
      BY <1>3, <2>4 DEF Commanding
    <3> QED BY <2>1, <2>2, <3>1, Smaller DEF PoolBound
  <2> QED BY <2>3, <2>4
<1> QED BY <1>4, <1>5, <1>6, <1>7, <1>8, <1>9 DEF WorkerInv

\* The actions of that kind.
LEMMA MiddleKeeps ==
  ASSUME WorkerInv, NEW r \in Requests,
         \/ ReturnPool(r) \/ Checkout(r) \/ CheckoutTimesOut(r) \/ Query(r)
         \/ RedisCommand(r) \/ RedisPoolExhausted(r) \/ RedisAnswers(r) \/ CommitFails(r)
  PROVE  WorkerInv'
<1>1. /\ RabbitInv /\ Cardinality(dbHolders) <= MaxDb /\ IsFiniteSet(dbHolders)
      /\ faults \in 0..MaxFaults /\ MaxFaults \in Nat /\ MaxDb \in Nat
      /\ r # "lifespan" /\ myPool \in [Threads -> 0..pools]
  BY FiniteThreads, FS_Subset, ConnectionAssumption, WorkerAssumption
     DEF WorkerInv, TypeOK, RabbitTypeOK, ConnectionAssumption, WorkerAssumption
<1>2. /\ at[r] \notin {"idle", "done"} => pool = 1
      /\ at[r] \notin {"idle", "done", "getpool", "gotpool"}
           => myPool[r] = 1 /\ InCommand(myPool[r]) = Commanding
  BY OneInCommand
<1>3. at[r] \notin {"idle", "done", "getpool", "gotpool"}
        => (myPool' = myPool => myPool' = [myPool EXCEPT ![r] = 1])
  BY <1>1, <1>2, FiniteThreads
<1>4. r \in dbHolders => at[r] \in {"query", "redis", "command", "commit", "undo",
                                   "undoing", "closing"}
  BY DEF WorkerInv, DbWhileUsed
<1>5. CASE ReturnPool(r)
  <2>1. RabbitInv' /\ UNCHANGED <<connection, open, call>>
    BY <1>1, <1>5, RabbitStutters DEF ReturnPool, rabbitVars
  <2> QED BY <1>1, <1>2, <1>4, <1>5, <2>1, MoveKeeps DEF ReturnPool
<1>6. CASE Checkout(r)
  <2>1. RabbitInv' /\ UNCHANGED <<connection, open, call>>
    BY <1>1, <1>6, RabbitStutters DEF Checkout, rabbitVars
  <2>2. Cardinality(dbHolders') <= MaxDb
    BY <1>1, <1>6, OneMore DEF Checkout
  <2> QED BY <1>3, <1>6, <2>1, <2>2, MoveKeeps DEF Checkout
<1>7. CASE CheckoutTimesOut(r) \/ Query(r) \/ RedisPoolExhausted(r) \/ RedisAnswers(r)
  <2>1. UNCHANGED <<pool, pools, myPool, dbHolders, rabbitVars>>
    BY <1>7 DEF CheckoutTimesOut, Query, RedisPoolExhausted, RedisAnswers
  <2>2. RabbitInv' /\ UNCHANGED <<connection, open, call>>
    BY <1>1, <2>1, RabbitStutters DEF rabbitVars
  <2>3. \E p \in {"redis", "closing", "commit"} : GoesTo(r, p)
    BY <1>7 DEF CheckoutTimesOut, Query, RedisPoolExhausted, RedisAnswers
  <2>4. at[r] \notin {"idle", "done", "publish", "closing", "getpool", "gotpool"}
    BY <1>7 DEF CheckoutTimesOut, Query, RedisPoolExhausted, RedisAnswers, Commanding
  <2> QED BY <1>1, <1>3, <2>1, <2>2, <2>3, <2>4, MoveKeeps
<1>8. CASE RedisCommand(r)
  <2>1. UNCHANGED <<pool, pools, myPool, dbHolders, rabbitVars>>
    BY <1>8 DEF RedisCommand
  <2>2. RabbitInv' /\ UNCHANGED <<connection, open, call>>
    BY <1>1, <2>1, RabbitStutters DEF rabbitVars
  <2>3. /\ at[r] \in {"redis", "undo"} /\ Cardinality(Commanding) < MaxRedis
        /\ \E p \in {"command", "undoing"} : GoesTo(r, p)
    BY <1>2, <1>8 DEF RedisCommand
  <2> QED BY <1>1, <1>3, <2>1, <2>2, <2>3, MoveKeeps
<1>9. CASE CommitFails(r)
  <2>1. RabbitInv' /\ UNCHANGED <<connection, open, call, pool, pools, myPool, dbHolders>>
    BY <1>1, <1>9, RabbitElsewhere DEF CommitFails
  <2> QED BY <1>1, <1>3, <1>9, <2>1, MoveKeeps DEF CommitFails
<1> QED BY <1>5, <1>6, <1>7, <1>8, <1>9
\* Nothing of the request's pools changes, and no pool is made: the lifespan, or a
\* request on its way to its first connection or to its end.
LEMMA QuietKeeps ==
  ASSUME WorkerInv, NEW t \in Threads, NEW p \in Places, GoesTo(t, p),
         p \notin {"command", "undoing"},
         UNCHANGED <<pool, pools, myPool>>, dbHolders' \subseteq dbHolders,
         RabbitInv',
         LifespanIsAt', OnePool', CallOfRequest', DbWhileUsed', StoppedIsQuiet'
  PROVE  WorkerInv'
<1>1. /\ at \in [Threads -> Places] /\ at' = [at EXCEPT ![t] = p]
      /\ MaxDb \in Nat /\ MaxRedis \in Nat
  BY WorkerAssumption DEF WorkerInv, TypeOK, Places, GoesTo, WorkerAssumption
<1>2. Cardinality(dbHolders') <= MaxDb
  BY <1>1, FiniteThreads, FS_Subset, Smaller DEF WorkerInv, TypeOK
<1>3. TypeOK'
  BY <1>1, <1>2 DEF WorkerInv, TypeOK, RabbitInv, Places
<1>4. Commanding' \subseteq Commanding
  BY <1>1 DEF Commanding
<1>5. PoolBound'
  BY <1>1, <1>4, FiniteThreads, FS_Subset, Smaller DEF WorkerInv, PoolBound, Commanding
<1> QED BY <1>3, <1>5 DEF WorkerInv

LEMMA StartupKeeps ==
  ASSUME WorkerInv, CheckDb \/ GetPool("lifespan") PROVE WorkerInv'
<1>1. RabbitInv' /\ UNCHANGED <<connection, open, call, dbHolders>>
  <2>1. UNCHANGED rabbitVars /\ UNCHANGED dbHolders
    BY DEF CheckDb, GetPool, SeesNoPool, SeesPool, CreatePool, ReturnPool
  <2> QED BY <2>1, RabbitStutters DEF WorkerInv, rabbitVars
<1>2. /\ at \in [Threads -> Places] /\ myPool \in [Threads -> 0..pools]
      /\ pools \in Nat /\ pool \in 0..pools
      /\ "lifespan" \in Threads /\ "lifespan" \notin Requests /\ Requests \subseteq Threads
      /\ Calls \subseteq Requests
  BY FiniteThreads DEF WorkerInv, TypeOK, Places
<1>3. \E p \in {"getpool", "creating", "gotpool", "serving"} : GoesTo("lifespan", p)
  BY DEF CheckDb, GetPool, SeesNoPool, SeesPool, CreatePool, ReturnPool
<1>4. /\ \A r \in Requests : at'[r] = at[r]
      /\ at' \in [Threads -> Places] /\ at'["lifespan"] \in {"getpool", "creating",
                                                            "gotpool", "serving"}
  BY <1>2, <1>3 DEF GoesTo, Places
<1>5. LifespanIsAt' /\ CallOfRequest' /\ DbWhileUsed' /\ StoppedIsQuiet'
  BY <1>1, <1>2, <1>4
     DEF WorkerInv, LifespanIsAt, CallOfRequest, DbWhileUsed, StoppedIsQuiet, TypeOK
<1>6. OnePool' /\ pools' \in Nat /\ pool' \in 0..pools' /\ myPool' \in [Threads -> 0..pools']
  <2>1. CASE CheckDb \/ SeesNoPool("lifespan") \/ SeesPool("lifespan")
    BY <1>2, <2>1 DEF WorkerInv, OnePool, CheckDb, SeesNoPool, SeesPool, GoesTo
  <2>2. CASE CreatePool("lifespan")
    <3>1. /\ pools' = pools + 1 /\ pool' = pools' /\ myPool' = myPool
          /\ at["lifespan"] = "creating" /\ at'["lifespan"] = "gotpool"
      BY <1>2, <2>2 DEF CreatePool, GoesTo
    <3>2. pools = 0 /\ \A r \in Requests : at[r] = "idle"
      BY <3>1 DEF WorkerInv, OnePool
    <3> QED BY <1>2, <1>4, <3>1, <3>2 DEF OnePool
  <2>3. CASE ReturnPool("lifespan")
    <3>1. /\ UNCHANGED <<pool, pools>> /\ myPool' = [myPool EXCEPT !["lifespan"] = pool]
          /\ at["lifespan"] = "gotpool" /\ at'["lifespan"] = "serving"
      BY <1>2, <2>3 DEF ReturnPool, GoesTo
    <3>2. myPool' \in [Threads -> 0..pools] /\ \A r \in Requests : myPool'[r] = myPool[r]
      BY <1>2, <3>1
    <3> QED BY <1>2, <1>4, <3>1, <3>2 DEF WorkerInv, OnePool
  <2> QED BY <2>1, <2>2, <2>3 DEF GetPool
<1>7. TypeOK'
  BY <1>1, <1>4, <1>6 DEF WorkerInv, TypeOK, RabbitInv, Places
<1>8. PoolBound'
  <2>1. Commanding' = Commanding
    BY <1>2, <1>4 DEF WorkerInv, LifespanIsAt, Commanding, Threads
  <2> QED BY <2>1 DEF WorkerInv, PoolBound
<1> QED BY <1>1, <1>5, <1>6, <1>7, <1>8 DEF WorkerInv

\* Whoever publishes is busy.
LEMMA InProgressIsBusy ==
  ASSUME WorkerInv, NEW c \in InProgress
  PROVE  at[c] = "publish" /\ c \in Busy
BY FiniteThreads DEF WorkerInv, CallOfRequest, InProgress, Busy

LEMMA StopKeeps ==
  ASSUME WorkerInv, BeginShutdown \/ Shutdown PROVE WorkerInv'
<1>1. /\ at \in [Threads -> Places]
      /\ "lifespan" \in Threads /\ "lifespan" \notin Requests /\ Requests \subseteq Threads
      /\ Calls \subseteq Requests
  BY FiniteThreads DEF WorkerInv, TypeOK, Places
<1>2. CASE BeginShutdown
  <2>1. RabbitInv'
    BY <1>2, RabbitStutters DEF WorkerInv, BeginShutdown
  <2>2. \A r \in Requests : at'[r] = at[r]
    BY <1>1, <1>2 DEF BeginShutdown, GoesTo
  <2>3. /\ at["lifespan"] = "serving" /\ at'["lifespan"] = "draining" /\ call' = call
        /\ UNCHANGED <<pool, pools, myPool, dbHolders>>
    BY <1>1, <1>2 DEF BeginShutdown, GoesTo, rabbitVars
  <2>4. LifespanIsAt' /\ OnePool' /\ CallOfRequest' /\ DbWhileUsed' /\ StoppedIsQuiet'
    BY <1>1, <2>2, <2>3 DEF WorkerInv, LifespanIsAt, OnePool, CallOfRequest, DbWhileUsed,
                           StoppedIsQuiet, TypeOK
  <2> QED BY <1>1, <1>2, <2>1, <2>3, <2>4, QuietKeeps DEF BeginShutdown, Places
<1>3. CASE Shutdown
  <2>1. InProgress = {}
    BY <1>3, InProgressIsBusy DEF Shutdown
  <2>2. RabbitInv' /\ connection' \notin open'
    BY <1>3, <2>1, CloseKeeps DEF WorkerInv, Shutdown
  <2>3. \A r \in Requests : at'[r] = at[r]
    BY <1>1, <1>3 DEF Shutdown, GoesTo
  <2>4. /\ at["lifespan"] = "draining" /\ at'["lifespan"] = "stopped" /\ call' = call
        /\ UNCHANGED <<pool, pools, myPool, dbHolders>> /\ Busy = {}
    BY <1>1, <1>3 DEF Shutdown, GoesTo, CloseConnection
  <2>5. LifespanIsAt' /\ OnePool' /\ CallOfRequest' /\ DbWhileUsed' /\ StoppedIsQuiet'
    BY <1>1, <2>2, <2>3, <2>4 DEF WorkerInv, LifespanIsAt, OnePool, CallOfRequest,
                                 DbWhileUsed, StoppedIsQuiet, TypeOK, Busy
  <2> QED BY <1>1, <1>3, <2>2, <2>4, <2>5, QuietKeeps DEF Shutdown, Places
<1> QED BY <1>2, <1>3

\* A request that begins, looks for the pool, or ends.
LEMMA EndsKeep ==
  ASSUME WorkerInv, NEW r \in Requests,
         Begin(r) \/ SeesNoPool(r) \/ SeesPool(r) \/ CreatePool(r)
         \/ Published(r) \/ CloseSession(r)
  PROVE  WorkerInv'
<1>1. /\ at \in [Threads -> Places] /\ r \in Threads /\ r # "lifespan"
      /\ "lifespan" \in Threads /\ "lifespan" \notin Requests /\ Requests \subseteq Threads
      /\ Calls \subseteq Requests /\ dbHolders \subseteq Requests
  BY FiniteThreads DEF WorkerInv, TypeOK, Places
<1>2. at[r] # "idle" /\ at[r] # "done"
        => /\ pool = 1 /\ at[r] # "creating"
           /\ at["lifespan"] \notin {"checking", "getpool", "creating", "stopped"}
  BY OneInCommand
<1>3. CASE Begin(r)
  <2>1. /\ GoesTo(r, "getpool") /\ at[r] = "idle" /\ at["lifespan"] = "serving"
        /\ UNCHANGED <<pool, pools, myPool, dbHolders, rabbitVars>>
    BY <1>3 DEF Begin
  <2>2. /\ at'[r] = "getpool" /\ \A t \in Threads : t # r => at'[t] = at[t]
        /\ call' = call
    BY <1>1, <2>1 DEF GoesTo, rabbitVars
  <2>3. RabbitInv'
    BY <2>1, RabbitStutters DEF WorkerInv
  <2>4. LifespanIsAt' /\ OnePool' /\ CallOfRequest' /\ DbWhileUsed' /\ StoppedIsQuiet'
    BY <1>1, <2>1, <2>2 DEF WorkerInv, LifespanIsAt, OnePool, CallOfRequest, DbWhileUsed,
                           StoppedIsQuiet
  <2> QED BY <1>1, <2>1, <2>3, <2>4, QuietKeeps DEF Places
<1>4. CASE SeesPool(r)
  <2>1. /\ GoesTo(r, "gotpool") /\ at[r] = "getpool"
        /\ UNCHANGED <<pool, pools, myPool, dbHolders, rabbitVars>>
    BY <1>4 DEF SeesPool
  <2>2. /\ at'[r] = "gotpool" /\ \A t \in Threads : t # r => at'[t] = at[t]
        /\ call' = call
    BY <1>1, <2>1 DEF GoesTo, rabbitVars
  <2>3. RabbitInv'
    BY <2>1, RabbitStutters DEF WorkerInv
  <2>4. LifespanIsAt' /\ OnePool' /\ CallOfRequest' /\ DbWhileUsed' /\ StoppedIsQuiet'
    BY <1>1, <1>2, <2>1, <2>2 DEF WorkerInv, LifespanIsAt, OnePool, CallOfRequest,
                                 DbWhileUsed, StoppedIsQuiet
  <2> QED BY <1>1, <2>1, <2>3, <2>4, QuietKeeps DEF Places
<1>5. CASE SeesNoPool(r) \/ CreatePool(r)
  BY <1>2, <1>5 DEF SeesNoPool, CreatePool
<1>6. CASE Published(r)
  <2>1. /\ GoesTo(r, "closing") /\ at[r] = "publish" /\ call[r] \in Over
        /\ UNCHANGED <<pool, pools, myPool, dbHolders, rabbitVars>>
    BY <1>6 DEF Published
  <2>2. /\ at'[r] = "closing" /\ \A t \in Threads : t # r => at'[t] = at[t]
        /\ call' = call
    BY <1>1, <2>1 DEF GoesTo, rabbitVars
  <2>3. RabbitInv'
    BY <2>1, RabbitStutters DEF WorkerInv
  <2>4. LifespanIsAt' /\ OnePool' /\ CallOfRequest' /\ DbWhileUsed' /\ StoppedIsQuiet'
    BY <1>1, <1>2, <2>1, <2>2 DEF WorkerInv, LifespanIsAt, OnePool, CallOfRequest,
                                 DbWhileUsed, StoppedIsQuiet
  <2> QED BY <1>1, <2>1, <2>3, <2>4, QuietKeeps DEF Places
<1>7. CASE CloseSession(r)
  <2>1. /\ GoesTo(r, "done") /\ at[r] = "closing" /\ dbHolders' = dbHolders \ {r}
        /\ UNCHANGED <<pool, pools, myPool, rabbitVars>>
    BY <1>7 DEF CloseSession
  <2>2. /\ at'[r] = "done" /\ \A t \in Threads : t # r => at'[t] = at[t]
        /\ call' = call
    BY <1>1, <2>1 DEF GoesTo, rabbitVars
  <2>3. RabbitInv'
    BY <2>1, RabbitStutters DEF WorkerInv
  <2>4. LifespanIsAt' /\ OnePool' /\ CallOfRequest' /\ DbWhileUsed' /\ StoppedIsQuiet'
    BY <1>1, <1>2, <2>1, <2>2 DEF WorkerInv, LifespanIsAt, OnePool, CallOfRequest,
                                 DbWhileUsed, StoppedIsQuiet
  <2> QED BY <1>1, <2>1, <2>3, <2>4, QuietKeeps DEF Places
<1> QED BY <1>3, <1>4, <1>5, <1>6, <1>7

\* A commit gives the connection back before the event is published.
LEMMA CommitKeeps ==
  ASSUME WorkerInv, NEW c \in Calls, Commit(c) PROVE WorkerInv'
<1>1. /\ at \in [Threads -> Places] /\ c \in Requests /\ c \in Threads /\ c # "lifespan"
      /\ "lifespan" \in Threads /\ "lifespan" \notin Requests /\ Requests \subseteq Threads
      /\ Calls \subseteq Requests /\ dbHolders \subseteq Requests
      /\ call \in [Calls -> {"idle", "waiting", "trying", "dialled", "opened", "sleeping",
                             "leaving", "ready", "publishing"} \cup Over]
  BY FiniteThreads DEF WorkerInv, TypeOK, RabbitTypeOK, Places
<1>2. /\ GoesTo(c, "publish") /\ at[c] = "commit" /\ dbHolders' = dbHolders \ {c}
      /\ UNCHANGED <<pool, pools, myPool, connection, open>> /\ CallGoesTo(c, "waiting")
  BY DEF Commit, Enter
<1>3. /\ at'[c] = "publish" /\ \A t \in Threads : t # c => at'[t] = at[t]
      /\ \A d \in Calls : d # c => call'[d] = call[d]
  BY <1>1, <1>2 DEF GoesTo, CallGoesTo
<1>4. RabbitInv'
  BY EnterKeeps DEF WorkerInv, Commit
<1>5. /\ pool = 1 /\ at["lifespan"] \notin {"checking", "getpool", "creating", "stopped"}
      /\ myPool[c] = 1
  BY <1>1, <1>2, OneInCommand
<1>6. LifespanIsAt' /\ OnePool' /\ CallOfRequest' /\ DbWhileUsed' /\ StoppedIsQuiet'
  BY <1>1, <1>2, <1>3, <1>5 DEF WorkerInv, LifespanIsAt, OnePool, CallOfRequest,
                               DbWhileUsed, StoppedIsQuiet
<1> QED BY <1>1, <1>2, <1>4, <1>6, QuietKeeps DEF Places

\* While a request publishes, and when the link breaks, the pools do not change.
LEMMA PublishKeeps ==
  ASSUME WorkerInv, UNCHANGED poolVars,
         \/ LinkLost \/ HeartbeatMissed
         \/ \E c \in Calls : CallProceeds(c) \/ CallSuffers(c)
  PROVE  WorkerInv'
<1>1. RabbitInv' /\ RabbitTypeOK'
  BY LinkKeeps, ProceedKeeps DEF WorkerInv, RabbitInv
<1>2. CallOfRequest' /\ (at["lifespan"] = "stopped" => UNCHANGED <<connection, open>>)
  <2>1. CASE LinkLost \/ HeartbeatMissed
    BY <2>1 DEF WorkerInv, CallOfRequest, LinkLost, HeartbeatMissed, poolVars
  <2>2. ASSUME NEW c \in Calls, CallProceeds(c) \/ CallSuffers(c)
        PROVE  CallOfRequest' /\ at["lifespan"] # "stopped"
    <3>1. c \in InProgress /\ \A d \in Calls : d # c => call'[d] = call[d]
      BY <2>2 DEF WorkerInv, RabbitInv, RabbitTypeOK, CallProceeds, CallSuffers, Acquire,
                  Check, Dial, OpenChannel, Declare, Return, ConnectFails, Retry, Raise, Wake,
                  BeginPublish, Delivered, ChannelClosed, SentIntoTheVoid, DeclareRefused,
                  PublishFails, RaceLoses, EndPublish, CallGoesTo, InProgress, Over
    <3>2. at[c] = "publish" /\ c \in Busy
      BY <3>1, InProgressIsBusy
    <3> QED BY <3>1, <3>2 DEF WorkerInv, CallOfRequest, StoppedIsQuiet, poolVars
  <2> QED BY <2>1, <2>2
<1>3. TypeOK' /\ LifespanIsAt' /\ OnePool' /\ DbWhileUsed'
  BY <1>1 DEF WorkerInv, TypeOK, LifespanIsAt, OnePool, DbWhileUsed, poolVars
<1>4. StoppedIsQuiet' /\ PoolBound'
  BY <1>2 DEF WorkerInv, StoppedIsQuiet, PoolBound, Commanding, Busy, poolVars
<1> QED BY <1>1, <1>2, <1>3, <1>4 DEF WorkerInv
-----------------------------------------------------------------------------
(* The theorems.                                                           *)

LEMMA WorkerStep == WorkerInv /\ [WorkerNext]_workerVars => WorkerInv'
<1> SUFFICES ASSUME WorkerInv, [WorkerNext]_workerVars PROVE WorkerInv'
  OBVIOUS
<1>1. CASE CheckDb \/ GetPool("lifespan")
  BY <1>1, StartupKeeps
<1>2. CASE BeginShutdown \/ Shutdown
  BY <1>2, StopKeeps
<1>3. CASE (LinkLost \/ HeartbeatMissed) /\ UNCHANGED poolVars
  BY <1>3, PublishKeeps
<1>4. ASSUME NEW r \in Requests, Begin(r) \/ Works(r) PROVE WorkerInv'
  BY <1>4, EndsKeep, MiddleKeeps, CommitKeeps, PublishKeeps DEF Works, GetPool
<1>5. ASSUME NEW c \in Calls, CommitFails(c) PROVE WorkerInv'
  BY <1>5, MiddleKeeps, FiniteThreads
<1>6. ASSUME NEW c \in Calls, CallSuffers(c), UNCHANGED poolVars PROVE WorkerInv'
  BY <1>6, PublishKeeps
<1>7. CASE UNCHANGED workerVars
  <2>1. RabbitInv' /\ UNCHANGED poolVars /\ UNCHANGED rabbitVars
    BY <1>7, RabbitStutters DEF WorkerInv, workerVars
  <2> QED BY <2>1
      DEF WorkerInv, TypeOK, RabbitInv, LifespanIsAt, OnePool, CallOfRequest, DbWhileUsed,
          StoppedIsQuiet, PoolBound, Commanding, Busy, poolVars, rabbitVars
<1> QED BY <1>1, <1>2, <1>3, <1>4, <1>5, <1>6, <1>7 DEF WorkerNext

LEMMA WorkerInvariant == WorkerSpec => []WorkerInv
BY WorkerInitInv, WorkerStep, PTL DEF WorkerSpec

\* The state of a worker keeps its type: never more database connections than the
\* pool has, one holder of the lock, no channel newer than its connection.
THEOREM WorkerTypes == WorkerSpec => []TypeOK
BY WorkerInvariant, PTL DEF WorkerInv

\* However many threads meet in _get_pool, the commands on their way to Redis never
\* exceed the one pool's max_connections.
THEOREM RedisStaysInItsPool == WorkerSpec => []PoolBound
BY WorkerInvariant, PTL DEF WorkerInv

\* The wait for RabbitMQ, behind the lock or in a reconnection, never costs the
\* other requests a database connection.
THEOREM WaitingHoldsNoDb == WorkerSpec => []BrokerWaitHoldsNoDb
<1>1. WorkerInv => BrokerWaitHoldsNoDb
  BY DEF WorkerInv, DbWhileUsed, BrokerWaitHoldsNoDb
<1> QED BY <1>1, WorkerInvariant, PTL

\* Whoever has ended, and a worker that has stopped, left nothing taken.
THEOREM NothingStaysTaken == WorkerSpec => []NothingIsLeftTaken
<1>1. WorkerInv => NothingIsLeftTaken
  <2> SUFFICES ASSUME WorkerInv PROVE NothingIsLeftTaken
    OBVIOUS
  <2>1. ASSUME NEW r \in Requests, at[r] = "done" PROVE r \notin dbHolders
    BY <2>1 DEF WorkerInv, DbWhileUsed
  <2>2. ASSUME NEW r \in Requests, at[r] = "done" PROVE r \notin holder
    <3>1. ASSUME r \in Calls PROVE r \notin holder
      BY <2>2, <3>1 DEF WorkerInv, RabbitInv, LockIsHeld, CallOfRequest, Over
    <3> QED BY <3>1 DEF WorkerInv, RabbitInv, RabbitTypeOK
  <2> QED BY <2>1, <2>2 DEF WorkerInv, StoppedIsQuiet, NothingIsLeftTaken
<1> QED BY <1>1, WorkerInvariant, PTL

\* An event that is lost was lost to a failure, a race or a dead link that its own
\* call met: a connection that another call broke is never handed on.
THEOREM LossesAreExplained == WorkerSpec => []LossIsExplained
BY WorkerInvariant, PTL DEF WorkerInv, RabbitInv

\* No thread publishes over a connection that _connect left half made.
THEOREM ExchangeIsDeclaredFirst == WorkerSpec => []PublishesOnDeclared
BY WorkerInvariant, PTL DEF WorkerInv, RabbitInv
=============================================================================
