--------------------------- MODULE ZeroSdkProofs ---------------------------
(***************************************************************************)
(* The safety of the SDK client for any number of game threads, requests,  *)
(* connections and attempts: nothing is left by a Shutdown in any number   *)
(* of sessions, and answers reach their callers within one session.        *)
(***************************************************************************)
EXTENDS ZeroSdk, TLAPS

Threads == {"main", "receiver", "heart"}
Places == MainPlaces \union ReceiverPlaces \union HeartPlaces \union Opening \union {"refused"}
Frames == [id : Nat, call : Calls]
Answers == [id : Nat, kind : {"accepted", "refused", "overlay"}]
Over == {"none", "done"}
Stopping == {"fail", "cancel", "close", "joinheart", "joinrecv"}
Connecting == Opening \union {"refused"}

\* TypeOK, and the kinds of what it leaves open.
Kinds ==
    /\ TypeOK
    /\ at \in [Threads -> Places]
    /\ requests \in Seq(Frames) /\ replies \in Seq(Answers)

\* What bounds the sessions and the attempts.
Counters ==
    /\ at["main"] \in Stopping /\ again => sessions < MaxSessions
    /\ at["main"] = "bootstrap" => sessions < MaxSessions
    /\ at["receiver"] = "delay" => attempts < MaxAttempts

\* The main thread opens a connection only when the other two threads are gone, and
\* connected_ is set only while there is a receiver.
Joined ==
    /\ at["receiver"] \in Over => ~connected
    /\ at["main"] \in {"joinrecv", "bootstrap"} \union Opening => at["heart"] \in Over
    /\ at["main"] \in {"bootstrap"} \union Opening => at["receiver"] \in Over
    /\ at["main"] \in Stopping \union {"bootstrap"} => stop
    /\ at["main"] \in Opening => ~stop
    /\ stop /\ at["main"] = "idle" => at["receiver"] \in Over /\ at["heart"] \in Over

\* A handle that a handshake has opened is in its hands until it is closed or published.
Handles ==
    /\ \A p \in Openers : at[p] \in Connecting \ {"open"} => hnd[p] \in Connections
    /\ \A n \in Connections : link[n] \in {"up", "broken"} =>
          n = pipe \/ \E p \in Openers : at[p] \in Connecting \ {"open"} /\ hnd[p] = n

Quiet == Kinds /\ Counters /\ Joined /\ Handles

-----------------------------------------------------------------------------
(* One session.                                                            *)

\* The game initialises the client once.
OneSession == MaxSessions <= 1

Elements(s) == {s[k] : k \in DOMAIN s}
Inserted == CallerPlaces \ {"idle", "insert"}
BeforeWrite == {"insert", "write"}

\* Nothing has been sent before the first connection is published.
NothingSent ==
    /\ \A c \in Callers : caller[c] = "idle"
    /\ pipe = 0 /\ pending = <<>> /\ requests = <<>> /\ replies = <<>>
Unsent ==
    /\ sessions = 0 \/ at["main"] \in Opening => at["receiver"] = "none" /\ NothingSent
    /\ at["main"] \in Opening => sessions > 0

\* The ids of a session are given out once.
Fresh ==
    /\ nextId > 0
    /\ \A c \in Callers : caller[c] # "idle" => id[c] > 0
    /\ \A c, d \in Callers : caller[c] # "idle" /\ caller[d] # "idle" /\ id[c] = id[d] => c = d
    /\ at["receiver"] \notin Over =>
          /\ \A c \in Callers : caller[c] # "idle" => id[c] < nextId
          /\ \A f \in Elements(requests) \union Elements(replies) : f.id < nextId
    /\ \A c \in Callers : caller[c] \in BeforeWrite =>
          \A f \in Elements(requests) \union Elements(replies) : f.id # id[c]

\* pending_ holds the calls that wait, under their ids.
Pending ==
    /\ \A i \in DOMAIN pending : \E c \in Callers :
          pending[i] = <<c, calls[c]>> /\ id[c] = i /\ caller[c] \in Inserted
    /\ \A c \in Callers : caller[c] \in {"write", "wait"} /\ object[c] = "open" =>
          id[c] \in DOMAIN pending /\ pending[id[c]] = <<c, calls[c]>>

\* What an answer says is true of the call it will be matched to.
Matched ==
    /\ \A f \in Elements(requests) : f.id \in DOMAIN pending => pending[f.id] = f.call
    /\ \A f \in Elements(replies) : f.kind = "accepted" /\ f.id \in DOMAIN pending => pending[f.id] \in accepted
    /\ target.kind = "accepted" /\ target.call # NoCall => target.call \in accepted
    /\ \A c \in Callers : object[c] = "accepted" => <<c, calls[c]>> \in accepted

Answered == Unsent /\ Fresh /\ Pending /\ Matched /\ AckMeansServed

-----------------------------------------------------------------------------
(* Kinds, by their parts.                                                  *)

ThreadsOK ==
    /\ at \in [Threads -> Places]
    /\ at["main"] \in MainPlaces \union Opening
    /\ at["receiver"] \in ReceiverPlaces \union Opening \union {"refused"}
    /\ at["heart"] \in HeartPlaces
FlagsOK == stop \in BOOLEAN /\ connected \in BOOLEAN /\ again \in BOOLEAN /\ runtime \in BOOLEAN
HandlesOK ==
    /\ pipe \in 0 .. MaxConnections
    /\ hnd \in [Openers -> 0 .. MaxConnections]
    /\ link \in [Connections -> {"none", "up", "broken", "closed"}]
CountsOK == attempts \in 0 .. MaxAttempts /\ sessions \in 0 .. MaxSessions
CallersOK ==
    /\ nextId \in Nat
    /\ caller \in [Callers -> CallerPlaces]
    /\ calls \in [Callers -> 0 .. MaxCalls]
    /\ id \in [Callers -> Nat]
    /\ object \in [Callers -> {"open", "failed", "accepted", "refused"}]
    /\ result \in [Callers -> {"none", "ok", "error"}]
MessagesOK ==
    /\ \A i \in DOMAIN pending : i \in Nat /\ pending[i] \in Calls
    /\ target.call \in Calls \union {NoCall} /\ target.kind \in {"accepted", "refused"}
    /\ requests \in Seq(Frames) /\ replies \in Seq(Answers)
    /\ accepted \subseteq Calls
\* A caller that has begun a request has made at least one.
Begun == \A c \in Callers : caller[c] # "idle" => calls[c] > 0


\* The threads stay at their places.
LEMMA ThreadsStep ==
    ASSUME ThreadsOK, [Next]_vars
    PROVE  ThreadsOK'
<1> USE DEF ThreadsOK, Threads, Places, MainPlaces, ReceiverPlaces, HeartPlaces, Opening, Openers,
           Goto, CallerGoto, client, threads, sending, world
<1>1. CASE CallShutdown
  BY <1>1 DEF CallShutdown
<1>2. CASE ShutdownFailsPending
  BY <1>2 DEF ShutdownFailsPending, FailAllPending
<1>3. CASE ShutdownCancels
  BY <1>3 DEF ShutdownCancels
<1>4. CASE ShutdownCloses
  BY <1>4 DEF ShutdownCloses, CloseTransport, CloseLink, LoseFrames
<1>5. CASE JoinHeartbeat
  BY <1>5 DEF JoinHeartbeat
<1>6. CASE JoinReceiver
  BY <1>6 DEF JoinReceiver
<1>7. CASE ReadBootstrap
  BY <1>7 DEF ReadBootstrap
<1>8. ASSUME NEW p \in Openers, OpenPipe(p) PROVE ThreadsOK'
  BY <1>8 DEF OpenPipe, AttemptFails, Exhausted
<1>9. ASSUME NEW p \in Openers, SayHello(p) PROVE ThreadsOK'
  BY <1>9 DEF SayHello, AttemptFails, Exhausted, CloseLink, LoseFrames
<1>10. ASSUME NEW p \in Openers, ReadWelcome(p) PROVE ThreadsOK'
  BY <1>10 DEF ReadWelcome, AttemptFails, Exhausted, CloseLink, LoseFrames
<1>11. ASSUME NEW p \in Openers, Publish(p) PROVE ThreadsOK'
  BY <1>11 DEF Publish, ReplaceHandle
<1>12. CASE Capture
  BY <1>12 DEF Capture
<1>13. CASE BeginRead
  BY <1>13 DEF BeginRead
<1>14. CASE ReadFails
  BY <1>14 DEF ReadFails
<1>15. CASE ReadFrame
  BY <1>15 DEF ReadFrame, CallOf
<1>16. CASE RunCallback
  BY <1>16 DEF RunCallback
<1>17. CASE CompletePending
  BY <1>17 DEF CompletePending
<1>18. CASE ReceiverFailsPending
  BY <1>18 DEF ReceiverFailsPending, FailAllPending
<1>19. CASE ReceiverCloses
  BY <1>19 DEF ReceiverCloses, CloseTransport, CloseLink, LoseFrames
<1>20. CASE Delay
  BY <1>20 DEF Delay
<1>21. CASE HandshakeCancelled
  BY <1>21 DEF HandshakeCancelled, AttemptFails, Exhausted, CloseLink, LoseFrames
<1>22. CASE ReceiverEnds
  BY <1>22 DEF ReceiverEnds, ClearConnected
<1>23. CASE Tick
  BY <1>23 DEF Tick
<1>24. CASE Beat
  BY <1>24 DEF Beat
<1>25. CASE MarkDisconnected
  BY <1>25 DEF MarkDisconnected
<1>26. ASSUME NEW c \in Callers, TakeId(c) PROVE ThreadsOK'
  BY <1>26 DEF TakeId
<1>27. ASSUME NEW c \in Callers, InsertPending(c) PROVE ThreadsOK'
  BY <1>27 DEF InsertPending
<1>28. ASSUME NEW c \in Callers, WriteRequest(c) PROVE ThreadsOK'
  BY <1>28 DEF WriteRequest
<1>29. ASSUME NEW c \in Callers, Wake(c) PROVE ThreadsOK'
  BY <1>29 DEF Wake
<1>30. ASSUME NEW c \in Callers, ErasePending(c) PROVE ThreadsOK'
  BY <1>30 DEF ErasePending
<1>31. CASE Serve
  BY <1>31 DEF Serve
<1>32. CASE Notify
  BY <1>32 DEF Notify
<1>33. CASE Disconnect
  BY <1>33 DEF Disconnect, LoseFrames
<1>34. CASE UNCHANGED vars
  BY <1>34 DEF vars
<1> QED
  BY <1>1, <1>2, <1>3, <1>4, <1>5, <1>6, <1>7, <1>8, <1>9, <1>10, <1>11, <1>12, <1>13, <1>14, <1>15, <1>16,
     <1>17, <1>18, <1>19, <1>20, <1>21, <1>22, <1>23, <1>24, <1>25, <1>26, <1>27, <1>28, <1>29, <1>30, <1>31, <1>32, <1>33, <1>34
     DEF Next, Main, Connect, Receiver, Heartbeat, Request

\* Flags stay flags.
LEMMA FlagsStep ==
    ASSUME FlagsOK, [Next]_vars
    PROVE  FlagsOK'
<1> USE DEF FlagsOK, Goto, CallerGoto, client, threads, sending, world
<1>1. CASE CallShutdown
  BY <1>1 DEF CallShutdown
<1>2. CASE ShutdownFailsPending
  BY <1>2 DEF ShutdownFailsPending, FailAllPending
<1>3. CASE ShutdownCancels
  BY <1>3 DEF ShutdownCancels
<1>4. CASE ShutdownCloses
  BY <1>4 DEF ShutdownCloses, CloseTransport, CloseLink, LoseFrames
<1>5. CASE JoinHeartbeat
  BY <1>5 DEF JoinHeartbeat
<1>6. CASE JoinReceiver
  BY <1>6 DEF JoinReceiver
<1>7. CASE ReadBootstrap
  BY <1>7 DEF ReadBootstrap
<1>8. ASSUME NEW p \in Openers, OpenPipe(p) PROVE FlagsOK'
  BY <1>8 DEF OpenPipe, AttemptFails, Exhausted
<1>9. ASSUME NEW p \in Openers, SayHello(p) PROVE FlagsOK'
  BY <1>9 DEF SayHello, AttemptFails, Exhausted, CloseLink, LoseFrames
<1>10. ASSUME NEW p \in Openers, ReadWelcome(p) PROVE FlagsOK'
  BY <1>10 DEF ReadWelcome, AttemptFails, Exhausted, CloseLink, LoseFrames
<1>11. ASSUME NEW p \in Openers, Publish(p) PROVE FlagsOK'
  BY <1>11 DEF Publish, ReplaceHandle
<1>12. CASE Capture
  BY <1>12 DEF Capture
<1>13. CASE BeginRead
  BY <1>13 DEF BeginRead
<1>14. CASE ReadFails
  BY <1>14 DEF ReadFails
<1>15. CASE ReadFrame
  BY <1>15 DEF ReadFrame, CallOf
<1>16. CASE RunCallback
  BY <1>16 DEF RunCallback
<1>17. CASE CompletePending
  BY <1>17 DEF CompletePending
<1>18. CASE ReceiverFailsPending
  BY <1>18 DEF ReceiverFailsPending, FailAllPending
<1>19. CASE ReceiverCloses
  BY <1>19 DEF ReceiverCloses, CloseTransport, CloseLink, LoseFrames
<1>20. CASE Delay
  BY <1>20 DEF Delay
<1>21. CASE HandshakeCancelled
  BY <1>21 DEF HandshakeCancelled, AttemptFails, Exhausted, CloseLink, LoseFrames
<1>22. CASE ReceiverEnds
  BY <1>22 DEF ReceiverEnds, ClearConnected
<1>23. CASE Tick
  BY <1>23 DEF Tick
<1>24. CASE Beat
  BY <1>24 DEF Beat
<1>25. CASE MarkDisconnected
  BY <1>25 DEF MarkDisconnected
<1>26. ASSUME NEW c \in Callers, TakeId(c) PROVE FlagsOK'
  BY <1>26 DEF TakeId
<1>27. ASSUME NEW c \in Callers, InsertPending(c) PROVE FlagsOK'
  BY <1>27 DEF InsertPending
<1>28. ASSUME NEW c \in Callers, WriteRequest(c) PROVE FlagsOK'
  BY <1>28 DEF WriteRequest
<1>29. ASSUME NEW c \in Callers, Wake(c) PROVE FlagsOK'
  BY <1>29 DEF Wake
<1>30. ASSUME NEW c \in Callers, ErasePending(c) PROVE FlagsOK'
  BY <1>30 DEF ErasePending
<1>31. CASE Serve
  BY <1>31 DEF Serve
<1>32. CASE Notify
  BY <1>32 DEF Notify
<1>33. CASE Disconnect
  BY <1>33 DEF Disconnect, LoseFrames
<1>34. CASE UNCHANGED vars
  BY <1>34 DEF vars
<1> QED
  BY <1>1, <1>2, <1>3, <1>4, <1>5, <1>6, <1>7, <1>8, <1>9, <1>10, <1>11, <1>12, <1>13, <1>14, <1>15, <1>16,
     <1>17, <1>18, <1>19, <1>20, <1>21, <1>22, <1>23, <1>24, <1>25, <1>26, <1>27, <1>28, <1>29, <1>30, <1>31, <1>32, <1>33, <1>34
     DEF Next, Main, Connect, Receiver, Heartbeat, Request

\* Handles stay handles.
LEMMA HandlesKindStep ==
    ASSUME ThreadsOK, HandlesOK, [Next]_vars
    PROVE  HandlesOK'
<1> USE BoundsAssumption DEF HandlesOK, ThreadsOK, Connections, Openers, Goto, CallerGoto, client, threads, sending, world
<1>1. CASE CallShutdown
  BY <1>1 DEF CallShutdown
<1>2. CASE ShutdownFailsPending
  BY <1>2 DEF ShutdownFailsPending, FailAllPending
<1>3. CASE ShutdownCancels
  BY <1>3 DEF ShutdownCancels
<1>4. CASE ShutdownCloses
  BY <1>4 DEF ShutdownCloses, CloseTransport, CloseLink, LoseFrames
<1>5. CASE JoinHeartbeat
  BY <1>5 DEF JoinHeartbeat
<1>6. CASE JoinReceiver
  BY <1>6 DEF JoinReceiver
<1>7. CASE ReadBootstrap
  BY <1>7 DEF ReadBootstrap
<1>8. ASSUME NEW p \in Openers, OpenPipe(p) PROVE HandlesOK'
  BY <1>8 DEF OpenPipe, AttemptFails, Exhausted
<1>9. ASSUME NEW p \in Openers, SayHello(p) PROVE HandlesOK'
  BY <1>9 DEF SayHello, AttemptFails, Exhausted, CloseLink, LoseFrames
<1>10. ASSUME NEW p \in Openers, ReadWelcome(p) PROVE HandlesOK'
  BY <1>10 DEF ReadWelcome, AttemptFails, Exhausted, CloseLink, LoseFrames
<1>11. ASSUME NEW p \in Openers, Publish(p) PROVE HandlesOK'
  BY <1>11 DEF Publish, ReplaceHandle
<1>12. CASE Capture
  BY <1>12 DEF Capture
<1>13. CASE BeginRead
  BY <1>13 DEF BeginRead
<1>14. CASE ReadFails
  BY <1>14 DEF ReadFails
<1>15. CASE ReadFrame
  BY <1>15 DEF ReadFrame, CallOf
<1>16. CASE RunCallback
  BY <1>16 DEF RunCallback
<1>17. CASE CompletePending
  BY <1>17 DEF CompletePending
<1>18. CASE ReceiverFailsPending
  BY <1>18 DEF ReceiverFailsPending, FailAllPending
<1>19. CASE ReceiverCloses
  BY <1>19 DEF ReceiverCloses, CloseTransport, CloseLink, LoseFrames
<1>20. CASE Delay
  BY <1>20 DEF Delay
<1>21. CASE HandshakeCancelled
  <2>1. hnd' = [hnd EXCEPT !["receiver"] = 0] /\ link' = [link EXCEPT ![hnd["receiver"]] = "closed"] /\ pipe' = pipe
    BY <1>21 DEF HandshakeCancelled, AttemptFails, Exhausted, CloseLink, LoseFrames
  <2>2. hnd' \in [Openers -> 0 .. MaxConnections]
    BY <2>1
  <2>3. link' \in [Connections -> {"none", "up", "broken", "closed"}]
    BY <2>1
  <2> QED
    BY <2>1, <2>2, <2>3
<1>22. CASE ReceiverEnds
  BY <1>22 DEF ReceiverEnds, ClearConnected
<1>23. CASE Tick
  BY <1>23 DEF Tick
<1>24. CASE Beat
  BY <1>24 DEF Beat
<1>25. CASE MarkDisconnected
  BY <1>25 DEF MarkDisconnected
<1>26. ASSUME NEW c \in Callers, TakeId(c) PROVE HandlesOK'
  BY <1>26 DEF TakeId
<1>27. ASSUME NEW c \in Callers, InsertPending(c) PROVE HandlesOK'
  BY <1>27 DEF InsertPending
<1>28. ASSUME NEW c \in Callers, WriteRequest(c) PROVE HandlesOK'
  BY <1>28 DEF WriteRequest
<1>29. ASSUME NEW c \in Callers, Wake(c) PROVE HandlesOK'
  BY <1>29 DEF Wake
<1>30. ASSUME NEW c \in Callers, ErasePending(c) PROVE HandlesOK'
  BY <1>30 DEF ErasePending
<1>31. CASE Serve
  BY <1>31 DEF Serve
<1>32. CASE Notify
  BY <1>32 DEF Notify
<1>33. CASE Disconnect
  BY <1>33 DEF Disconnect, LoseFrames
<1>34. CASE UNCHANGED vars
  BY <1>34 DEF vars
<1> QED
  BY <1>1, <1>2, <1>3, <1>4, <1>5, <1>6, <1>7, <1>8, <1>9, <1>10, <1>11, <1>12, <1>13, <1>14, <1>15, <1>16,
     <1>17, <1>18, <1>19, <1>20, <1>21, <1>22, <1>23, <1>24, <1>25, <1>26, <1>27, <1>28, <1>29, <1>30, <1>31, <1>32, <1>33, <1>34
     DEF Next, Main, Connect, Receiver, Heartbeat, Request

\* Sessions and attempts stay within their bounds.
LEMMA CountsStep ==
    ASSUME ThreadsOK, CountsOK, Counters, [Next]_vars
    PROVE  CountsOK'
<1> USE BoundsAssumption DEF CountsOK, Counters, ThreadsOK, Goto, CallerGoto, client, threads, sending, world
<1>1. CASE CallShutdown
  BY <1>1 DEF CallShutdown
<1>2. CASE ShutdownFailsPending
  BY <1>2 DEF ShutdownFailsPending, FailAllPending
<1>3. CASE ShutdownCancels
  BY <1>3 DEF ShutdownCancels
<1>4. CASE ShutdownCloses
  BY <1>4 DEF ShutdownCloses, CloseTransport, CloseLink, LoseFrames
<1>5. CASE JoinHeartbeat
  BY <1>5 DEF JoinHeartbeat
<1>6. CASE JoinReceiver
  BY <1>6 DEF JoinReceiver
<1>7. CASE ReadBootstrap
  BY <1>7 DEF ReadBootstrap
<1>8. ASSUME NEW p \in Openers, OpenPipe(p) PROVE CountsOK'
  BY <1>8 DEF OpenPipe, AttemptFails, Exhausted
<1>9. ASSUME NEW p \in Openers, SayHello(p) PROVE CountsOK'
  BY <1>9 DEF SayHello, AttemptFails, Exhausted, CloseLink, LoseFrames
<1>10. ASSUME NEW p \in Openers, ReadWelcome(p) PROVE CountsOK'
  BY <1>10 DEF ReadWelcome, AttemptFails, Exhausted, CloseLink, LoseFrames
<1>11. ASSUME NEW p \in Openers, Publish(p) PROVE CountsOK'
  BY <1>11 DEF Publish, ReplaceHandle
<1>12. CASE Capture
  BY <1>12 DEF Capture
<1>13. CASE BeginRead
  BY <1>13 DEF BeginRead
<1>14. CASE ReadFails
  BY <1>14 DEF ReadFails
<1>15. CASE ReadFrame
  BY <1>15 DEF ReadFrame, CallOf
<1>16. CASE RunCallback
  BY <1>16 DEF RunCallback
<1>17. CASE CompletePending
  BY <1>17 DEF CompletePending
<1>18. CASE ReceiverFailsPending
  BY <1>18 DEF ReceiverFailsPending, FailAllPending
<1>19. CASE ReceiverCloses
  BY <1>19 DEF ReceiverCloses, CloseTransport, CloseLink, LoseFrames
<1>20. CASE Delay
  BY <1>20 DEF Delay
<1>21. CASE HandshakeCancelled
  BY <1>21 DEF HandshakeCancelled, AttemptFails, Exhausted, CloseLink, LoseFrames
<1>22. CASE ReceiverEnds
  BY <1>22 DEF ReceiverEnds, ClearConnected
<1>23. CASE Tick
  BY <1>23 DEF Tick
<1>24. CASE Beat
  BY <1>24 DEF Beat
<1>25. CASE MarkDisconnected
  BY <1>25 DEF MarkDisconnected
<1>26. ASSUME NEW c \in Callers, TakeId(c) PROVE CountsOK'
  BY <1>26 DEF TakeId
<1>27. ASSUME NEW c \in Callers, InsertPending(c) PROVE CountsOK'
  BY <1>27 DEF InsertPending
<1>28. ASSUME NEW c \in Callers, WriteRequest(c) PROVE CountsOK'
  BY <1>28 DEF WriteRequest
<1>29. ASSUME NEW c \in Callers, Wake(c) PROVE CountsOK'
  BY <1>29 DEF Wake
<1>30. ASSUME NEW c \in Callers, ErasePending(c) PROVE CountsOK'
  BY <1>30 DEF ErasePending
<1>31. CASE Serve
  BY <1>31 DEF Serve
<1>32. CASE Notify
  BY <1>32 DEF Notify
<1>33. CASE Disconnect
  BY <1>33 DEF Disconnect, LoseFrames
<1>34. CASE UNCHANGED vars
  BY <1>34 DEF vars
<1> QED
  BY <1>1, <1>2, <1>3, <1>4, <1>5, <1>6, <1>7, <1>8, <1>9, <1>10, <1>11, <1>12, <1>13, <1>14, <1>15, <1>16,
     <1>17, <1>18, <1>19, <1>20, <1>21, <1>22, <1>23, <1>24, <1>25, <1>26, <1>27, <1>28, <1>29, <1>30, <1>31, <1>32, <1>33, <1>34
     DEF Next, Main, Connect, Receiver, Heartbeat, Request

\* Callers stay callers.
LEMMA CallersStep ==
    ASSUME CallersOK, MessagesOK, Begun, [Next]_vars
    PROVE  CallersOK' /\ Begun'
<1> USE BoundsAssumption DEF CallersOK, MessagesOK, Begun, CallerPlaces, Goto, CallerGoto, client, threads, sending, world
<1>1. CASE CallShutdown
  BY <1>1 DEF CallShutdown
<1>2. CASE ShutdownFailsPending
  BY <1>2 DEF ShutdownFailsPending, FailAllPending
<1>3. CASE ShutdownCancels
  BY <1>3 DEF ShutdownCancels
<1>4. CASE ShutdownCloses
  BY <1>4 DEF ShutdownCloses, CloseTransport, CloseLink, LoseFrames
<1>5. CASE JoinHeartbeat
  BY <1>5 DEF JoinHeartbeat
<1>6. CASE JoinReceiver
  BY <1>6 DEF JoinReceiver
<1>7. CASE ReadBootstrap
  BY <1>7 DEF ReadBootstrap
<1>8. ASSUME NEW p \in Openers, OpenPipe(p) PROVE CallersOK' /\ Begun'
  BY <1>8 DEF OpenPipe, AttemptFails, Exhausted
<1>9. ASSUME NEW p \in Openers, SayHello(p) PROVE CallersOK' /\ Begun'
  BY <1>9 DEF SayHello, AttemptFails, Exhausted, CloseLink, LoseFrames
<1>10. ASSUME NEW p \in Openers, ReadWelcome(p) PROVE CallersOK' /\ Begun'
  BY <1>10 DEF ReadWelcome, AttemptFails, Exhausted, CloseLink, LoseFrames
<1>11. ASSUME NEW p \in Openers, Publish(p) PROVE CallersOK' /\ Begun'
  BY <1>11 DEF Publish, ReplaceHandle
<1>12. CASE Capture
  BY <1>12 DEF Capture
<1>13. CASE BeginRead
  BY <1>13 DEF BeginRead
<1>14. CASE ReadFails
  BY <1>14 DEF ReadFails
<1>15. CASE ReadFrame
  BY <1>15 DEF ReadFrame, CallOf
<1>16. CASE RunCallback
  BY <1>16 DEF RunCallback
<1>17. CASE CompletePending
  BY <1>17 DEF CompletePending
<1>18. CASE ReceiverFailsPending
  BY <1>18 DEF ReceiverFailsPending, FailAllPending
<1>19. CASE ReceiverCloses
  BY <1>19 DEF ReceiverCloses, CloseTransport, CloseLink, LoseFrames
<1>20. CASE Delay
  BY <1>20 DEF Delay
<1>21. CASE HandshakeCancelled
  BY <1>21 DEF HandshakeCancelled, AttemptFails, Exhausted, CloseLink, LoseFrames
<1>22. CASE ReceiverEnds
  BY <1>22 DEF ReceiverEnds, ClearConnected
<1>23. CASE Tick
  BY <1>23 DEF Tick
<1>24. CASE Beat
  BY <1>24 DEF Beat
<1>25. CASE MarkDisconnected
  BY <1>25 DEF MarkDisconnected
<1>26. ASSUME NEW c \in Callers, TakeId(c) PROVE CallersOK' /\ Begun'
  BY <1>26 DEF TakeId
<1>27. ASSUME NEW c \in Callers, InsertPending(c) PROVE CallersOK' /\ Begun'
  BY <1>27 DEF InsertPending
<1>28. ASSUME NEW c \in Callers, WriteRequest(c) PROVE CallersOK' /\ Begun'
  BY <1>28 DEF WriteRequest
<1>29. ASSUME NEW c \in Callers, Wake(c) PROVE CallersOK' /\ Begun'
  BY <1>29 DEF Wake
<1>30. ASSUME NEW c \in Callers, ErasePending(c) PROVE CallersOK' /\ Begun'
  BY <1>30 DEF ErasePending
<1>31. CASE Serve
  BY <1>31 DEF Serve
<1>32. CASE Notify
  BY <1>32 DEF Notify
<1>33. CASE Disconnect
  BY <1>33 DEF Disconnect, LoseFrames
<1>34. CASE UNCHANGED vars
  BY <1>34 DEF vars
<1> QED
  BY <1>1, <1>2, <1>3, <1>4, <1>5, <1>6, <1>7, <1>8, <1>9, <1>10, <1>11, <1>12, <1>13, <1>14, <1>15, <1>16,
     <1>17, <1>18, <1>19, <1>20, <1>21, <1>22, <1>23, <1>24, <1>25, <1>26, <1>27, <1>28, <1>29, <1>30, <1>31, <1>32, <1>33, <1>34
     DEF Next, Main, Connect, Receiver, Heartbeat, Request

LEMMA AppendOK == ASSUME NEW S, NEW q \in Seq(S), NEW e \in S PROVE Append(q, e) \in Seq(S)
OBVIOUS

LEMMA EmptyOK == <<>> \in Seq(Frames) /\ <<>> \in Seq(Answers)
OBVIOUS

LEMMA CallOK ==
    ASSUME CallersOK, Begun, NEW c \in Callers, caller[c] # "idle"
    PROVE  <<c, calls[c]>> \in Calls /\ id[c] \in Nat
<1>1. calls[c] \in 0 .. MaxCalls /\ calls[c] > 0
  BY DEF CallersOK, Begun
<1>2. calls[c] \in 1 .. MaxCalls
  BY <1>1, BoundsAssumption
<1> QED
  BY <1>2 DEF Calls, CallersOK

\* Messages stay messages, and pending calls stay calls.
LEMMA MessagesStep ==
    ASSUME CallersOK, MessagesOK, Begun, [Next]_vars
    PROVE  MessagesOK'
<1> USE EmptyOK DEF MessagesOK, Goto, CallerGoto, client, threads, sending, world
<1>1. CASE CallShutdown
  BY <1>1 DEF CallShutdown
<1>2. CASE ShutdownFailsPending
  BY <1>2 DEF ShutdownFailsPending, FailAllPending
<1>3. CASE ShutdownCancels
  BY <1>3 DEF ShutdownCancels
<1>4. CASE ShutdownCloses
  BY <1>4 DEF ShutdownCloses, CloseTransport, CloseLink, LoseFrames
<1>5. CASE JoinHeartbeat
  BY <1>5 DEF JoinHeartbeat
<1>6. CASE JoinReceiver
  BY <1>6 DEF JoinReceiver
<1>7. CASE ReadBootstrap
  BY <1>7 DEF ReadBootstrap
<1>8. ASSUME NEW p \in Openers, OpenPipe(p) PROVE MessagesOK'
  BY <1>8 DEF OpenPipe, AttemptFails, Exhausted
<1>9. ASSUME NEW p \in Openers, SayHello(p) PROVE MessagesOK'
  BY <1>9 DEF SayHello, AttemptFails, Exhausted, CloseLink, LoseFrames
<1>10. ASSUME NEW p \in Openers, ReadWelcome(p) PROVE MessagesOK'
  BY <1>10 DEF ReadWelcome, AttemptFails, Exhausted, CloseLink, LoseFrames
<1>11. ASSUME NEW p \in Openers, Publish(p) PROVE MessagesOK'
  BY <1>11 DEF Publish, ReplaceHandle
<1>12. CASE Capture
  BY <1>12 DEF Capture
<1>13. CASE BeginRead
  BY <1>13 DEF BeginRead
<1>14. CASE ReadFails
  BY <1>14 DEF ReadFails
<1>15. CASE ReadFrame
  <2>1. Head(replies) \in Answers /\ replies' \in Seq(Answers)
    BY <1>15 DEF ReadFrame
  <2>2. Head(replies).kind # "overlay" => Head(replies).kind \in {"accepted", "refused"}
    BY <2>1 DEF Answers
  <2>3. CallOf(Head(replies)) \in Calls \union {NoCall}
    BY DEF CallOf
  <2> QED
    BY <1>15, <2>1, <2>2, <2>3 DEF ReadFrame
<1>16. CASE RunCallback
  BY <1>16 DEF RunCallback
<1>17. CASE CompletePending
  BY <1>17 DEF CompletePending
<1>18. CASE ReceiverFailsPending
  BY <1>18 DEF ReceiverFailsPending, FailAllPending
<1>19. CASE ReceiverCloses
  BY <1>19 DEF ReceiverCloses, CloseTransport, CloseLink, LoseFrames
<1>20. CASE Delay
  BY <1>20 DEF Delay
<1>21. CASE HandshakeCancelled
  BY <1>21 DEF HandshakeCancelled, AttemptFails, Exhausted, CloseLink, LoseFrames
<1>22. CASE ReceiverEnds
  BY <1>22 DEF ReceiverEnds, ClearConnected
<1>23. CASE Tick
  BY <1>23 DEF Tick
<1>24. CASE Beat
  BY <1>24 DEF Beat
<1>25. CASE MarkDisconnected
  BY <1>25 DEF MarkDisconnected
<1>26. ASSUME NEW c \in Callers, TakeId(c) PROVE MessagesOK'
  BY <1>26 DEF TakeId
<1>27. ASSUME NEW c \in Callers, InsertPending(c) PROVE MessagesOK'
  <2>1. <<c, calls[c]>> \in Calls /\ id[c] \in Nat
    BY <1>27, CallOK DEF InsertPending
  <2>2. \A i \in DOMAIN pending' : i \in Nat /\ pending'[i] \in Calls
    BY <1>27, <2>1 DEF InsertPending
  <2> QED
    BY <1>27, <2>2 DEF InsertPending
<1>28. ASSUME NEW c \in Callers, WriteRequest(c) PROVE MessagesOK'
  <2>1. <<c, calls[c]>> \in Calls /\ id[c] \in Nat
    BY <1>28, CallOK DEF WriteRequest
  <2>2. [id |-> id[c], call |-> <<c, calls[c]>>] \in Frames
    BY <2>1 DEF Frames
  <2>3. requests' = requests \/ requests' = Append(requests, [id |-> id[c], call |-> <<c, calls[c]>>])
    BY <1>28 DEF WriteRequest
  <2>4. requests' \in Seq(Frames)
    BY <2>2, <2>3, AppendOK
  <2> QED
    BY <1>28, <2>4 DEF WriteRequest
<1>29. ASSUME NEW c \in Callers, Wake(c) PROVE MessagesOK'
  BY <1>29 DEF Wake
<1>30. ASSUME NEW c \in Callers, ErasePending(c) PROVE MessagesOK'
  <2>1. \A i \in DOMAIN pending' : i \in DOMAIN pending /\ pending'[i] = pending[i]
    BY <1>30 DEF ErasePending
  <2> QED
    BY <1>30, <2>1 DEF ErasePending
<1>31. CASE Serve
  <2>1. Head(requests) \in Frames /\ requests' \in Seq(Frames)
    BY <1>31 DEF Serve
  <2>2. PICK kind \in {"accepted", "refused"} :
           /\ replies' = Append(replies, [id |-> Head(requests).id, kind |-> kind])
           /\ accepted' = accepted \union {call \in {Head(requests).call} : kind = "accepted"}
    BY <1>31 DEF Serve
  <2>3. [id |-> Head(requests).id, kind |-> kind] \in Answers
    BY <2>1 DEF Frames, Answers
  <2>4. replies' \in Seq(Answers)
    BY <2>2, <2>3
  <2>5. accepted' \subseteq Calls
    BY <2>1, <2>2 DEF Frames
  <2> QED
    BY <1>31, <2>1, <2>4, <2>5 DEF Serve
<1>32. CASE Notify
  <2>1. [id |-> 0, kind |-> "overlay"] \in Answers
    BY DEF Answers
  <2>2. replies' \in Seq(Answers)
    BY <1>32, <2>1 DEF Notify
  <2> QED
    BY <1>32, <2>2 DEF Notify
<1>33. CASE Disconnect
  BY <1>33 DEF Disconnect, LoseFrames
<1>34. CASE UNCHANGED vars
  BY <1>34 DEF vars
<1> QED
  BY <1>1, <1>2, <1>3, <1>4, <1>5, <1>6, <1>7, <1>8, <1>9, <1>10, <1>11, <1>12, <1>13, <1>14, <1>15, <1>16,
     <1>17, <1>18, <1>19, <1>20, <1>21, <1>22, <1>23, <1>24, <1>25, <1>26, <1>27, <1>28, <1>29, <1>30, <1>31, <1>32, <1>33, <1>34
     DEF Next, Main, Connect, Receiver, Heartbeat, Request

-----------------------------------------------------------------------------
(* Quiet, by its parts.                                                    *)

\* A session is begun and a connection attempted only below the bound.
LEMMA CountersStep ==
    ASSUME ThreadsOK, CountsOK, Counters, [Next]_vars
    PROVE  Counters'
<1> USE BoundsAssumption DEF ThreadsOK, Threads, Openers, Opening, Counters, CountsOK, Stopping, MainPlaces, ReceiverPlaces, Goto, CallerGoto, client, threads, sending, world
<1>1. CASE CallShutdown
  BY <1>1 DEF CallShutdown
<1>2. CASE ShutdownFailsPending
  BY <1>2 DEF ShutdownFailsPending, FailAllPending
<1>3. CASE ShutdownCancels
  BY <1>3 DEF ShutdownCancels
<1>4. CASE ShutdownCloses
  BY <1>4 DEF ShutdownCloses, CloseTransport, CloseLink, LoseFrames
<1>5. CASE JoinHeartbeat
  BY <1>5 DEF JoinHeartbeat
<1>6. CASE JoinReceiver
  BY <1>6 DEF JoinReceiver
<1>7. CASE ReadBootstrap
  BY <1>7 DEF ReadBootstrap
<1>8. ASSUME NEW p \in Openers, OpenPipe(p) PROVE Counters'
  BY <1>8 DEF OpenPipe, AttemptFails, Exhausted
<1>9. ASSUME NEW p \in Openers, SayHello(p) PROVE Counters'
  BY <1>9 DEF SayHello, AttemptFails, Exhausted, CloseLink, LoseFrames
<1>10. ASSUME NEW p \in Openers, ReadWelcome(p) PROVE Counters'
  BY <1>10 DEF ReadWelcome, AttemptFails, Exhausted, CloseLink, LoseFrames
<1>11. ASSUME NEW p \in Openers, Publish(p) PROVE Counters'
  BY <1>11 DEF Publish, ReplaceHandle
<1>12. CASE Capture
  BY <1>12 DEF Capture
<1>13. CASE BeginRead
  BY <1>13 DEF BeginRead
<1>14. CASE ReadFails
  BY <1>14 DEF ReadFails
<1>15. CASE ReadFrame
  BY <1>15 DEF ReadFrame, CallOf
<1>16. CASE RunCallback
  BY <1>16 DEF RunCallback
<1>17. CASE CompletePending
  BY <1>17 DEF CompletePending
<1>18. CASE ReceiverFailsPending
  BY <1>18 DEF ReceiverFailsPending, FailAllPending
<1>19. CASE ReceiverCloses
  BY <1>19 DEF ReceiverCloses, CloseTransport, CloseLink, LoseFrames
<1>20. CASE Delay
  BY <1>20 DEF Delay
<1>21. CASE HandshakeCancelled
  BY <1>21 DEF HandshakeCancelled, AttemptFails, Exhausted, CloseLink, LoseFrames
<1>22. CASE ReceiverEnds
  BY <1>22 DEF ReceiverEnds, ClearConnected
<1>23. CASE Tick
  BY <1>23 DEF Tick
<1>24. CASE Beat
  BY <1>24 DEF Beat
<1>25. CASE MarkDisconnected
  BY <1>25 DEF MarkDisconnected
<1>26. ASSUME NEW c \in Callers, TakeId(c) PROVE Counters'
  BY <1>26 DEF TakeId
<1>27. ASSUME NEW c \in Callers, InsertPending(c) PROVE Counters'
  BY <1>27 DEF InsertPending
<1>28. ASSUME NEW c \in Callers, WriteRequest(c) PROVE Counters'
  BY <1>28 DEF WriteRequest
<1>29. ASSUME NEW c \in Callers, Wake(c) PROVE Counters'
  BY <1>29 DEF Wake
<1>30. ASSUME NEW c \in Callers, ErasePending(c) PROVE Counters'
  BY <1>30 DEF ErasePending
<1>31. CASE Serve
  BY <1>31 DEF Serve
<1>32. CASE Notify
  BY <1>32 DEF Notify
<1>33. CASE Disconnect
  BY <1>33 DEF Disconnect, LoseFrames
<1>34. CASE UNCHANGED vars
  BY <1>34 DEF vars
<1> QED
  BY <1>1, <1>2, <1>3, <1>4, <1>5, <1>6, <1>7, <1>8, <1>9, <1>10, <1>11, <1>12, <1>13, <1>14, <1>15, <1>16,
     <1>17, <1>18, <1>19, <1>20, <1>21, <1>22, <1>23, <1>24, <1>25, <1>26, <1>27, <1>28, <1>29, <1>30, <1>31, <1>32, <1>33, <1>34
     DEF Next, Main, Connect, Receiver, Heartbeat, Request

\* The threads are joined before the main thread goes on.
LEMMA JoinedStep ==
    ASSUME ThreadsOK, FlagsOK, Joined, [Next]_vars
    PROVE  Joined'
<1> USE DEF ThreadsOK, Threads, Openers, Opening, Joined, Over, Stopping, MainPlaces, ReceiverPlaces, HeartPlaces, Goto, CallerGoto, client, threads, sending, world
<1>1. CASE CallShutdown
  BY <1>1 DEF CallShutdown
<1>2. CASE ShutdownFailsPending
  BY <1>2 DEF ShutdownFailsPending, FailAllPending
<1>3. CASE ShutdownCancels
  BY <1>3 DEF ShutdownCancels
<1>4. CASE ShutdownCloses
  BY <1>4 DEF ShutdownCloses, CloseTransport, CloseLink, LoseFrames
<1>5. CASE JoinHeartbeat
  BY <1>5 DEF JoinHeartbeat
<1>6. CASE JoinReceiver
  BY <1>6 DEF JoinReceiver
<1>7. CASE ReadBootstrap
  BY <1>7 DEF ReadBootstrap
<1>8. ASSUME NEW p \in Openers, OpenPipe(p) PROVE Joined'
  BY <1>8 DEF OpenPipe, AttemptFails, Exhausted
<1>9. ASSUME NEW p \in Openers, SayHello(p) PROVE Joined'
  BY <1>9 DEF SayHello, AttemptFails, Exhausted, CloseLink, LoseFrames
<1>10. ASSUME NEW p \in Openers, ReadWelcome(p) PROVE Joined'
  BY <1>10 DEF ReadWelcome, AttemptFails, Exhausted, CloseLink, LoseFrames
<1>11. ASSUME NEW p \in Openers, Publish(p) PROVE Joined'
  BY <1>11 DEF Publish, ReplaceHandle
<1>12. CASE Capture
  BY <1>12 DEF Capture
<1>13. CASE BeginRead
  BY <1>13 DEF BeginRead
<1>14. CASE ReadFails
  BY <1>14 DEF ReadFails
<1>15. CASE ReadFrame
  BY <1>15 DEF ReadFrame, CallOf
<1>16. CASE RunCallback
  BY <1>16 DEF RunCallback
<1>17. CASE CompletePending
  BY <1>17 DEF CompletePending
<1>18. CASE ReceiverFailsPending
  BY <1>18 DEF ReceiverFailsPending, FailAllPending
<1>19. CASE ReceiverCloses
  BY <1>19 DEF ReceiverCloses, CloseTransport, CloseLink, LoseFrames
<1>20. CASE Delay
  BY <1>20 DEF Delay
<1>21. CASE HandshakeCancelled
  BY <1>21 DEF HandshakeCancelled, AttemptFails, Exhausted, CloseLink, LoseFrames
<1>22. CASE ReceiverEnds
  BY <1>22 DEF ReceiverEnds, ClearConnected
<1>23. CASE Tick
  BY <1>23 DEF Tick
<1>24. CASE Beat
  BY <1>24 DEF Beat
<1>25. CASE MarkDisconnected
  BY <1>25 DEF MarkDisconnected
<1>26. ASSUME NEW c \in Callers, TakeId(c) PROVE Joined'
  BY <1>26 DEF TakeId
<1>27. ASSUME NEW c \in Callers, InsertPending(c) PROVE Joined'
  BY <1>27 DEF InsertPending
<1>28. ASSUME NEW c \in Callers, WriteRequest(c) PROVE Joined'
  BY <1>28 DEF WriteRequest
<1>29. ASSUME NEW c \in Callers, Wake(c) PROVE Joined'
  BY <1>29 DEF Wake
<1>30. ASSUME NEW c \in Callers, ErasePending(c) PROVE Joined'
  BY <1>30 DEF ErasePending
<1>31. CASE Serve
  BY <1>31 DEF Serve
<1>32. CASE Notify
  BY <1>32 DEF Notify
<1>33. CASE Disconnect
  BY <1>33 DEF Disconnect, LoseFrames
<1>34. CASE UNCHANGED vars
  BY <1>34 DEF vars
<1> QED
  BY <1>1, <1>2, <1>3, <1>4, <1>5, <1>6, <1>7, <1>8, <1>9, <1>10, <1>11, <1>12, <1>13, <1>14, <1>15, <1>16,
     <1>17, <1>18, <1>19, <1>20, <1>21, <1>22, <1>23, <1>24, <1>25, <1>26, <1>27, <1>28, <1>29, <1>30, <1>31, <1>32, <1>33, <1>34
     DEF Next, Main, Connect, Receiver, Heartbeat, Request

\* An attempt that fails gives up the handle it holds.
LEMMA AttemptKeepsHandles ==
    ASSUME ThreadsOK, HandlesOK, Handles, NEW p \in Openers, at[p] \in Connecting, AttemptFails(p), UNCHANGED pipe,
           \/ at[p] = "open" /\ UNCHANGED link
           \/ at[p] # "open" /\ link' = [link EXCEPT ![hnd[p]] = "closed"]
    PROVE  Handles'
<1>1. hnd' = [hnd EXCEPT ![p] = 0] /\ \E place \in {"idle", "end", "delay"} : at' = [at EXCEPT ![p] = place]
  BY DEF AttemptFails, Goto
<1>2. \A q \in Openers : at'[q] \in Connecting \ {"open"} => q # p /\ at'[q] = at[q] /\ hnd'[q] = hnd[q]
  BY <1>1 DEF ThreadsOK, Threads, Openers, Connecting, Opening, HandlesOK
<1>3. ASSUME NEW n \in Connections, link'[n] \in {"up", "broken"}
      PROVE  n = pipe \/ \E q \in Openers : at'[q] \in Connecting \ {"open"} /\ hnd'[q] = n
  <2>1. link[n] \in {"up", "broken"} /\ (at[p] # "open" => n # hnd[p])
    BY <1>3 DEF HandlesOK
  <2>2. CASE n # pipe
    <3>1. PICK q \in Openers : at[q] \in Connecting \ {"open"} /\ hnd[q] = n
      BY <2>1, <2>2 DEF Handles
    <3>2. q # p
      BY <2>1, <3>1
    <3>3. at'[q] = at[q] /\ hnd'[q] = hnd[q]
      BY <1>1, <3>2 DEF ThreadsOK, Threads, Openers, HandlesOK
    <3> QED
      BY <3>1, <3>3
  <2> QED
    BY <2>2
<1> QED
  BY <1>2, <1>3 DEF Handles


\* An open connection is in somebody's hands.
LEMMA HandlesStep ==
    ASSUME ThreadsOK, HandlesOK, Joined, Handles, [Next]_vars
    PROVE  Handles'
<1> USE DEF ThreadsOK, Threads, Openers, Opening, HandlesOK, Joined, Handles, Over, Connections, Connecting, MainPlaces, ReceiverPlaces, Goto, CallerGoto, client, threads, sending, world
<1>1. CASE CallShutdown
  BY <1>1 DEF CallShutdown
<1>2. CASE ShutdownFailsPending
  BY <1>2 DEF ShutdownFailsPending, FailAllPending
<1>3. CASE ShutdownCancels
  BY <1>3 DEF ShutdownCancels
<1>4. CASE ShutdownCloses
  <2>1. UNCHANGED hnd /\ pipe' = 0 /\ link' = (IF pipe = 0 THEN link ELSE [link EXCEPT ![pipe] = "closed"])
    BY <1>4 DEF ShutdownCloses, CloseTransport, CloseLink, LoseFrames
  <2>2. \A q \in Openers : at[q] \in Connecting \ {"open"} <=> at'[q] \in Connecting \ {"open"}
    BY <1>4 DEF ShutdownCloses
  <2>3. \A q \in Openers : at'[q] \in Connecting \ {"open"} => at'[q] = at[q]
    BY <1>4 DEF ShutdownCloses
  <2>4. \A n \in Connections : link'[n] \in {"up", "broken"} => n # pipe /\ link[n] = link'[n]
    BY <2>1
  <2> QED
    BY <2>1, <2>2, <2>3, <2>4
<1>5. CASE JoinHeartbeat
  BY <1>5 DEF JoinHeartbeat
<1>6. CASE JoinReceiver
  BY <1>6 DEF JoinReceiver
<1>7. CASE ReadBootstrap
  BY <1>7 DEF ReadBootstrap
<1>8. ASSUME NEW p \in Openers, OpenPipe(p) PROVE Handles'
  <2>1. CASE AttemptFails(p) /\ UNCHANGED link
    BY <1>8, <2>1, AttemptKeepsHandles DEF OpenPipe
  <2>2. ASSUME NEW n \in Connections, link[n] = "none", link' = [link EXCEPT ![n] = "up"],
               hnd' = [hnd EXCEPT ![p] = n], at' = [at EXCEPT ![p] = "hello"]
        PROVE  Handles'
    <3>1. \A q \in Openers : at[q] \in Connecting \ {"open"} => at'[q] = at[q] /\ hnd'[q] = hnd[q]
      BY <1>8, <2>2 DEF OpenPipe
    <3>2. hnd'[p] = n /\ at'[p] = "hello" /\ UNCHANGED pipe
      BY <1>8, <2>2 DEF OpenPipe
    <3>3. \A m \in Connections : m # n => link'[m] = link[m]
      BY <2>2
    <3>4. \A q \in Openers : q # p => at'[q] = at[q] /\ hnd'[q] = hnd[q]
      BY <2>2
    <3> QED
      BY <3>1, <3>2, <3>3, <3>4
  <2> QED
    BY <1>8, <2>1, <2>2 DEF OpenPipe
<1>9. ASSUME NEW p \in Openers, SayHello(p) PROVE Handles'
  <2>1. CASE AttemptFails(p) /\ CloseLink(hnd[p])
    <3>1. at[p] \in Connecting /\ at[p] # "open" /\ UNCHANGED pipe
      BY <1>9 DEF SayHello
    <3> QED
      BY <2>1, <3>1, AttemptKeepsHandles DEF CloseLink
  <2>2. CASE Goto(p, "welcome") /\ UNCHANGED <<hnd, link>>
    <3>1. at[p] \in Connecting \ {"open"} /\ UNCHANGED pipe
      BY <1>9 DEF SayHello
    <3>2. \A q \in Openers : at'[q] \in Connecting \ {"open"} <=> at[q] \in Connecting \ {"open"}
      BY <2>2, <3>1
    <3> QED
      BY <2>2, <3>1, <3>2
  <2> QED
    BY <1>9, <2>1, <2>2 DEF SayHello
<1>10. ASSUME NEW p \in Openers, ReadWelcome(p) PROVE Handles'
  <2>1. CASE AttemptFails(p) /\ CloseLink(hnd[p])
    <3>1. at[p] \in Connecting /\ at[p] # "open" /\ UNCHANGED pipe
      BY <1>10 DEF ReadWelcome
    <3> QED
      BY <2>1, <3>1, AttemptKeepsHandles DEF CloseLink
  <2>2. CASE Goto(p, "publish") /\ UNCHANGED <<hnd, link>>
    <3>1. at[p] \in Connecting \ {"open"} /\ UNCHANGED pipe
      BY <1>10 DEF ReadWelcome
    <3>2. \A q \in Openers : at'[q] \in Connecting \ {"open"} <=> at[q] \in Connecting \ {"open"}
      BY <2>2, <3>1
    <3> QED
      BY <2>2, <3>1, <3>2
  <2> QED
    BY <1>10, <2>1, <2>2 DEF ReadWelcome
<1>11. ASSUME NEW p \in Openers, Publish(p) PROVE Handles'
  BY <1>11 DEF Publish, ReplaceHandle
<1>12. CASE Capture
  BY <1>12 DEF Capture
<1>13. CASE BeginRead
  BY <1>13 DEF BeginRead
<1>14. CASE ReadFails
  BY <1>14 DEF ReadFails
<1>15. CASE ReadFrame
  BY <1>15 DEF ReadFrame, CallOf
<1>16. CASE RunCallback
  BY <1>16 DEF RunCallback
<1>17. CASE CompletePending
  BY <1>17 DEF CompletePending
<1>18. CASE ReceiverFailsPending
  BY <1>18 DEF ReceiverFailsPending, FailAllPending
<1>19. CASE ReceiverCloses
  BY <1>19 DEF ReceiverCloses, CloseTransport, CloseLink, LoseFrames
<1>20. CASE Delay
  BY <1>20 DEF Delay
<1>21. CASE HandshakeCancelled
  BY <1>21 DEF HandshakeCancelled, AttemptFails, Exhausted, CloseLink, LoseFrames
<1>22. CASE ReceiverEnds
  BY <1>22 DEF ReceiverEnds, ClearConnected
<1>23. CASE Tick
  BY <1>23 DEF Tick
<1>24. CASE Beat
  BY <1>24 DEF Beat
<1>25. CASE MarkDisconnected
  BY <1>25 DEF MarkDisconnected
<1>26. ASSUME NEW c \in Callers, TakeId(c) PROVE Handles'
  BY <1>26 DEF TakeId
<1>27. ASSUME NEW c \in Callers, InsertPending(c) PROVE Handles'
  BY <1>27 DEF InsertPending
<1>28. ASSUME NEW c \in Callers, WriteRequest(c) PROVE Handles'
  BY <1>28 DEF WriteRequest
<1>29. ASSUME NEW c \in Callers, Wake(c) PROVE Handles'
  BY <1>29 DEF Wake
<1>30. ASSUME NEW c \in Callers, ErasePending(c) PROVE Handles'
  BY <1>30 DEF ErasePending
<1>31. CASE Serve
  BY <1>31 DEF Serve
<1>32. CASE Notify
  BY <1>32 DEF Notify
<1>33. CASE Disconnect
  BY <1>33 DEF Disconnect, LoseFrames
<1>34. CASE UNCHANGED vars
  BY <1>34 DEF vars
<1> QED
  BY <1>1, <1>2, <1>3, <1>4, <1>5, <1>6, <1>7, <1>8, <1>9, <1>10, <1>11, <1>12, <1>13, <1>14, <1>15, <1>16,
     <1>17, <1>18, <1>19, <1>20, <1>21, <1>22, <1>23, <1>24, <1>25, <1>26, <1>27, <1>28, <1>29, <1>30, <1>31, <1>32, <1>33, <1>34
     DEF Next, Main, Connect, Receiver, Heartbeat, Request

-----------------------------------------------------------------------------
(* One session, by its parts.                                              *)

LEMMA ElementsOf ==
    ASSUME NEW S, NEW q \in Seq(S)
    PROVE  /\ Elements(<<>>) = {}
           /\ \A e \in S : Elements(Append(q, e)) = Elements(q) \union {e}
           /\ q # <<>> => Head(q) \in Elements(q) /\ Elements(Tail(q)) \subseteq Elements(q)
<1>1. Elements(<<>>) = {}
  BY DEF Elements
<1>2. ASSUME NEW e \in S PROVE Elements(Append(q, e)) = Elements(q) \union {e}
  <2>1. DOMAIN Append(q, e) = DOMAIN q \union {Len(q) + 1} /\ Len(q) \in Nat /\ DOMAIN q = 1 .. Len(q)
    OBVIOUS
  <2>2. \A k \in DOMAIN q : Append(q, e)[k] = q[k]
    OBVIOUS
  <2>3. Append(q, e)[Len(q) + 1] = e
    OBVIOUS
  <2> QED
    BY <2>1, <2>2, <2>3 DEF Elements
<1>3. ASSUME q # <<>> PROVE Head(q) \in Elements(q) /\ Elements(Tail(q)) \subseteq Elements(q)
  <2>1. Len(q) > 0 /\ Len(q) \in Nat /\ DOMAIN q = 1 .. Len(q) /\ Head(q) = q[1]
    BY <1>3
  <2>2. DOMAIN Tail(q) = 1 .. (Len(q) - 1)
    BY <1>3
  <2>3. \A k \in DOMAIN Tail(q) : Tail(q)[k] = q[k + 1] /\ k + 1 \in DOMAIN q
    BY <1>3, <2>1, <2>2
  <2> QED
    BY <2>1, <2>3 DEF Elements
<1> QED
  BY <1>1, <1>2, <1>3

LEMMA NoElements == Elements(<<>>) = {}
BY DEF Elements


\* Nothing is sent before the one session has begun.
LEMMA UnsentStep ==
    ASSUME ThreadsOK, CountsOK, OneSession, Counters, Joined, Unsent, [Next]_vars
    PROVE  Unsent'
<1> USE BoundsAssumption DEF ThreadsOK, Threads, Openers, Opening, Unsent, NothingSent, CountsOK, OneSession, Counters, Joined, Over, Goto, CallerGoto, client, threads, sending, world
<1>1. CASE CallShutdown
  BY <1>1 DEF CallShutdown
<1>2. CASE ShutdownFailsPending
  BY <1>2 DEF ShutdownFailsPending, FailAllPending
<1>3. CASE ShutdownCancels
  BY <1>3 DEF ShutdownCancels
<1>4. CASE ShutdownCloses
  BY <1>4 DEF ShutdownCloses, CloseTransport, CloseLink, LoseFrames
<1>5. CASE JoinHeartbeat
  BY <1>5 DEF JoinHeartbeat
<1>6. CASE JoinReceiver
  BY <1>6 DEF JoinReceiver
<1>7. CASE ReadBootstrap
  BY <1>7 DEF ReadBootstrap
<1>8. ASSUME NEW p \in Openers, OpenPipe(p) PROVE Unsent'
  BY <1>8 DEF OpenPipe, AttemptFails, Exhausted
<1>9. ASSUME NEW p \in Openers, SayHello(p) PROVE Unsent'
  BY <1>9 DEF SayHello, AttemptFails, Exhausted, CloseLink, LoseFrames
<1>10. ASSUME NEW p \in Openers, ReadWelcome(p) PROVE Unsent'
  BY <1>10 DEF ReadWelcome, AttemptFails, Exhausted, CloseLink, LoseFrames
<1>11. ASSUME NEW p \in Openers, Publish(p) PROVE Unsent'
  BY <1>11 DEF Publish, ReplaceHandle
<1>12. CASE Capture
  BY <1>12 DEF Capture
<1>13. CASE BeginRead
  BY <1>13 DEF BeginRead
<1>14. CASE ReadFails
  BY <1>14 DEF ReadFails
<1>15. CASE ReadFrame
  BY <1>15 DEF ReadFrame, CallOf
<1>16. CASE RunCallback
  BY <1>16 DEF RunCallback
<1>17. CASE CompletePending
  BY <1>17 DEF CompletePending
<1>18. CASE ReceiverFailsPending
  BY <1>18 DEF ReceiverFailsPending, FailAllPending
<1>19. CASE ReceiverCloses
  BY <1>19 DEF ReceiverCloses, CloseTransport, CloseLink, LoseFrames
<1>20. CASE Delay
  BY <1>20 DEF Delay
<1>21. CASE HandshakeCancelled
  BY <1>21 DEF HandshakeCancelled, AttemptFails, Exhausted, CloseLink, LoseFrames
<1>22. CASE ReceiverEnds
  BY <1>22 DEF ReceiverEnds, ClearConnected
<1>23. CASE Tick
  BY <1>23 DEF Tick
<1>24. CASE Beat
  BY <1>24 DEF Beat
<1>25. CASE MarkDisconnected
  BY <1>25 DEF MarkDisconnected
<1>26. ASSUME NEW c \in Callers, TakeId(c) PROVE Unsent'
  BY <1>26 DEF TakeId
<1>27. ASSUME NEW c \in Callers, InsertPending(c) PROVE Unsent'
  BY <1>27 DEF InsertPending
<1>28. ASSUME NEW c \in Callers, WriteRequest(c) PROVE Unsent'
  BY <1>28 DEF WriteRequest
<1>29. ASSUME NEW c \in Callers, Wake(c) PROVE Unsent'
  BY <1>29 DEF Wake
<1>30. ASSUME NEW c \in Callers, ErasePending(c) PROVE Unsent'
  BY <1>30 DEF ErasePending
<1>31. CASE Serve
  BY <1>31 DEF Serve
<1>32. CASE Notify
  BY <1>32 DEF Notify
<1>33. CASE Disconnect
  BY <1>33 DEF Disconnect, LoseFrames
<1>34. CASE UNCHANGED vars
  BY <1>34 DEF vars
<1> QED
  BY <1>1, <1>2, <1>3, <1>4, <1>5, <1>6, <1>7, <1>8, <1>9, <1>10, <1>11, <1>12, <1>13, <1>14, <1>15, <1>16,
     <1>17, <1>18, <1>19, <1>20, <1>21, <1>22, <1>23, <1>24, <1>25, <1>26, <1>27, <1>28, <1>29, <1>30, <1>31, <1>32, <1>33, <1>34
     DEF Next, Main, Connect, Receiver, Heartbeat, Request

LEMMA AppendElements ==
    ASSUME NEW S, NEW q \in Seq(S), NEW e \in S
    PROVE  Elements(Append(q, e)) = Elements(q) \union {e}
BY ElementsOf

LEMMA FrameIds ==
    ASSUME MessagesOK, NEW f \in Elements(requests) \union Elements(replies)
    PROVE  f.id \in Nat
<1>1. requests \in Seq(Frames) /\ replies \in Seq(Answers)
  BY DEF MessagesOK
<1>2. CASE f \in Elements(requests)
  <2>1. f \in Frames
    BY <1>1, <1>2 DEF Elements
  <2> QED
    BY <2>1 DEF Frames
<1>3. CASE f \in Elements(replies)
  <2>1. f \in Answers
    BY <1>1, <1>3 DEF Elements
  <2> QED
    BY <2>1 DEF Answers
<1> QED
  BY <1>2, <1>3

\* The ids stay fresh when no call begins and no frame brings an id that is not on the wire.
LEMMA FreshKept ==
    ASSUME Fresh, UNCHANGED <<nextId, id>>, at'["receiver"] \notin Over => at["receiver"] \notin Over,
           \A d \in Callers : caller'[d] # "idle" => caller[d] # "idle",
           \A d \in Callers : caller'[d] \in BeforeWrite => caller[d] \in BeforeWrite /\ caller'[d] # "idle",
           \A f \in Elements(requests') \union Elements(replies') :
              f.id = 0 \/ \E g \in Elements(requests) \union Elements(replies) : f.id = g.id
    PROVE  Fresh'
<1>1. \A f \in Elements(requests') \union Elements(replies') : at'["receiver"] \notin Over => f.id < nextId'
  BY DEF Fresh
<1>2. \A d \in Callers : caller'[d] \in BeforeWrite =>
          \A f \in Elements(requests') \union Elements(replies') : f.id # id'[d]
  <2> SUFFICES ASSUME NEW d \in Callers, caller'[d] \in BeforeWrite,
                      NEW f \in Elements(requests') \union Elements(replies')
               PROVE  f.id # id[d]
    OBVIOUS
  <2>1. id[d] > 0
    BY DEF Fresh
  <2> QED
    BY <2>1 DEF Fresh
<1> QED
  BY <1>1, <1>2 DEF Fresh

\* An id is given to one call, and no frame has it before the call is written.
LEMMA FreshStep ==
    ASSUME ThreadsOK, CallersOK, MessagesOK, Begun, Joined, Unsent, Fresh, [Next]_vars
    PROVE  Fresh'
<1> USE NoElements DEF ThreadsOK, Threads, Openers, CallersOK, MessagesOK, Joined, Fresh, Over, BeforeWrite, Goto, CallerGoto, client, threads, sending, world
<1>1. CASE CallShutdown
  BY <1>1 DEF CallShutdown
<1>2. CASE ShutdownFailsPending
  BY <1>2 DEF ShutdownFailsPending, FailAllPending
<1>3. CASE ShutdownCancels
  BY <1>3 DEF ShutdownCancels
<1>4. CASE ShutdownCloses
  BY <1>4 DEF ShutdownCloses, CloseTransport, CloseLink, LoseFrames
<1>5. CASE JoinHeartbeat
  BY <1>5 DEF JoinHeartbeat
<1>6. CASE JoinReceiver
  BY <1>6 DEF JoinReceiver, ReceiverPlaces
<1>7. CASE ReadBootstrap
  BY <1>7 DEF ReadBootstrap
<1>8. ASSUME NEW p \in Openers, OpenPipe(p) PROVE Fresh'
  BY <1>8 DEF OpenPipe, AttemptFails, Exhausted
<1>9. ASSUME NEW p \in Openers, SayHello(p) PROVE Fresh'
  BY <1>9 DEF SayHello, AttemptFails, Exhausted, CloseLink, LoseFrames
<1>10. ASSUME NEW p \in Openers, ReadWelcome(p) PROVE Fresh'
  BY <1>10 DEF ReadWelcome, AttemptFails, Exhausted, CloseLink, LoseFrames
<1>11. ASSUME NEW p \in Openers, Publish(p) PROVE Fresh'
  <2>1. CASE p = "main"
    BY <1>11, <2>1 DEF Publish, Unsent, NothingSent, Opening
  <2>2. CASE p = "receiver"
    BY <1>11, <2>2 DEF Publish
  <2> QED
    BY <2>1, <2>2
<1>12. CASE Capture
  BY <1>12 DEF Capture
<1>13. CASE BeginRead
  BY <1>13 DEF BeginRead
<1>14. CASE ReadFails
  BY <1>14 DEF ReadFails
<1>15. CASE ReadFrame
  <2>1. Elements(replies') \subseteq Elements(replies) /\ Head(replies) \in Elements(replies)
    BY <1>15, ElementsOf DEF ReadFrame
  <2> QED
    BY <1>15, <2>1 DEF ReadFrame
<1>16. CASE RunCallback
  BY <1>16 DEF RunCallback
<1>17. CASE CompletePending
  BY <1>17 DEF CompletePending
<1>18. CASE ReceiverFailsPending
  BY <1>18 DEF ReceiverFailsPending, FailAllPending
<1>19. CASE ReceiverCloses
  BY <1>19 DEF ReceiverCloses, CloseTransport, CloseLink, LoseFrames
<1>20. CASE Delay
  BY <1>20 DEF Delay
<1>21. CASE HandshakeCancelled
  BY <1>21 DEF HandshakeCancelled, AttemptFails, Exhausted, CloseLink, LoseFrames
<1>22. CASE ReceiverEnds
  BY <1>22 DEF ReceiverEnds, ClearConnected
<1>23. CASE Tick
  BY <1>23 DEF Tick
<1>24. CASE Beat
  BY <1>24 DEF Beat
<1>25. CASE MarkDisconnected
  BY <1>25 DEF MarkDisconnected
<1>26. ASSUME NEW c \in Callers, TakeId(c) PROVE Fresh'
  <2>1. at["receiver"] \notin Over
    BY <1>26 DEF TakeId
  <2>2. caller[c] = "idle" /\ caller' = [caller EXCEPT ![c] = "insert"] /\ id' = [id EXCEPT ![c] = nextId]
        /\ nextId' = nextId + 1 /\ UNCHANGED <<at, requests, replies>>
    BY <1>26 DEF TakeId
  <2>3. id'[c] = nextId /\ \A d \in Callers \ {c} : caller'[d] = caller[d] /\ id'[d] = id[d]
    BY <2>2
  <2>4. \A d \in Callers : caller'[d] # "idle" => id'[d] > 0 /\ id'[d] < nextId'
    BY <2>1, <2>2, <2>3
  <2>5. \A d, e \in Callers : caller'[d] # "idle" /\ caller'[e] # "idle" /\ id'[d] = id'[e] => d = e
    <3>1. \A d \in Callers \ {c} : caller'[d] # "idle" => id'[d] # nextId
      BY <2>1, <2>3
    <3> SUFFICES ASSUME NEW d \in Callers, NEW e \in Callers, caller'[d] # "idle", caller'[e] # "idle", id'[d] = id'[e]
                 PROVE  d = e
      OBVIOUS
    <3>2. CASE d = c \/ e = c
      BY <2>3, <3>1, <3>2
    <3>3. CASE d # c /\ e # c
      BY <2>3, <3>3
    <3> QED
      BY <3>2, <3>3
  <2>6. \A f \in Elements(requests) \union Elements(replies) : f.id < nextId /\ f.id \in Nat
    BY <2>1, FrameIds
  <2>7. \A d \in Callers : caller'[d] \in BeforeWrite =>
           \A f \in Elements(requests) \union Elements(replies) : f.id # id'[d]
    <3> SUFFICES ASSUME NEW d \in Callers, caller'[d] \in BeforeWrite,
                        NEW f \in Elements(requests) \union Elements(replies)
                 PROVE  f.id # id'[d]
      OBVIOUS
    <3>1. CASE d = c
      BY <2>2, <2>6, <3>1
    <3>2. CASE d # c
      BY <2>2, <3>2
    <3> QED
      BY <3>1, <3>2
  <2>8. \A f \in Elements(requests') \union Elements(replies') : f.id < nextId'
    BY <2>2, <2>6
  <2> QED
    BY <2>2, <2>4, <2>5, <2>7, <2>8
<1>27. ASSUME NEW c \in Callers, InsertPending(c) PROVE Fresh'
  BY <1>27 DEF InsertPending
<1>28. ASSUME NEW c \in Callers, WriteRequest(c) PROVE Fresh'
  <2> DEFINE frame == [id |-> id[c], call |-> <<c, calls[c]>>]
  <2>1. frame \in Frames /\ frame.id = id[c] /\ frame.call = <<c, calls[c]>>
    BY <1>28, CallOK DEF WriteRequest, Frames
  <2>2. Elements(requests') \subseteq Elements(requests) \union {frame}
    <3>1. requests' = requests \/ requests' = Append(requests, frame)
      BY <1>28 DEF WriteRequest
    <3> HIDE DEF frame
    <3>2. requests \in Seq(Frames)
      BY DEF MessagesOK
    <3>3. Elements(Append(requests, frame)) = Elements(requests) \union {frame}
      BY <2>1, <3>2, AppendElements
    <3> QED
      BY <3>1, <3>3
  <2>3. UNCHANGED <<at, id, nextId, replies>> /\ caller[c] = "write" /\ \E place \in {"wait", "unwritten"} : caller' = [caller EXCEPT ![c] = place]
    BY <1>28 DEF WriteRequest
  <2>4. \A f \in Elements(requests') : f \in Elements(requests) \/ f.id = id[c]
    BY <2>1, <2>2
  <2>5. \A d \in Callers : caller'[d] \in BeforeWrite => caller[d] \in BeforeWrite /\ d # c
    BY <2>3
  <2>6. \A d \in Callers : caller'[d] # "idle" <=> caller[d] # "idle"
    BY <2>3
  <2> QED
    BY <2>3, <2>4, <2>5, <2>6
<1>29. ASSUME NEW c \in Callers, Wake(c) PROVE Fresh'
  <2>1. UNCHANGED <<at, id, nextId, requests, replies>> /\ \E place \in {"erase", "giveup"} : caller' = [caller EXCEPT ![c] = place]
    BY <1>29 DEF Wake
  <2>2. \A d \in Callers : caller'[d] # "idle" => caller[d] # "idle"
    BY <1>29, <2>1 DEF Wake
  <2>3. \A d \in Callers : caller'[d] \in BeforeWrite => caller[d] \in BeforeWrite
    BY <2>1
  <2> QED
    BY <2>1, <2>2, <2>3
<1>30. ASSUME NEW c \in Callers, ErasePending(c) PROVE Fresh'
  BY <1>30 DEF ErasePending
<1>31. CASE Serve
  <2>1. Head(requests) \in Elements(requests) /\ Elements(requests') \subseteq Elements(requests)
    BY <1>31, ElementsOf DEF Serve
  <2>2. PICK kind \in {"accepted", "refused"} :
           /\ replies' = Append(replies, [id |-> Head(requests).id, kind |-> kind])
           /\ accepted' = accepted \union {call \in {Head(requests).call} : kind = "accepted"}
    BY <1>31 DEF Serve
  <2>3. [id |-> Head(requests).id, kind |-> kind] \in Answers
    <3>1. Head(requests) \in Frames
      BY <1>31 DEF Serve, MessagesOK
    <3> QED
      BY <3>1 DEF Frames, Answers
  <2>4. Elements(replies') = Elements(replies) \union {[id |-> Head(requests).id, kind |-> kind]}
    BY <2>2, <2>3, AppendElements DEF MessagesOK
  <2>5. \A f \in Elements(requests') \union Elements(replies') :
           \E g \in Elements(requests) \union Elements(replies) : f.id = g.id
    BY <2>1, <2>4
  <2>6. UNCHANGED <<at, caller, id, nextId>>
    BY <1>31 DEF Serve
  <2>7. \A d \in Callers : caller[d] \in BeforeWrite => caller[d] # "idle"
    OBVIOUS
  <2> QED
    BY <2>5, <2>6, <2>7, FreshKept
<1>32. CASE Notify
  <2>1. replies' = <<[id |-> 0, kind |-> "overlay"]>>
    BY <1>32 DEF Notify
  <2>2. \A f \in Elements(replies') : f.id = 0 /\ f.kind = "overlay"
    BY <2>1 DEF Elements
  <2>3. UNCHANGED <<at, caller, id, nextId, requests>>
    BY <1>32 DEF Notify
  <2>4. \A f \in Elements(requests') \union Elements(replies') : f.id = 0 \/ f \in Elements(requests)
    BY <2>2, <2>3
  <2>5. \A d \in Callers : caller[d] # "idle" => id[d] # 0
    OBVIOUS
  <2> QED
    BY <2>3, <2>4, <2>5
<1>33. CASE Disconnect
  BY <1>33 DEF Disconnect, LoseFrames
<1>34. CASE UNCHANGED vars
  BY <1>34 DEF vars
<1> QED
  BY <1>1, <1>2, <1>3, <1>4, <1>5, <1>6, <1>7, <1>8, <1>9, <1>10, <1>11, <1>12, <1>13, <1>14, <1>15, <1>16,
     <1>17, <1>18, <1>19, <1>20, <1>21, <1>22, <1>23, <1>24, <1>25, <1>26, <1>27, <1>28, <1>29, <1>30, <1>31, <1>32, <1>33, <1>34
     DEF Next, Main, Connect, Receiver, Heartbeat, Request

\* A call that waits keeps its row of pending_.
LEMMA PendingStep ==
    ASSUME CallersOK, MessagesOK, Fresh, Pending, [Next]_vars
    PROVE  Pending'
<1> USE DEF Goto, CallerGoto, client, threads, sending, world
<1>1. CASE CallShutdown
  BY <1>1 DEF CallShutdown, Pending
<1>2. CASE ShutdownFailsPending
  <2>1. UNCHANGED <<calls, id, caller>> /\ pending' = <<>>
    BY <1>2 DEF ShutdownFailsPending, FailAllPending
  <2>2. \A c \in Callers : caller[c] \in {"write", "wait"} => object'[c] # "open"
    <3> SUFFICES ASSUME NEW c \in Callers, caller[c] \in {"write", "wait"} PROVE object'[c] # "open"
      OBVIOUS
    <3>1. object'[c] = IF \E i \in DOMAIN pending : pending[i] = <<c, calls[c]>> THEN "failed" ELSE object[c]
      BY <1>2 DEF ShutdownFailsPending, FailAllPending
    <3>2. CASE object[c] = "open"
      <4>1. \E i \in DOMAIN pending : pending[i] = <<c, calls[c]>>
        BY <3>2 DEF Pending
      <4> QED
        BY <3>1, <4>1
    <3>3. CASE object[c] # "open"
      BY <3>1, <3>3
    <3> QED
      BY <3>2, <3>3
  <2>3. DOMAIN pending' = {}
    BY <2>1
  <2> QED
    BY <2>1, <2>2, <2>3 DEF Pending
<1>3. CASE ShutdownCancels
  BY <1>3 DEF ShutdownCancels, Pending
<1>4. CASE ShutdownCloses
  BY <1>4 DEF ShutdownCloses, CloseTransport, CloseLink, LoseFrames, Pending
<1>5. CASE JoinHeartbeat
  BY <1>5 DEF JoinHeartbeat, Pending
<1>6. CASE JoinReceiver
  BY <1>6 DEF JoinReceiver, Pending
<1>7. CASE ReadBootstrap
  BY <1>7 DEF ReadBootstrap, Pending
<1>8. ASSUME NEW p \in Openers, OpenPipe(p) PROVE Pending'
  BY <1>8 DEF OpenPipe, AttemptFails, Exhausted, Pending
<1>9. ASSUME NEW p \in Openers, SayHello(p) PROVE Pending'
  BY <1>9 DEF SayHello, AttemptFails, Exhausted, CloseLink, LoseFrames, Pending
<1>10. ASSUME NEW p \in Openers, ReadWelcome(p) PROVE Pending'
  BY <1>10 DEF ReadWelcome, AttemptFails, Exhausted, CloseLink, LoseFrames, Pending
<1>11. ASSUME NEW p \in Openers, Publish(p) PROVE Pending'
  BY <1>11 DEF Publish, ReplaceHandle, Pending
<1>12. CASE Capture
  BY <1>12 DEF Capture, Pending
<1>13. CASE BeginRead
  BY <1>13 DEF BeginRead, Pending
<1>14. CASE ReadFails
  BY <1>14 DEF ReadFails, Pending
<1>15. CASE ReadFrame
  BY <1>15 DEF ReadFrame, CallOf, Pending
<1>16. CASE RunCallback
  BY <1>16 DEF RunCallback, Pending
<1>17. CASE CompletePending
  <2>1. UNCHANGED <<calls, id, caller, pending>> /\ \A c \in Callers : object'[c] = "open" => object[c] = "open"
    BY <1>17 DEF CompletePending, MessagesOK
  <2> QED
    BY <2>1 DEF Pending
<1>18. CASE ReceiverFailsPending
  <2>1. UNCHANGED <<calls, id, caller>> /\ pending' = <<>>
    BY <1>18 DEF ReceiverFailsPending, FailAllPending
  <2>2. \A c \in Callers : caller[c] \in {"write", "wait"} => object'[c] # "open"
    <3> SUFFICES ASSUME NEW c \in Callers, caller[c] \in {"write", "wait"} PROVE object'[c] # "open"
      OBVIOUS
    <3>1. object'[c] = IF \E i \in DOMAIN pending : pending[i] = <<c, calls[c]>> THEN "failed" ELSE object[c]
      BY <1>18 DEF ReceiverFailsPending, FailAllPending
    <3>2. CASE object[c] = "open"
      <4>1. \E i \in DOMAIN pending : pending[i] = <<c, calls[c]>>
        BY <3>2 DEF Pending
      <4> QED
        BY <3>1, <4>1
    <3>3. CASE object[c] # "open"
      BY <3>1, <3>3
    <3> QED
      BY <3>2, <3>3
  <2>3. DOMAIN pending' = {}
    BY <2>1
  <2> QED
    BY <2>1, <2>2, <2>3 DEF Pending
<1>19. CASE ReceiverCloses
  BY <1>19 DEF ReceiverCloses, CloseTransport, CloseLink, LoseFrames, Pending
<1>20. CASE Delay
  BY <1>20 DEF Delay, Pending
<1>21. CASE HandshakeCancelled
  BY <1>21 DEF HandshakeCancelled, AttemptFails, Exhausted, CloseLink, LoseFrames, Pending
<1>22. CASE ReceiverEnds
  BY <1>22 DEF ReceiverEnds, ClearConnected, Pending
<1>23. CASE Tick
  BY <1>23 DEF Tick, Pending
<1>24. CASE Beat
  BY <1>24 DEF Beat, Pending
<1>25. CASE MarkDisconnected
  BY <1>25 DEF MarkDisconnected, Pending
<1>26. ASSUME NEW c \in Callers, TakeId(c) PROVE Pending'
  <2>1. caller[c] = "idle" /\ caller' = [caller EXCEPT ![c] = "insert"] /\ UNCHANGED pending
    BY <1>26 DEF TakeId
  <2>2. \A d \in Callers \ {c} : caller'[d] = caller[d] /\ id'[d] = id[d] /\ calls'[d] = calls[d] /\ object'[d] = object[d]
    BY <1>26 DEF TakeId, CallersOK
  <2>3. caller'[c] = "insert" /\ caller[c] \notin Inserted
    BY <2>1 DEF CallersOK, Inserted, CallerPlaces
  <2>4. \A i \in DOMAIN pending : \E d \in Callers :
           pending'[i] = <<d, calls'[d]>> /\ id'[d] = i /\ caller'[d] \in Inserted
    <3> SUFFICES ASSUME NEW i \in DOMAIN pending
                 PROVE  \E d \in Callers : pending'[i] = <<d, calls'[d]>> /\ id'[d] = i /\ caller'[d] \in Inserted
      OBVIOUS
    <3>1. PICK d \in Callers : pending[i] = <<d, calls[d]>> /\ id[d] = i /\ caller[d] \in Inserted
      BY DEF Pending
    <3> QED
      BY <2>1, <2>2, <2>3, <3>1
  <2>5. \A d \in Callers : caller'[d] \in {"write", "wait"} /\ object'[d] = "open" =>
           id'[d] \in DOMAIN pending /\ pending[id'[d]] = <<d, calls'[d]>>
    BY <2>2, <2>3 DEF Pending
  <2> QED
    BY <2>1, <2>4, <2>5 DEF Pending
<1>27. ASSUME NEW c \in Callers, InsertPending(c) PROVE Pending'
  <2>1. caller[c] = "insert" /\ caller' = [caller EXCEPT ![c] = "write"] /\ UNCHANGED <<calls, id, object>>
    BY <1>27 DEF InsertPending
  <2>2. DOMAIN pending' = DOMAIN pending \union {id[c]} /\ pending'[id[c]] = <<c, calls[c]>>
        /\ \A i \in DOMAIN pending : i # id[c] => pending'[i] = pending[i]
    BY <1>27 DEF InsertPending
  <2>3. caller'[c] = "write" /\ \A d \in Callers \ {c} : caller'[d] = caller[d]
    BY <2>1 DEF CallersOK
  <2>4. \A i \in DOMAIN pending' : \E d \in Callers :
           pending'[i] = <<d, calls[d]>> /\ id[d] = i /\ caller'[d] \in Inserted
    <3> SUFFICES ASSUME NEW i \in DOMAIN pending'
                 PROVE  \E d \in Callers : pending'[i] = <<d, calls[d]>> /\ id[d] = i /\ caller'[d] \in Inserted
      OBVIOUS
    <3>1. CASE i = id[c]
      BY <2>2, <2>3, <3>1 DEF Inserted, CallerPlaces
    <3>2. CASE i # id[c]
      <4>1. PICK d \in Callers : pending[i] = <<d, calls[d]>> /\ id[d] = i /\ caller[d] \in Inserted
        BY <2>2, <3>2 DEF Pending
      <4> QED
        BY <2>2, <2>3, <3>2, <4>1
    <3> QED
      BY <3>1, <3>2
  <2>5. \A d \in Callers : caller'[d] \in {"write", "wait"} /\ object[d] = "open" =>
           id[d] \in DOMAIN pending' /\ pending'[id[d]] = <<d, calls[d]>>
    <3> SUFFICES ASSUME NEW d \in Callers, d # c, caller[d] \in {"write", "wait"}, object[d] = "open"
                 PROVE  id[d] \in DOMAIN pending' /\ pending'[id[d]] = <<d, calls[d]>>
      BY <2>2, <2>3
    <3>1. id[d] # id[c]
      BY <2>1 DEF Fresh
    <3> QED
      BY <2>2, <3>1 DEF Pending
  <2> QED
    BY <2>1, <2>4, <2>5 DEF Pending
<1>28. ASSUME NEW c \in Callers, WriteRequest(c) PROVE Pending'
  <2>1. UNCHANGED <<calls, id, object, pending>> /\ caller[c] = "write" /\ \E place \in {"wait", "unwritten"} : caller' = [caller EXCEPT ![c] = place]
    BY <1>28 DEF WriteRequest
  <2>2. \A d \in Callers : caller[d] \in Inserted => caller'[d] \in Inserted
    BY <2>1 DEF Inserted, CallerPlaces, CallersOK
  <2>3. \A d \in Callers : caller'[d] \in {"write", "wait"} => caller[d] \in {"write", "wait"}
    BY <2>1 DEF CallersOK
  <2> QED
    BY <2>1, <2>2, <2>3 DEF Pending
<1>29. ASSUME NEW c \in Callers, Wake(c) PROVE Pending'
  <2>1. UNCHANGED <<calls, id, object, pending>> /\ caller[c] = "wait" /\ \E place \in {"erase", "giveup"} : caller' = [caller EXCEPT ![c] = place]
    BY <1>29 DEF Wake
  <2>2. \A d \in Callers : caller[d] \in Inserted => caller'[d] \in Inserted
    BY <2>1 DEF Inserted, CallerPlaces, CallersOK
  <2>3. \A d \in Callers : caller'[d] \in {"write", "wait"} => caller[d] \in {"write", "wait"}
    BY <2>1 DEF CallersOK
  <2> QED
    BY <2>1, <2>2, <2>3 DEF Pending
<1>30. ASSUME NEW c \in Callers, ErasePending(c) PROVE Pending'
  <2>1. caller[c] \in {"unwritten", "giveup", "erase"} /\ caller' = [caller EXCEPT ![c] = "idle"] /\ UNCHANGED <<calls, id, object>>
    BY <1>30 DEF ErasePending
  <2>2. DOMAIN pending' = DOMAIN pending \ {id[c]} /\ \A i \in DOMAIN pending' : pending'[i] = pending[i]
    BY <1>30 DEF ErasePending
  <2>3. caller'[c] = "idle" /\ \A d \in Callers \ {c} : caller'[d] = caller[d]
    BY <2>1 DEF CallersOK
  <2>4. \A i \in DOMAIN pending' : \E d \in Callers :
           pending'[i] = <<d, calls[d]>> /\ id[d] = i /\ caller'[d] \in Inserted
    <3> SUFFICES ASSUME NEW i \in DOMAIN pending'
                 PROVE  \E d \in Callers : pending'[i] = <<d, calls[d]>> /\ id[d] = i /\ caller'[d] \in Inserted
      OBVIOUS
    <3>1. PICK d \in Callers : pending[i] = <<d, calls[d]>> /\ id[d] = i /\ caller[d] \in Inserted
      BY <2>2 DEF Pending
    <3> QED
      BY <2>2, <2>3, <3>1
  <2>5. \A d \in Callers : caller'[d] \in {"write", "wait"} /\ object[d] = "open" =>
           id[d] \in DOMAIN pending' /\ pending'[id[d]] = <<d, calls[d]>>
    <3> SUFFICES ASSUME NEW d \in Callers, d # c, caller[d] \in {"write", "wait"}, object[d] = "open"
                 PROVE  id[d] \in DOMAIN pending' /\ pending'[id[d]] = <<d, calls[d]>>
      BY <2>3
    <3>1. id[d] # id[c]
      BY <2>1 DEF Fresh
    <3> QED
      BY <2>2, <3>1 DEF Pending
  <2> QED
    BY <2>1, <2>4, <2>5 DEF Pending
<1>31. CASE Serve
  BY <1>31 DEF Serve, Pending
<1>32. CASE Notify
  BY <1>32 DEF Notify, Pending
<1>33. CASE Disconnect
  BY <1>33 DEF Disconnect, LoseFrames, Pending
<1>34. CASE UNCHANGED vars
  BY <1>34 DEF vars, Pending
<1> QED
  BY <1>1, <1>2, <1>3, <1>4, <1>5, <1>6, <1>7, <1>8, <1>9, <1>10, <1>11, <1>12, <1>13, <1>14, <1>15, <1>16,
     <1>17, <1>18, <1>19, <1>20, <1>21, <1>22, <1>23, <1>24, <1>25, <1>26, <1>27, <1>28, <1>29, <1>30, <1>31, <1>32, <1>33, <1>34
     DEF Next, Main, Connect, Receiver, Heartbeat, Request

\* An answer that says accepted is of a call the runtime has carried out.
LEMMA MatchedStep ==
    ASSUME CallersOK, MessagesOK, Begun, Fresh, Pending, Matched, [Next]_vars
    PROVE  Matched'
<1> USE NoElements DEF Goto, CallerGoto, client, threads, sending, world
<1>1. CASE CallShutdown
  BY <1>1 DEF CallShutdown, Matched
<1>2. CASE ShutdownFailsPending
  <2>1. UNCHANGED <<calls, requests, replies, target, accepted>> /\ pending' = <<>>
    BY <1>2 DEF ShutdownFailsPending, FailAllPending
  <2>2. \A c \in Callers : object'[c] = "accepted" => object[c] = "accepted"
    BY <1>2 DEF ShutdownFailsPending, FailAllPending
  <2>3. DOMAIN pending' = {}
    BY <2>1
  <2> QED
    BY <2>1, <2>2, <2>3 DEF Matched
<1>3. CASE ShutdownCancels
  BY <1>3 DEF ShutdownCancels, Matched
<1>4. CASE ShutdownCloses
  BY <1>4 DEF ShutdownCloses, CloseTransport, CloseLink, LoseFrames, Matched
<1>5. CASE JoinHeartbeat
  BY <1>5 DEF JoinHeartbeat, Matched
<1>6. CASE JoinReceiver
  BY <1>6 DEF JoinReceiver, Matched
<1>7. CASE ReadBootstrap
  BY <1>7 DEF ReadBootstrap, Matched
<1>8. ASSUME NEW p \in Openers, OpenPipe(p) PROVE Matched'
  BY <1>8 DEF OpenPipe, AttemptFails, Exhausted, Matched
<1>9. ASSUME NEW p \in Openers, SayHello(p) PROVE Matched'
  BY <1>9 DEF SayHello, AttemptFails, Exhausted, CloseLink, LoseFrames, Matched
<1>10. ASSUME NEW p \in Openers, ReadWelcome(p) PROVE Matched'
  BY <1>10 DEF ReadWelcome, AttemptFails, Exhausted, CloseLink, LoseFrames, Matched
<1>11. ASSUME NEW p \in Openers, Publish(p) PROVE Matched'
  BY <1>11 DEF Publish, ReplaceHandle, Matched
<1>12. CASE Capture
  BY <1>12 DEF Capture, Matched
<1>13. CASE BeginRead
  BY <1>13 DEF BeginRead, Matched
<1>14. CASE ReadFails
  BY <1>14 DEF ReadFails, Matched
<1>15. CASE ReadFrame
  <2>1. Elements(replies') \subseteq Elements(replies) /\ Head(replies) \in Elements(replies)
    BY <1>15, ElementsOf DEF ReadFrame, MessagesOK
  <2>2. UNCHANGED <<calls, pending, accepted, object, requests>>
    BY <1>15 DEF ReadFrame
  <2>3. target'.kind = "accepted" /\ target'.call # NoCall => target'.call \in accepted
    BY <1>15, <2>1 DEF ReadFrame, CallOf, Matched
  <2> QED
    BY <2>1, <2>2, <2>3 DEF Matched
<1>16. CASE RunCallback
  BY <1>16 DEF RunCallback, Matched
<1>17. CASE CompletePending
  <2>1. UNCHANGED <<calls, pending, accepted, requests, replies, target>>
    BY <1>17 DEF CompletePending
  <2>2. \A c \in Callers : object'[c] = "accepted" => <<c, calls[c]>> \in accepted
    <3> SUFFICES ASSUME NEW c \in Callers, object'[c] = "accepted" PROVE <<c, calls[c]>> \in accepted
      OBVIOUS
    <3>1. CASE target.call = <<c, calls[c]>> /\ object[c] # "failed"
      <4>1. target.kind = "accepted" /\ target.call # NoCall
        BY <1>17, <3>1 DEF CompletePending, NoCall
      <4> QED
        BY <3>1, <4>1 DEF Matched
    <3>2. CASE ~(target.call = <<c, calls[c]>> /\ object[c] # "failed")
      BY <1>17, <3>2 DEF CompletePending, Matched
    <3> QED
      BY <3>1, <3>2
  <2> QED
    BY <2>1, <2>2 DEF Matched
<1>18. CASE ReceiverFailsPending
  <2>1. UNCHANGED <<calls, requests, replies, target, accepted>> /\ pending' = <<>>
    BY <1>18 DEF ReceiverFailsPending, FailAllPending
  <2>2. \A c \in Callers : object'[c] = "accepted" => object[c] = "accepted"
    BY <1>18 DEF ReceiverFailsPending, FailAllPending
  <2>3. DOMAIN pending' = {}
    BY <2>1
  <2> QED
    BY <2>1, <2>2, <2>3 DEF Matched
<1>19. CASE ReceiverCloses
  BY <1>19 DEF ReceiverCloses, CloseTransport, CloseLink, LoseFrames, Matched
<1>20. CASE Delay
  BY <1>20 DEF Delay, Matched
<1>21. CASE HandshakeCancelled
  BY <1>21 DEF HandshakeCancelled, AttemptFails, Exhausted, CloseLink, LoseFrames, Matched
<1>22. CASE ReceiverEnds
  BY <1>22 DEF ReceiverEnds, ClearConnected, Matched
<1>23. CASE Tick
  BY <1>23 DEF Tick, Matched
<1>24. CASE Beat
  BY <1>24 DEF Beat, Matched
<1>25. CASE MarkDisconnected
  BY <1>25 DEF MarkDisconnected, Matched
<1>26. ASSUME NEW c \in Callers, TakeId(c) PROVE Matched'
  <2>1. \A d \in Callers : object'[d] = "accepted" => object[d] = "accepted" /\ calls'[d] = calls[d]
    BY <1>26 DEF TakeId, CallersOK
  <2> QED
    BY <1>26, <2>1 DEF TakeId, Matched
<1>27. ASSUME NEW c \in Callers, InsertPending(c) PROVE Matched'
  <2>1. DOMAIN pending' = DOMAIN pending \union {id[c]} /\ \A i \in DOMAIN pending : i # id[c] => pending'[i] = pending[i]
    BY <1>27 DEF InsertPending
  <2>2. \A f \in Elements(requests) \union Elements(replies) : f.id # id[c]
    BY <1>27 DEF InsertPending, Fresh, BeforeWrite
  <2>3. UNCHANGED <<calls, requests, replies, target, accepted, object>>
    BY <1>27 DEF InsertPending
  <2> QED
    BY <2>1, <2>2, <2>3 DEF Matched
<1>28. ASSUME NEW c \in Callers, WriteRequest(c) PROVE Matched'
  <2> DEFINE frame == [id |-> id[c], call |-> <<c, calls[c]>>]
  <2>1. frame \in Frames /\ frame.id = id[c] /\ frame.call = <<c, calls[c]>>
    BY <1>28, CallOK DEF WriteRequest, Frames
  <2>2. Elements(requests') \subseteq Elements(requests) \union {frame}
    <3>1. requests' = requests \/ requests' = Append(requests, frame)
      BY <1>28 DEF WriteRequest
    <3> HIDE DEF frame
    <3>2. requests \in Seq(Frames)
      BY DEF MessagesOK
    <3>3. Elements(Append(requests, frame)) = Elements(requests) \union {frame}
      BY <2>1, <3>2, AppendElements
    <3> QED
      BY <3>1, <3>3
  <2>3. id[c] \in DOMAIN pending => pending[id[c]] = <<c, calls[c]>>
    <3> SUFFICES ASSUME id[c] \in DOMAIN pending PROVE pending[id[c]] = <<c, calls[c]>>
      OBVIOUS
    <3>1. PICK d \in Callers : pending[id[c]] = <<d, calls[d]>> /\ id[d] = id[c] /\ caller[d] \in Inserted
      BY DEF Pending
    <3>2. caller[c] # "idle" /\ caller[d] # "idle"
      BY <1>28, <3>1 DEF WriteRequest, Inserted
    <3>3. d = c
      BY <3>1, <3>2 DEF Fresh
    <3> QED
      BY <3>1, <3>3
  <2>4. UNCHANGED <<calls, pending, replies, target, accepted, object>>
    BY <1>28 DEF WriteRequest
  <2> QED
    BY <2>1, <2>2, <2>3, <2>4 DEF Matched
<1>29. ASSUME NEW c \in Callers, Wake(c) PROVE Matched'
  BY <1>29 DEF Wake, Matched
<1>30. ASSUME NEW c \in Callers, ErasePending(c) PROVE Matched'
  <2>1. DOMAIN pending' = DOMAIN pending \ {id[c]} /\ \A i \in DOMAIN pending' : pending'[i] = pending[i]
    BY <1>30 DEF ErasePending
  <2>2. UNCHANGED <<calls, requests, replies, target, accepted, object>>
    BY <1>30 DEF ErasePending
  <2> QED
    BY <2>1, <2>2 DEF Matched
<1>31. CASE Serve
  <2>1. Head(requests) \in Elements(requests) /\ Elements(requests') \subseteq Elements(requests)
    BY <1>31, ElementsOf DEF Serve, MessagesOK
  <2>2. PICK kind \in {"accepted", "refused"} :
           /\ replies' = Append(replies, [id |-> Head(requests).id, kind |-> kind])
           /\ accepted' = accepted \union {call \in {Head(requests).call} : kind = "accepted"}
    BY <1>31 DEF Serve
  <2>3. [id |-> Head(requests).id, kind |-> kind] \in Answers
    <3>1. Head(requests) \in Frames
      BY <1>31 DEF Serve, MessagesOK
    <3> QED
      BY <3>1 DEF Frames, Answers
  <2>4. Elements(replies') = Elements(replies) \union {[id |-> Head(requests).id, kind |-> kind]}
    BY <2>2, <2>3, AppendElements DEF MessagesOK
  <2>5. UNCHANGED <<calls, pending, target, object>>
    BY <1>31 DEF Serve
  <2>6. accepted \subseteq accepted' /\ (kind = "accepted" => Head(requests).call \in accepted')
    BY <2>2
  <2>7. \A f \in Elements(replies') : f.kind = "accepted" /\ f.id \in DOMAIN pending => pending[f.id] \in accepted'
    <3> SUFFICES ASSUME NEW f \in Elements(replies'), f.kind = "accepted", f.id \in DOMAIN pending
                 PROVE  pending[f.id] \in accepted'
      OBVIOUS
    <3>1. CASE f \in Elements(replies)
      BY <2>6, <3>1 DEF Matched
    <3>2. CASE f = [id |-> Head(requests).id, kind |-> kind]
      BY <2>1, <2>6, <3>2 DEF Matched
    <3> QED
      BY <2>4, <3>1, <3>2
  <2> QED
    BY <2>1, <2>5, <2>6, <2>7 DEF Matched
<1>32. CASE Notify
  <2>1. replies' = <<[id |-> 0, kind |-> "overlay"]>>
    BY <1>32 DEF Notify
  <2>2. \A f \in Elements(replies') : f.id = 0 /\ f.kind = "overlay"
    BY <2>1 DEF Elements
  <2>3. UNCHANGED <<calls, pending, target, accepted, object, requests>>
    BY <1>32 DEF Notify
  <2> QED
    BY <2>2, <2>3 DEF Matched
<1>33. CASE Disconnect
  BY <1>33 DEF Disconnect, LoseFrames, Matched
<1>34. CASE UNCHANGED vars
  BY <1>34 DEF vars, Matched
<1> QED
  BY <1>1, <1>2, <1>3, <1>4, <1>5, <1>6, <1>7, <1>8, <1>9, <1>10, <1>11, <1>12, <1>13, <1>14, <1>15, <1>16,
     <1>17, <1>18, <1>19, <1>20, <1>21, <1>22, <1>23, <1>24, <1>25, <1>26, <1>27, <1>28, <1>29, <1>30, <1>31, <1>32, <1>33, <1>34
     DEF Next, Main, Connect, Receiver, Heartbeat, Request

\* A call returns success only by an answer that says accepted.
LEMMA AckStep ==
    ASSUME CallersOK, Matched, AckMeansServed, [Next]_vars
    PROVE  AckMeansServed'
<1> USE DEF AckMeansServed, CallersOK, Goto, CallerGoto, client, threads, sending, world
<1>1. CASE CallShutdown
  BY <1>1 DEF CallShutdown
<1>2. CASE ShutdownFailsPending
  BY <1>2 DEF ShutdownFailsPending, FailAllPending
<1>3. CASE ShutdownCancels
  BY <1>3 DEF ShutdownCancels
<1>4. CASE ShutdownCloses
  BY <1>4 DEF ShutdownCloses, CloseTransport, CloseLink, LoseFrames
<1>5. CASE JoinHeartbeat
  BY <1>5 DEF JoinHeartbeat
<1>6. CASE JoinReceiver
  BY <1>6 DEF JoinReceiver
<1>7. CASE ReadBootstrap
  BY <1>7 DEF ReadBootstrap
<1>8. ASSUME NEW p \in Openers, OpenPipe(p) PROVE AckMeansServed'
  BY <1>8 DEF OpenPipe, AttemptFails, Exhausted
<1>9. ASSUME NEW p \in Openers, SayHello(p) PROVE AckMeansServed'
  BY <1>9 DEF SayHello, AttemptFails, Exhausted, CloseLink, LoseFrames
<1>10. ASSUME NEW p \in Openers, ReadWelcome(p) PROVE AckMeansServed'
  BY <1>10 DEF ReadWelcome, AttemptFails, Exhausted, CloseLink, LoseFrames
<1>11. ASSUME NEW p \in Openers, Publish(p) PROVE AckMeansServed'
  BY <1>11 DEF Publish, ReplaceHandle
<1>12. CASE Capture
  BY <1>12 DEF Capture
<1>13. CASE BeginRead
  BY <1>13 DEF BeginRead
<1>14. CASE ReadFails
  BY <1>14 DEF ReadFails
<1>15. CASE ReadFrame
  BY <1>15 DEF ReadFrame, CallOf
<1>16. CASE RunCallback
  BY <1>16 DEF RunCallback
<1>17. CASE CompletePending
  BY <1>17 DEF CompletePending
<1>18. CASE ReceiverFailsPending
  BY <1>18 DEF ReceiverFailsPending, FailAllPending
<1>19. CASE ReceiverCloses
  BY <1>19 DEF ReceiverCloses, CloseTransport, CloseLink, LoseFrames
<1>20. CASE Delay
  BY <1>20 DEF Delay
<1>21. CASE HandshakeCancelled
  BY <1>21 DEF HandshakeCancelled, AttemptFails, Exhausted, CloseLink, LoseFrames
<1>22. CASE ReceiverEnds
  BY <1>22 DEF ReceiverEnds, ClearConnected
<1>23. CASE Tick
  BY <1>23 DEF Tick
<1>24. CASE Beat
  BY <1>24 DEF Beat
<1>25. CASE MarkDisconnected
  BY <1>25 DEF MarkDisconnected
<1>26. ASSUME NEW c \in Callers, TakeId(c) PROVE AckMeansServed'
  BY <1>26 DEF TakeId
<1>27. ASSUME NEW c \in Callers, InsertPending(c) PROVE AckMeansServed'
  BY <1>27 DEF InsertPending
<1>28. ASSUME NEW c \in Callers, WriteRequest(c) PROVE AckMeansServed'
  BY <1>28 DEF WriteRequest
<1>29. ASSUME NEW c \in Callers, Wake(c) PROVE AckMeansServed'
  BY <1>29 DEF Wake
<1>30. ASSUME NEW c \in Callers, ErasePending(c) PROVE AckMeansServed'
  BY <1>30 DEF ErasePending, Succeeded, Matched
<1>31. CASE Serve
  BY <1>31 DEF Serve
<1>32. CASE Notify
  BY <1>32 DEF Notify
<1>33. CASE Disconnect
  BY <1>33 DEF Disconnect, LoseFrames
<1>34. CASE UNCHANGED vars
  BY <1>34 DEF vars
<1> QED
  BY <1>1, <1>2, <1>3, <1>4, <1>5, <1>6, <1>7, <1>8, <1>9, <1>10, <1>11, <1>12, <1>13, <1>14, <1>15, <1>16,
     <1>17, <1>18, <1>19, <1>20, <1>21, <1>22, <1>23, <1>24, <1>25, <1>26, <1>27, <1>28, <1>29, <1>30, <1>31, <1>32, <1>33, <1>34
     DEF Next, Main, Connect, Receiver, Heartbeat, Request

-----------------------------------------------------------------------------
(* The theorems.                                                           *)

LEMMA KindsParts ==
    /\ Kinds <=> ThreadsOK /\ FlagsOK /\ HandlesOK /\ CountsOK /\ CallersOK /\ MessagesOK
<1>1. Kinds => ThreadsOK /\ FlagsOK /\ HandlesOK /\ CountsOK /\ CallersOK /\ MessagesOK
  BY DEF Kinds, TypeOK, ThreadsOK, FlagsOK, HandlesOK, CountsOK, CallersOK, MessagesOK
<1>2. ThreadsOK /\ FlagsOK /\ HandlesOK /\ CountsOK /\ CallersOK /\ MessagesOK => Kinds
  BY DEF Kinds, TypeOK, ThreadsOK, FlagsOK, HandlesOK, CountsOK, CallersOK, MessagesOK
<1> QED
  BY <1>1, <1>2

QuietInv == Quiet /\ Begun

LEMMA QuietInit == Init => QuietInv
<1> SUFFICES ASSUME Init PROVE QuietInv
  OBVIOUS
<1> USE BoundsAssumption DEF Init
<1>1. ThreadsOK /\ FlagsOK
  <2>1. at["main"] = "idle" /\ at["receiver"] = "none" /\ at["heart"] = "none"
    OBVIOUS
  <2>2. at = [t \in Threads |-> IF t = "main" THEN "idle" ELSE "none"]
    BY DEF Threads
  <2>3. at \in [Threads -> Places]
    BY <2>2 DEF Places, MainPlaces, HeartPlaces
  <2>4. FlagsOK
    BY DEF FlagsOK
  <2> QED
    BY <2>1, <2>3, <2>4 DEF ThreadsOK, MainPlaces, ReceiverPlaces, HeartPlaces
<1>2. HandlesOK /\ CountsOK
  BY DEF HandlesOK, CountsOK
<1>3. CallersOK
  BY DEF CallersOK, CallerPlaces
<1>4. MessagesOK
  BY EmptyOK DEF MessagesOK
<1>5. Begun /\ Counters /\ Joined /\ Handles
  BY DEF Begun, Counters, Joined, Handles, Over, Stopping, Opening, Connecting, Openers
<1> QED
  BY <1>1, <1>2, <1>3, <1>4, <1>5, KindsParts DEF QuietInv, Quiet

LEMMA QuietNext == QuietInv /\ [Next]_vars => QuietInv'
<1> SUFFICES ASSUME QuietInv, [Next]_vars PROVE QuietInv'
  OBVIOUS
<1>1. ThreadsOK /\ FlagsOK /\ HandlesOK /\ CountsOK /\ CallersOK /\ MessagesOK
      /\ Begun /\ Counters /\ Joined /\ Handles
  BY KindsParts DEF QuietInv, Quiet
<1>2. ThreadsOK' /\ FlagsOK' /\ HandlesOK' /\ CountsOK'
  BY <1>1, ThreadsStep, FlagsStep, HandlesKindStep, CountsStep
<1>3. CallersOK' /\ MessagesOK' /\ Begun'
  BY <1>1, CallersStep, MessagesStep
<1>4. Counters' /\ Joined' /\ Handles'
  BY <1>1, CountersStep, JoinedStep, HandlesStep
<1>5. Kinds'
  BY <1>2, <1>3 DEF Kinds, TypeOK, ThreadsOK, FlagsOK, HandlesOK, CountsOK, CallersOK, MessagesOK
<1> QED
  BY <1>3, <1>4, <1>5 DEF QuietInv, Quiet

LEMMA QuietAlways == Spec => []QuietInv
BY QuietInit, QuietNext, PTL DEF Spec

\* Every variable of the client keeps its kind.
THEOREM TypeCorrect == Spec => []TypeOK
<1>1. QuietInv => TypeOK
  BY DEF QuietInv, Quiet, Kinds
<1> QED
  BY <1>1, QuietAlways, PTL

\* Reconnecting, heartbeats and Shutdown, in any order and in any number of sessions, leave no
\* handle open that nobody holds, and no thread (OpenAndAuthenticate, CloseTransport, Shutdown).
THEOREM LeavesNothing == Spec => []NothingIsLeft
<1>1. QuietInv => NoHandleLeaks
  BY DEF QuietInv, Quiet, Handles, NoHandleLeaks, OpenHandles, Connecting
<1>2. QuietInv => StoppedIsQuiet
  BY DEF QuietInv, Quiet, Joined, StoppedIsQuiet, Over
<1> QED
  BY <1>1, <1>2, QuietAlways, PTL DEF NothingIsLeft

LEMMA AnsweredInit == Init => Answered
<1> SUFFICES ASSUME Init PROVE Answered
  OBVIOUS
<1> USE NoElements DEF Init
<1>1. Unsent
  BY DEF Unsent, NothingSent, Opening
<1>4. Fresh
  BY DEF Fresh, Over, BeforeWrite
<1>2. Pending /\ Matched
  BY DEF Pending, Matched
<1>3. AckMeansServed
  BY DEF AckMeansServed
<1> QED
  BY <1>1, <1>2, <1>3, <1>4 DEF Answered

LEMMA AnsweredNext ==
    ASSUME OneSession
    PROVE  QuietInv /\ Answered /\ [Next]_vars => Answered'
<1> SUFFICES ASSUME QuietInv, Answered, [Next]_vars PROVE Answered'
  OBVIOUS
<1>1. ThreadsOK /\ CountsOK /\ CallersOK /\ MessagesOK /\ Begun /\ Counters /\ Joined
  BY KindsParts DEF QuietInv, Quiet
<1>2. Unsent /\ Fresh /\ Pending /\ Matched /\ AckMeansServed
  BY DEF Answered
<1>3. Unsent' /\ Fresh'
  BY <1>1, <1>2, UnsentStep, FreshStep
<1>4. Pending' /\ Matched' /\ AckMeansServed'
  BY <1>1, <1>2, PendingStep, MatchedStep, AckStep
<1> QED
  BY <1>3, <1>4 DEF Answered

LEMMA AnsweredAlways == OneSession => (Spec => []Answered)
<1> SUFFICES ASSUME OneSession PROVE Spec => []Answered
  OBVIOUS
<1>1. QuietInv /\ Answered /\ [Next]_vars => Answered'
  BY AnsweredNext
<1> QED
  BY <1>1, AnsweredInit, QuietAlways, PTL DEF Spec

\* Within one session a request that returned success is one that the runtime carried out,
\* whatever is lost, late or sent again (SendRequest, CompletePending).
THEOREM SuccessIsServed == OneSession => (Spec => []AckMeansServed)
<1>1. Answered => AckMeansServed
  BY DEF Answered
<1> QED
  BY <1>1, AnsweredAlways, PTL

\* Within one session a caller that waits has its request in pending_, where the answer and
\* FailAllPending find it.
THEOREM WaitersAreFound == OneSession => (Spec => []NoWaiterIsForgotten)
<1>1. Answered => NoWaiterIsForgotten
  BY DEF Answered, Pending, NoWaiterIsForgotten
<1> QED
  BY <1>1, AnsweredAlways, PTL
=============================================================================
