----------------------- MODULE RuntimeIpcServerProofs -----------------------
(***************************************************************************)
(* The safety properties of the pipe server, proved for any number of      *)
(* starts.  They follow from one inductive invariant, which says where the *)
(* only running thread stands, what that place means for its pipe instance *)
(* and the published handle, and what the flags may say there.             *)
(***************************************************************************)
EXTENDS RuntimeIpcServer, TLAPS

Published == {"connect", "connecting", "loop", "read", "callback", "clear"}
Serving == {"loop", "read", "callback", "clear"}
Closed == Ended \union {"check", "create", "sleep"}

\* A start joins the thread before it, so only the latest can run.
OnlyLatestRuns == \A t \in Threads : t # starts => pc[t] \in Ended

\* The place of a thread tells whether its instance is open and published.
PipeFollows(t) ==
    /\ pipe[t] = "none" <=> pc[t] \in Closed
    /\ active = t <=> pc[t] \in Published
    /\ pc[t] \in Serving => pipe[t] \in {"connected", "broken", "disconnected"}

PipeFollowsThread == \A t \in Threads : PipeFollows(t)

\* Outside Stop the flag is set only when nothing runs any more.
StopIsKnown ==
    /\ owner # "idle" => stop
    /\ owner = "start" \/ (owner = "idle" /\ stop) => \A t \in Threads : pc[t] \in Ended

\* A start follows only a Stop that was called for it.
StartIsCalledFor ==
    /\ owner = "start" => restart
    /\ owner # "idle" /\ restart => starts < MaxStarts

\* authenticated_ speaks of the connection on the published handle.
AuthenticIsGreeted ==
    authenticated => active \in Threads /\ pc[active] \in Serving /\ greeted[active]

CallbackIsServed ==
    \A t \in Threads : pc[t] = "callback" =>
        /\ authenticated
        /\ serving[t] \in DOMAIN NeededPermission => NeededPermission[serving[t]] \in
           permissions

ReadyIsOfStart == ready => readyOf = starts /\ touched

IInv ==
    /\ TypeOK
    /\ OnlyLatestRuns
    /\ PipeFollowsThread
    /\ StopIsKnown
    /\ StartIsCalledFor
    /\ AuthenticIsGreeted
    /\ CallbackIsServed
    /\ ReadyIsOfStart
    /\ JoinWaitsForNoMessage
    /\ ~leaked

-----------------------------------------------------------------------------
\* A new connection starts without frames.
LEMMA NoFrames == <<>> \in Seq(Messages)
  OBVIOUS

\* Every step of the UI thread, a server thread or a client keeps the invariant.
LEMMA Inductive == IInv /\ [Next]_vars => IInv'
<1> SUFFICES ASSUME IInv, [Next]_vars PROVE IInv'
  OBVIOUS
<1>1. ASSUME CallStop PROVE IInv'
  <2>1. TypeOK'
    BY <1>1 DEF CallStop, TypeOK, IInv, flags, connection, history
  <2>2. StopIsKnown'
    BY <1>1 DEF CallStop, StopIsKnown
  <2>3. StartIsCalledFor'
    BY <1>1 DEF CallStop, StartIsCalledFor
  <2>4. JoinWaitsForNoMessage'
    BY <1>1 DEF CallStop, JoinWaitsForNoMessage
  <2>5. OnlyLatestRuns' /\ PipeFollowsThread' /\ AuthenticIsGreeted' /\ CallbackIsServed' /\
     ReadyIsOfStart' /\ ~leaked'
    BY <1>1 DEF CallStop, IInv, OnlyLatestRuns, PipeFollowsThread, AuthenticIsGreeted,
       CallbackIsServed, ReadyIsOfStart, PipeFollows, flags, connection, history
  <2> QED BY <2>1, <2>2, <2>3, <2>4, <2>5 DEF IInv
<1>2. ASSUME StopCancel PROVE IInv'
  <2>1. TypeOK'
    <3>1. pipe' \in [Threads -> Instances]
      BY <1>2 DEF StopCancel, DisconnectActive, IInv, TypeOK, Instances
    <3>2. inbox' \in [Threads -> Seq(Messages)]
      BY <1>2, NoFrames DEF StopCancel, DisconnectActive, IInv, TypeOK
    <3> QED BY <3>1, <3>2, <1>2 DEF StopCancel, IInv, TypeOK, flags, history
  <2>2. PipeFollowsThread'
    <3>1. pc' = pc /\ active' = active
      BY <1>2 DEF StopCancel, flags
    <3>2. ASSUME NEW s \in Threads PROVE PipeFollows(s)'
      BY <1>2, <3>1 DEF StopCancel, DisconnectActive, IInv, TypeOK, PipeFollowsThread,
         PipeFollows, Published, Closed, Ended
    <3> QED BY <3>2 DEF PipeFollowsThread
  <2>3. StopIsKnown'
    BY <1>2 DEF StopCancel, StopIsKnown, IInv
  <2>4. StartIsCalledFor'
    BY <1>2 DEF StopCancel, StartIsCalledFor, IInv
  <2>5. JoinWaitsForNoMessage'
    BY <1>2, MaxStartsAssumption DEF StopCancel, DisconnectActive, JoinWaitsForNoMessage,
       IInv, PipeFollows, Threads, Published, TypeOK, PipeFollowsThread
  <2>6. OnlyLatestRuns' /\ AuthenticIsGreeted' /\ CallbackIsServed' /\ ReadyIsOfStart' /\
     ~leaked'
    BY <1>2 DEF StopCancel, IInv, OnlyLatestRuns, AuthenticIsGreeted, CallbackIsServed,
       ReadyIsOfStart, flags, history
  <2> QED BY <2>1, <2>2, <2>3, <2>4, <2>5, <2>6 DEF IInv
<1>3. ASSUME StopFinish PROVE IInv'
  <2>1. TypeOK'
    BY <1>3, MaxStartsAssumption DEF StopFinish, TypeOK, IInv, history, Instances
  <2>2. PipeFollowsThread'
    <3>1. ASSUME active # 0 PROVE FALSE
      <4>1. active \in Threads
        BY <3>1 DEF IInv, TypeOK, Threads
      <4>2. pc[active] \in Published
        BY <4>1 DEF IInv, PipeFollowsThread, PipeFollows
      <4>3. active = starts /\ starts > 0
        BY <4>1, <4>2 DEF IInv, OnlyLatestRuns, Published, Ended, Threads
      <4> QED BY <1>3, <4>2, <4>3 DEF StopFinish, Joined, Published, Ended
    <3> QED BY <1>3, <3>1 DEF StopFinish, IInv, PipeFollowsThread, PipeFollows, Threads
  <2>3. StopIsKnown'
    BY <1>3 DEF StopFinish, Joined, StopIsKnown, IInv, Threads, OnlyLatestRuns
  <2>4. StartIsCalledFor'
    BY <1>3 DEF StopFinish, StartIsCalledFor, IInv
  <2>5. AuthenticIsGreeted'
    BY <1>3 DEF StopFinish, Joined, AuthenticIsGreeted, IInv, Threads, Ended, Serving,
       OnlyLatestRuns
  <2>6. JoinWaitsForNoMessage'
    BY <1>3 DEF StopFinish, JoinWaitsForNoMessage
  <2>7. OnlyLatestRuns' /\ CallbackIsServed' /\ ReadyIsOfStart' /\ ~leaked'
    BY <1>3 DEF StopFinish, IInv, OnlyLatestRuns, CallbackIsServed, ReadyIsOfStart, history
  <2> QED BY <2>1, <2>2, <2>3, <2>4, <2>5, <2>6, <2>7 DEF IInv
<1>4. ASSUME StartThread PROVE IInv'
  <2>1. TypeOK'
    <3>1. starts' \in 0 .. MaxStarts
      BY <1>4, MaxStartsAssumption DEF StartThread, IInv, TypeOK, StartIsCalledFor
    <3>2. pc' \in [Threads -> Places]
      BY <1>4 DEF StartThread, Goto, IInv, TypeOK, Places
    <3> QED BY <3>1, <3>2, <1>4 DEF StartThread, ResetFlags, IInv, TypeOK, connection,
       history
  <2>2. OnlyLatestRuns'
    BY <1>4 DEF StartThread, Goto, OnlyLatestRuns, IInv, StopIsKnown
  <2>3. PipeFollowsThread'
    BY <1>4 DEF StartThread, Goto, PipeFollowsThread, IInv, PipeFollows, Ended, Closed,
       Published, Serving, connection, StopIsKnown
  <2>4. StopIsKnown'
    BY <1>4 DEF StartThread, ResetFlags, StopIsKnown
  <2>5. StartIsCalledFor'
    BY <1>4 DEF StartThread, StartIsCalledFor
  <2>6. AuthenticIsGreeted'
    BY <1>4 DEF StartThread, ResetFlags, AuthenticIsGreeted
  <2>7. CallbackIsServed'
    BY <1>4 DEF StartThread, Goto, CallbackIsServed, IInv, Ended, StopIsKnown
  <2>8. ReadyIsOfStart'
    BY <1>4 DEF StartThread, ResetFlags, ReadyIsOfStart
  <2>9. JoinWaitsForNoMessage'
    BY <1>4 DEF StartThread, JoinWaitsForNoMessage
  <2>10. ~leaked'
    BY <1>4 DEF StartThread, IInv, history
  <2> QED BY <2>1, <2>2, <2>3, <2>4, <2>5, <2>6, <2>7, <2>8, <2>9, <2>10 DEF IInv
<1>5. ASSUME RefuseStart PROVE IInv'
  <2>1. TypeOK'
    BY <1>5 DEF RefuseStart, TypeOK, IInv, flags, connection, history
  <2>2. StopIsKnown'
    BY <1>5 DEF RefuseStart, StopIsKnown, IInv
  <2>3. StartIsCalledFor'
    BY <1>5 DEF RefuseStart, StartIsCalledFor
  <2>4. JoinWaitsForNoMessage'
    BY <1>5 DEF RefuseStart, JoinWaitsForNoMessage
  <2>5. OnlyLatestRuns' /\ PipeFollowsThread' /\ AuthenticIsGreeted' /\ CallbackIsServed' /\
     ReadyIsOfStart' /\ ~leaked'
    BY <1>5 DEF RefuseStart, IInv, OnlyLatestRuns, PipeFollowsThread, AuthenticIsGreeted,
       CallbackIsServed, ReadyIsOfStart, PipeFollows, flags, connection, history
  <2> QED BY <2>1, <2>2, <2>3, <2>4, <2>5 DEF IInv
<1>6. ASSUME SendOverlayFocus PROVE IInv'
  <2>1. TypeOK'
    BY <1>6 DEF SendOverlayFocus, TypeOK, IInv, control, flags, connection
  <2>2. leaked' = FALSE
    BY <1>6 DEF SendOverlayFocus, OverlayConnection, IInv, AuthenticIsGreeted
  <2>3. OnlyLatestRuns' /\ PipeFollowsThread' /\ StopIsKnown' /\ StartIsCalledFor' /\
     AuthenticIsGreeted' /\ CallbackIsServed' /\ ReadyIsOfStart' /\ JoinWaitsForNoMessage'
    BY <1>6 DEF SendOverlayFocus, IInv, OnlyLatestRuns, PipeFollowsThread, StopIsKnown,
       StartIsCalledFor, AuthenticIsGreeted, CallbackIsServed, ReadyIsOfStart,
       JoinWaitsForNoMessage, PipeFollows, control, flags, connection
  <2> QED BY <2>1, <2>2, <2>3 DEF IInv
<1>7. ASSUME NEW t \in Threads, CheckStop(t) PROVE IInv'
  <2>1. TypeOK'
    BY <1>7 DEF CheckStop, Goto, TypeOK, IInv, Ended, control, flags, connection, history,
       Places
  <2>2. OnlyLatestRuns'
    BY <1>7 DEF CheckStop, Goto, OnlyLatestRuns, IInv, Ended, control
  <2>3. PipeFollowsThread'
    BY <1>7 DEF CheckStop, Goto, PipeFollowsThread, IInv, PipeFollows, Ended, Closed,
       Published, Serving, flags, connection
  <2>4. StopIsKnown'
    BY <1>7 DEF CheckStop, StopIsKnown, IInv, Ended, control
  <2>5. AuthenticIsGreeted'
    BY <1>7 DEF CheckStop, AuthenticIsGreeted, IInv, Ended, Serving, flags, OnlyLatestRuns
  <2>6. CallbackIsServed'
    BY <1>7 DEF CheckStop, Goto, CallbackIsServed, IInv, flags
  <2>7. JoinWaitsForNoMessage'
    BY <1>7 DEF CheckStop, Goto, JoinWaitsForNoMessage, IInv, control, connection
  <2>8. StartIsCalledFor' /\ ReadyIsOfStart' /\ ~leaked'
    BY <1>7 DEF CheckStop, IInv, StartIsCalledFor, ReadyIsOfStart, control, flags, history
  <2> QED BY <2>1, <2>2, <2>3, <2>4, <2>5, <2>6, <2>7, <2>8 DEF IInv
<1>8. ASSUME NEW t \in Threads, CreatePipe(t) PROVE IInv'
  <2>1. TypeOK'
    <3>1. pc' \in [Threads -> Places]
      BY <1>8 DEF CreatePipe, Goto, IInv, TypeOK, Ended, Places
    <3>2. pipe' \in [Threads -> Instances]
      BY <1>8 DEF CreatePipe, IInv, TypeOK, connection, Instances
    <3>3. inbox' \in [Threads -> Seq(Messages)]
      <4>1. inbox \in [Threads -> Seq(Messages)]
        BY DEF IInv, TypeOK
      <4>2. inbox' = [inbox EXCEPT ![t] = <<>>] \/ inbox' = inbox
        BY <1>8 DEF CreatePipe, connection
      <4> QED BY <4>1, <4>2, NoFrames
    <3>4. greeted' \in [Threads -> BOOLEAN]
      BY <1>8 DEF CreatePipe, IInv, TypeOK, connection
    <3> QED BY <3>1, <3>2, <3>3, <3>4, <1>8 DEF CreatePipe, IInv, TypeOK, control, flags,
       history
  <2>2. OnlyLatestRuns'
    BY <1>8 DEF CreatePipe, Goto, OnlyLatestRuns, IInv, Ended, control, TypeOK
  <2>3. PipeFollowsThread'
    <3>1. ASSUME NEW s \in Threads, s # t PROVE PipeFollows(s)'
      BY <1>8, <3>1 DEF CreatePipe, Goto, IInv, TypeOK, PipeFollowsThread, PipeFollows,
         flags, connection
    <3>2. PipeFollows(t)
      BY DEF IInv, PipeFollowsThread
    <3>3. pc[t] \in Places /\ pipe[t] \in Instances /\ active \in 0 .. MaxStarts /\ t # 0
      BY DEF IInv, TypeOK, Threads
    <3>4. PipeFollows(t)'
      BY <1>8, <3>2, <3>3 DEF CreatePipe, Goto, IInv, TypeOK, PipeFollows, Ended, Closed,
         Published, Serving, flags, connection
    <3> QED BY <3>1, <3>4 DEF PipeFollowsThread
  <2>4. StopIsKnown'
    BY <1>8 DEF CreatePipe, StopIsKnown, IInv, Ended, control
  <2>5. AuthenticIsGreeted'
    BY <1>8 DEF CreatePipe, AuthenticIsGreeted, IInv, Ended, Serving, flags, OnlyLatestRuns
  <2>6. CallbackIsServed'
    BY <1>8 DEF CreatePipe, Goto, CallbackIsServed, IInv, flags, TypeOK
  <2>7. JoinWaitsForNoMessage'
    BY <1>8 DEF CreatePipe, Goto, JoinWaitsForNoMessage, IInv, control, connection, TypeOK
  <2>8. StartIsCalledFor' /\ ReadyIsOfStart' /\ ~leaked'
    BY <1>8 DEF CreatePipe, IInv, StartIsCalledFor, ReadyIsOfStart, control, flags, history
  <2> QED BY <2>1, <2>2, <2>3, <2>4, <2>5, <2>6, <2>7, <2>8 DEF IInv
<1>9. ASSUME NEW t \in Threads, PublishPipe(t) PROVE IInv'
  <2>1. TypeOK'
    <3>1. active' \in 0 .. MaxStarts
      BY <1>9 DEF PublishPipe, Threads
    <3>2. pc' \in [Threads -> Places]
      BY <1>9 DEF PublishPipe, Goto, IInv, TypeOK, Places
    <3> QED BY <3>1, <3>2, <1>9 DEF PublishPipe, IInv, TypeOK, control, connection, history
  <2>2. OnlyLatestRuns'
    BY <1>9 DEF PublishPipe, Goto, OnlyLatestRuns, IInv, Ended, control
  <2>3. PipeFollowsThread'
    BY <1>9 DEF PublishPipe, Goto, PipeFollowsThread, IInv, PipeFollows, Ended, Closed,
       Published, Serving, connection, TypeOK, OnlyLatestRuns
  <2>4. StopIsKnown'
    BY <1>9 DEF PublishPipe, StopIsKnown, IInv, Ended, control
  <2>5. AuthenticIsGreeted'
    BY <1>9 DEF PublishPipe, AuthenticIsGreeted
  <2>6. CallbackIsServed'
    BY <1>9 DEF PublishPipe, Goto, CallbackIsServed, IInv, Ended, OnlyLatestRuns
  <2>7. JoinWaitsForNoMessage'
    BY <1>9 DEF PublishPipe, Goto, JoinWaitsForNoMessage, IInv, control, connection
  <2>8. StartIsCalledFor' /\ ReadyIsOfStart' /\ ~leaked'
    BY <1>9 DEF PublishPipe, IInv, StartIsCalledFor, ReadyIsOfStart, control, history
  <2> QED BY <2>1, <2>2, <2>3, <2>4, <2>5, <2>6, <2>7, <2>8 DEF IInv
<1>10. ASSUME NEW t \in Threads, ConnectNamedPipe(t) PROVE IInv'
  <2>1. TypeOK'
    BY <1>10 DEF ConnectNamedPipe, Goto, TypeOK, IInv, control, flags, history, Places,
       Instances
  <2>2. OnlyLatestRuns'
    BY <1>10 DEF ConnectNamedPipe, Goto, OnlyLatestRuns, IInv, Ended, control
  <2>3. PipeFollowsThread'
    BY <1>10 DEF ConnectNamedPipe, Goto, PipeFollowsThread, IInv, PipeFollows, Ended,
       Closed, Published, Serving, flags
  <2>4. StopIsKnown'
    BY <1>10 DEF ConnectNamedPipe, StopIsKnown, IInv, Ended, control
  <2>5. AuthenticIsGreeted'
    BY <1>10 DEF ConnectNamedPipe, AuthenticIsGreeted, IInv, Ended, Serving, flags,
       OnlyLatestRuns
  <2>6. CallbackIsServed'
    BY <1>10 DEF ConnectNamedPipe, Goto, CallbackIsServed, IInv, flags
  <2>7. JoinWaitsForNoMessage'
    BY <1>10 DEF ConnectNamedPipe, Goto, JoinWaitsForNoMessage, IInv, control
  <2>8. StartIsCalledFor' /\ ReadyIsOfStart' /\ ~leaked'
    BY <1>10 DEF ConnectNamedPipe, IInv, StartIsCalledFor, ReadyIsOfStart, control, flags,
       history
  <2> QED BY <2>1, <2>2, <2>3, <2>4, <2>5, <2>6, <2>7, <2>8 DEF IInv
<1>11. ASSUME NEW t \in Threads, ConnectReturns(t) PROVE IInv'
  <2>1. TypeOK'
    BY <1>11 DEF ConnectReturns, Goto, TypeOK, IInv, control, flags, connection, history,
       Places
  <2>2. OnlyLatestRuns'
    BY <1>11 DEF ConnectReturns, Goto, OnlyLatestRuns, IInv, Ended, control
  <2>3. PipeFollowsThread'
    <3>1. ASSUME NEW s \in Threads, s # t PROVE PipeFollows(s)'
      BY <1>11, <3>1 DEF ConnectReturns, Goto, IInv, PipeFollowsThread, PipeFollows, flags,
         connection
    <3>2. PipeFollows(t)
      BY DEF IInv, PipeFollowsThread
    <3>3. pc[t] \in Places /\ pipe[t] \in Instances /\ active \in 0 .. MaxStarts /\ t # 0
      BY DEF IInv, TypeOK, Threads
    <3>4. PipeFollows(t)'
      <4>1. pipe[t] \in {"connected", "broken", "disconnected"}
        BY <1>11, <3>2, <3>3 DEF ConnectReturns, PipeFollows, Closed, Ended, Instances
      <4>2. pc'[t] \in {"loop", "clear"} /\ active' = active /\ pipe' = pipe
        BY <1>11 DEF ConnectReturns, Goto, IInv, TypeOK, flags, connection
      <4>3. active = t
        BY <1>11, <3>2 DEF ConnectReturns, PipeFollows, Published
      <4> QED BY <4>1, <4>2, <4>3 DEF PipeFollows, Closed, Ended, Published
    <3> QED BY <3>1, <3>4 DEF PipeFollowsThread
  <2>4. StopIsKnown'
    BY <1>11 DEF ConnectReturns, StopIsKnown, IInv, Ended, control
  <2>5. AuthenticIsGreeted'
    BY <1>11 DEF ConnectReturns, AuthenticIsGreeted, IInv, Ended, Serving, flags,
       OnlyLatestRuns
  <2>6. CallbackIsServed'
    BY <1>11 DEF ConnectReturns, Goto, CallbackIsServed, IInv, flags
  <2>7. JoinWaitsForNoMessage'
    BY <1>11 DEF ConnectReturns, Goto, JoinWaitsForNoMessage, IInv, control, connection
  <2>8. StartIsCalledFor' /\ ReadyIsOfStart' /\ ~leaked'
    BY <1>11 DEF ConnectReturns, IInv, StartIsCalledFor, ReadyIsOfStart, control, flags,
       history
  <2> QED BY <2>1, <2>2, <2>3, <2>4, <2>5, <2>6, <2>7, <2>8 DEF IInv
<1>12. ASSUME NEW t \in Threads, LoopCheck(t) PROVE IInv'
  <2>1. TypeOK'
    BY <1>12 DEF LoopCheck, Goto, TypeOK, IInv, control, flags, connection, history, Places
  <2>2. OnlyLatestRuns'
    BY <1>12 DEF LoopCheck, Goto, OnlyLatestRuns, IInv, Ended, control
  <2>3. PipeFollowsThread'
    BY <1>12 DEF LoopCheck, Goto, PipeFollowsThread, IInv, PipeFollows, Ended, Closed,
       Published, Serving, flags, connection
  <2>4. StopIsKnown'
    BY <1>12 DEF LoopCheck, StopIsKnown, IInv, Ended, control
  <2>5. AuthenticIsGreeted'
    BY <1>12 DEF LoopCheck, Goto, AuthenticIsGreeted, IInv, Serving, flags, connection
  <2>6. CallbackIsServed'
    BY <1>12 DEF LoopCheck, Goto, CallbackIsServed, IInv, flags
  <2>7. JoinWaitsForNoMessage'
    BY <1>12 DEF LoopCheck, Goto, JoinWaitsForNoMessage, IInv, control, connection,
       StopIsKnown
  <2>8. StartIsCalledFor' /\ ReadyIsOfStart' /\ ~leaked'
    BY <1>12 DEF LoopCheck, IInv, StartIsCalledFor, ReadyIsOfStart, control, flags, history
  <2> QED BY <2>1, <2>2, <2>3, <2>4, <2>5, <2>6, <2>7, <2>8 DEF IInv
<1>13. ASSUME NEW t \in Threads, ReadFails(t) PROVE IInv'
  <2>1. TypeOK'
    <3>1. pc' \in [Threads -> Places]
      BY <1>13 DEF ReadFails, Goto, IInv, TypeOK, Places
    <3>2. inbox' \in [Threads -> Seq(Messages)]
      <4>1. CASE Receives(t, "garbage")
        <5>1. inbox[t] \in Seq(Messages) /\ inbox[t] # <<>>
          BY <4>1 DEF Receives, IInv, TypeOK
        <5>2. Tail(inbox[t]) \in Seq(Messages)
          BY <5>1
        <5> QED BY <4>1, <5>2 DEF Receives, IInv, TypeOK
      <4>2. CASE UNCHANGED inbox
        BY <4>2 DEF IInv, TypeOK
      <4> QED BY <1>13, <4>1, <4>2 DEF ReadFails
    <3> QED BY <3>1, <3>2, <1>13 DEF ReadFails, Receives, IInv, TypeOK, control
  <2>2. OnlyLatestRuns'
    BY <1>13 DEF ReadFails, Goto, Receives, OnlyLatestRuns, IInv, Ended, control
  <2>3. PipeFollowsThread'
    BY <1>13, MaxStartsAssumption DEF ReadFails, Goto, Receives, PipeFollowsThread, IInv,
       PipeFollows, Ended, Closed, Published, Serving
  <2>4. StopIsKnown'
    BY <1>13 DEF ReadFails, Receives, StopIsKnown, IInv, Ended, control
  <2>5. AuthenticIsGreeted'
    BY <1>13 DEF ReadFails, Goto, Receives, AuthenticIsGreeted, IInv, Serving
  <2>6. CallbackIsServed'
    BY <1>13 DEF ReadFails, Goto, Receives, CallbackIsServed, IInv
  <2>7. JoinWaitsForNoMessage'
    BY <1>13 DEF ReadFails, Goto, Receives, JoinWaitsForNoMessage, IInv, control
  <2>8. StartIsCalledFor' /\ ReadyIsOfStart' /\ ~leaked'
    BY <1>13 DEF ReadFails, Receives, IInv, StartIsCalledFor, ReadyIsOfStart, control
  <2> QED BY <2>1, <2>2, <2>3, <2>4, <2>5, <2>6, <2>7, <2>8 DEF IInv
<1>14. ASSUME NEW t \in Threads, NEW m \in Messages, HandleFirst(t, m) PROVE IInv'
  <2>1. TypeOK'
    <3>1. pc' \in [Threads -> Places]
      BY <1>14 DEF HandleFirst, Goto, Replied, IInv, TypeOK, Places
    <3>2. inbox' \in [Threads -> Seq(Messages)]
      BY <1>14 DEF HandleFirst, Goto, Receives, IInv, TypeOK
    <3>3. greeted' \in [Threads -> BOOLEAN]
      BY <1>14 DEF HandleFirst, IInv, TypeOK
    <3> QED BY <3>1, <3>2, <3>3, <1>14 DEF HandleFirst, Receives, Touch, IInv, TypeOK,
       control
  <2>2. OnlyLatestRuns'
    BY <1>14 DEF HandleFirst, Goto, Receives, Replied, OnlyLatestRuns, IInv, Ended, control,
       TypeOK
  <2>3. PipeFollowsThread'
    BY <1>14, MaxStartsAssumption DEF HandleFirst, Goto, Receives, Replied,
       PipeFollowsThread, IInv, PipeFollows, Ended, Closed, Published, TypeOK
  <2>4. StopIsKnown'
    BY <1>14 DEF HandleFirst, Receives, StopIsKnown, IInv, Ended, control
  <2>5. AuthenticIsGreeted'
    <3>1. active = t
      BY <1>14 DEF HandleFirst, Receives, IInv, PipeFollowsThread, PipeFollows, Published
    <3>2. CASE m = "hello"
      BY <1>14, <3>1, <3>2 DEF HandleFirst, Receives, Replied, Goto, IInv, TypeOK,
         AuthenticIsGreeted, Serving
    <3>3. CASE m # "hello"
      BY <1>14, <3>3 DEF HandleFirst, AuthenticIsGreeted
    <3> QED BY <3>2, <3>3
  <2>6. CallbackIsServed'
    BY <1>14, MaxStartsAssumption DEF HandleFirst, Goto, Replied, CallbackIsServed, IInv,
       TypeOK
  <2>7. ReadyIsOfStart'
    BY <1>14 DEF HandleFirst, Receives, Touch, ReadyIsOfStart, IInv, control
  <2>8. JoinWaitsForNoMessage'
    BY <1>14 DEF HandleFirst, Receives, JoinWaitsForNoMessage, IInv, control
  <2>9. StartIsCalledFor' /\ ~leaked'
    BY <1>14 DEF HandleFirst, Receives, IInv, StartIsCalledFor, control
  <2> QED BY <2>1, <2>2, <2>3, <2>4, <2>5, <2>6, <2>7, <2>8, <2>9 DEF IInv
<1>15. ASSUME NEW t \in Threads, NEW m \in Messages, HandleMessage(t, m) PROVE IInv'
  <2>1. TypeOK'
    <3>1. pc' \in [Threads -> Places]
      BY <1>15 DEF HandleMessage, Goto, Replied, IInv, TypeOK, Places
    <3>2. inbox' \in [Threads -> Seq(Messages)]
      BY <1>15 DEF HandleMessage, Receives, IInv, TypeOK
    <3>3. serving' \in [Threads -> Messages \union {"none"}]
      BY <1>15 DEF HandleMessage, IInv, TypeOK
    <3>4. readyOf' \in 0 .. MaxStarts
      BY <1>15 DEF HandleMessage, IInv, TypeOK, Threads
    <3> QED BY <3>1, <3>2, <3>3, <3>4, <1>15 DEF HandleMessage, Receives, Touch, IInv,
       TypeOK, control
  <2>2. OnlyLatestRuns'
    <3>1. t = starts
      BY <1>15 DEF HandleMessage, Receives, IInv, OnlyLatestRuns, Ended
    <3>2. \A s \in Threads : s # t => pc'[s] = pc[s]
      BY <1>15 DEF HandleMessage, Goto, Replied, IInv, TypeOK
    <3>3. starts' = starts
      BY <1>15 DEF HandleMessage, Receives, control
    <3> QED BY <3>1, <3>2, <3>3 DEF IInv, OnlyLatestRuns
  <2>3. PipeFollowsThread'
    BY <1>15, MaxStartsAssumption DEF HandleMessage, Goto, Receives, Replied, HasCallback,
       PipeFollowsThread, IInv, PipeFollows, Ended, Closed, Published, TypeOK,
       StartIsCalledFor, AuthenticIsGreeted, CallbackIsServed, ReadyIsOfStart,
       JoinWaitsForNoMessage
  <2>4. StopIsKnown'
    BY <1>15 DEF HandleMessage, Receives, StopIsKnown, IInv, Ended, control
  <2>5. AuthenticIsGreeted'
    BY <1>15, MaxStartsAssumption DEF HandleMessage, Goto, Receives, Replied,
       AuthenticIsGreeted, IInv, Serving, TypeOK
  <2>6. CallbackIsServed'
    BY <1>15, MaxStartsAssumption DEF HandleMessage, Goto, Receives, Replied, Permitted,
       CallbackIsServed, IInv, TypeOK
  <2>7. ReadyIsOfStart'
    BY <1>15 DEF HandleMessage, Receives, Touch, ReadyIsOfStart, IInv, Ended, control,
       OnlyLatestRuns, StopIsKnown, StartIsCalledFor, AuthenticIsGreeted, CallbackIsServed,
       JoinWaitsForNoMessage
  <2>8. JoinWaitsForNoMessage'
    BY <1>15 DEF HandleMessage, Receives, JoinWaitsForNoMessage, IInv, control
  <2>9. StartIsCalledFor' /\ ~leaked'
    BY <1>15 DEF HandleMessage, Receives, IInv, StartIsCalledFor, control
  <2> QED BY <2>1, <2>2, <2>3, <2>4, <2>5, <2>6, <2>7, <2>8, <2>9 DEF IInv
<1>16. ASSUME NEW t \in Threads, FinishCallback(t) PROVE IInv'
  <2>1. TypeOK'
    BY <1>16 DEF FinishCallback, Goto, Replied, TypeOK, IInv, control, flags, connection,
       history, Places
  <2>2. OnlyLatestRuns'
    <3>1. t = starts
      BY <1>16 DEF FinishCallback, IInv, OnlyLatestRuns, Ended
    <3>2. \A s \in Threads : s # t => pc'[s] = pc[s]
      BY <1>16 DEF FinishCallback, Goto, Replied, IInv, TypeOK
    <3>3. starts' = starts
      BY <1>16 DEF FinishCallback, control
    <3> QED BY <3>1, <3>2, <3>3 DEF IInv, OnlyLatestRuns
  <2>3. PipeFollowsThread'
    BY <1>16, MaxStartsAssumption DEF FinishCallback, Goto, Replied, PipeFollowsThread,
       IInv, PipeFollows, Ended, Closed, Published, flags, connection, TypeOK,
       StartIsCalledFor, AuthenticIsGreeted, CallbackIsServed, ReadyIsOfStart,
       JoinWaitsForNoMessage
  <2>4. StopIsKnown'
    BY <1>16 DEF FinishCallback, StopIsKnown, IInv, Ended, control
  <2>5. AuthenticIsGreeted'
    BY <1>16, MaxStartsAssumption DEF FinishCallback, Goto, Replied, AuthenticIsGreeted,
       IInv, Serving, flags, connection, TypeOK
  <2>6. CallbackIsServed'
    BY <1>16, MaxStartsAssumption DEF FinishCallback, Goto, Replied, CallbackIsServed, IInv,
       flags, TypeOK
  <2>7. JoinWaitsForNoMessage'
    BY <1>16, MaxStartsAssumption DEF FinishCallback, Goto, Replied, JoinWaitsForNoMessage,
       IInv, control, connection, TypeOK
  <2>8. StartIsCalledFor' /\ ReadyIsOfStart' /\ ~leaked'
    BY <1>16 DEF FinishCallback, IInv, StartIsCalledFor, ReadyIsOfStart, control, flags,
       history
  <2> QED BY <2>1, <2>2, <2>3, <2>4, <2>5, <2>6, <2>7, <2>8 DEF IInv
<1>17. ASSUME NEW t \in Threads, ClearActive(t) PROVE IInv'
  <2>1. TypeOK'
    <3>1. active' \in 0 .. MaxStarts
      BY <1>17, MaxStartsAssumption DEF ClearActive, Withdrawn, IInv, TypeOK
    <3>2. pc' \in [Threads -> Places]
      BY <1>17 DEF ClearActive, Goto, IInv, TypeOK, Places
    <3> QED BY <3>1, <3>2, <1>17 DEF ClearActive, IInv, TypeOK, control, connection, history
  <2>2. OnlyLatestRuns'
    BY <1>17 DEF ClearActive, Goto, OnlyLatestRuns, IInv, Ended, control
  <2>3. PipeFollowsThread'
    <3>1. ASSUME NEW s \in Threads, s # t PROVE PipeFollows(s)'
      BY <1>17, <3>1 DEF ClearActive, Goto, Withdrawn, IInv, PipeFollowsThread, PipeFollows,
         Threads, connection
    <3>2. PipeFollows(t)
      BY DEF IInv, PipeFollowsThread
    <3>3. pc[t] \in Places /\ pipe[t] \in Instances /\ active \in 0 .. MaxStarts /\ t # 0
      BY DEF IInv, TypeOK, Threads
    <3>4. PipeFollows(t)'
      BY <1>17, <3>2, <3>3 DEF ClearActive, Goto, Withdrawn, IInv, TypeOK, PipeFollows,
         Ended, Closed, Published, Serving, connection
    <3> QED BY <3>1, <3>4 DEF PipeFollowsThread
  <2>4. StopIsKnown'
    BY <1>17 DEF ClearActive, StopIsKnown, IInv, Ended, control
  <2>5. AuthenticIsGreeted'
    BY <1>17 DEF ClearActive, AuthenticIsGreeted
  <2>6. CallbackIsServed'
    BY <1>17 DEF ClearActive, Goto, CallbackIsServed, IInv, Ended, OnlyLatestRuns
  <2>7. JoinWaitsForNoMessage'
    BY <1>17 DEF ClearActive, Goto, JoinWaitsForNoMessage, IInv, control, connection
  <2>8. StartIsCalledFor' /\ ReadyIsOfStart' /\ ~leaked'
    BY <1>17 DEF ClearActive, IInv, StartIsCalledFor, ReadyIsOfStart, control, history
  <2> QED BY <2>1, <2>2, <2>3, <2>4, <2>5, <2>6, <2>7, <2>8 DEF IInv
<1>18. ASSUME NEW t \in Threads, ClosePipe(t) PROVE IInv'
  <2>1. TypeOK'
    BY <1>18 DEF ClosePipe, Goto, TypeOK, IInv, control, flags, history, Places, Instances
  <2>2. OnlyLatestRuns'
    BY <1>18 DEF ClosePipe, Goto, OnlyLatestRuns, IInv, Ended, control
  <2>3. PipeFollowsThread'
    BY <1>18 DEF ClosePipe, Goto, PipeFollowsThread, IInv, PipeFollows, Closed, Published,
       Serving, flags, TypeOK
  <2>4. StopIsKnown'
    BY <1>18 DEF ClosePipe, StopIsKnown, IInv, Ended, control
  <2>5. AuthenticIsGreeted'
    BY <1>18 DEF ClosePipe, AuthenticIsGreeted, IInv, Ended, Serving, flags, OnlyLatestRuns
  <2>6. CallbackIsServed'
    BY <1>18 DEF ClosePipe, Goto, CallbackIsServed, IInv, flags
  <2>7. JoinWaitsForNoMessage'
    BY <1>18 DEF ClosePipe, Goto, JoinWaitsForNoMessage, IInv, control
  <2>8. StartIsCalledFor' /\ ReadyIsOfStart' /\ ~leaked'
    BY <1>18 DEF ClosePipe, IInv, StartIsCalledFor, ReadyIsOfStart, control, flags, history
  <2> QED BY <2>1, <2>2, <2>3, <2>4, <2>5, <2>6, <2>7, <2>8 DEF IInv
<1>19. ASSUME NEW t \in Threads, Wake(t) PROVE IInv'
  <2>1. TypeOK'
    BY <1>19 DEF Wake, Goto, TypeOK, IInv, control, flags, connection, history, Places
  <2>2. OnlyLatestRuns'
    BY <1>19 DEF Wake, Goto, OnlyLatestRuns, IInv, Ended, control
  <2>3. PipeFollowsThread'
    BY <1>19 DEF Wake, Goto, PipeFollowsThread, IInv, PipeFollows, Closed, Published,
       Serving, flags, connection
  <2>4. StopIsKnown'
    BY <1>19 DEF Wake, StopIsKnown, IInv, Ended, control
  <2>5. AuthenticIsGreeted'
    BY <1>19 DEF Wake, AuthenticIsGreeted, IInv, Ended, Serving, flags, OnlyLatestRuns
  <2>6. CallbackIsServed'
    BY <1>19 DEF Wake, Goto, CallbackIsServed, IInv, flags
  <2>7. JoinWaitsForNoMessage'
    BY <1>19 DEF Wake, Goto, JoinWaitsForNoMessage, IInv, control, connection
  <2>8. StartIsCalledFor' /\ ReadyIsOfStart' /\ ~leaked'
    BY <1>19 DEF Wake, IInv, StartIsCalledFor, ReadyIsOfStart, control, flags, history
  <2> QED BY <2>1, <2>2, <2>3, <2>4, <2>5, <2>6, <2>7, <2>8 DEF IInv
<1>20. ASSUME NEW t \in Threads, ClientConnects(t) PROVE IInv'
  <2>1. TypeOK'
    BY <1>20 DEF ClientConnects, TypeOK, IInv, control, flags, history, Instances
  <2>2. PipeFollowsThread'
    BY <1>20 DEF ClientConnects, PipeFollowsThread, IInv, PipeFollows, flags
  <2>3. AuthenticIsGreeted'
    BY <1>20 DEF ClientConnects, AuthenticIsGreeted, IInv, PipeFollows, flags,
       PipeFollowsThread
  <2>4. JoinWaitsForNoMessage'
    BY <1>20 DEF ClientConnects, JoinWaitsForNoMessage, IInv, control
  <2>5. OnlyLatestRuns' /\ StopIsKnown' /\ StartIsCalledFor' /\ CallbackIsServed' /\
     ReadyIsOfStart' /\ ~leaked'
    BY <1>20 DEF ClientConnects, IInv, OnlyLatestRuns, StopIsKnown, StartIsCalledFor,
       CallbackIsServed, ReadyIsOfStart, control, flags, history
  <2> QED BY <2>1, <2>2, <2>3, <2>4, <2>5 DEF IInv
<1>21. ASSUME NEW t \in Threads, NEW m \in Messages, ClientSends(t, m) PROVE IInv'
  <2>1. TypeOK'
    BY <1>21 DEF ClientSends, TypeOK, IInv, control, flags, history
  <2>2. OnlyLatestRuns' /\ PipeFollowsThread' /\ StopIsKnown' /\ StartIsCalledFor' /\
     AuthenticIsGreeted' /\ CallbackIsServed' /\ ReadyIsOfStart' /\ JoinWaitsForNoMessage'
     /\ ~leaked'
    BY <1>21 DEF ClientSends, IInv, OnlyLatestRuns, PipeFollowsThread, StopIsKnown,
       StartIsCalledFor, AuthenticIsGreeted, CallbackIsServed, ReadyIsOfStart,
       JoinWaitsForNoMessage, PipeFollows, control, flags, history
  <2> QED BY <2>1, <2>2 DEF IInv
<1>22. ASSUME NEW t \in Threads, ClientLeaves(t) PROVE IInv'
  <2>1. TypeOK'
    BY <1>22 DEF ClientLeaves, TypeOK, IInv, control, flags, history, Instances
  <2>2. PipeFollowsThread'
    BY <1>22 DEF ClientLeaves, PipeFollowsThread, IInv, PipeFollows, flags
  <2>3. JoinWaitsForNoMessage'
    BY <1>22 DEF ClientLeaves, JoinWaitsForNoMessage, IInv, control
  <2>4. OnlyLatestRuns' /\ StopIsKnown' /\ StartIsCalledFor' /\ AuthenticIsGreeted' /\
     CallbackIsServed' /\ ReadyIsOfStart' /\ ~leaked'
    BY <1>22 DEF ClientLeaves, IInv, OnlyLatestRuns, StopIsKnown, StartIsCalledFor,
       AuthenticIsGreeted, CallbackIsServed, ReadyIsOfStart, control, flags, history
  <2> QED BY <2>1, <2>2, <2>3, <2>4 DEF IInv
<1>23. CASE UNCHANGED vars
  BY <1>23 DEF IInv, TypeOK, OnlyLatestRuns, PipeFollowsThread, StopIsKnown,
     StartIsCalledFor, AuthenticIsGreeted, CallbackIsServed, ReadyIsOfStart,
     JoinWaitsForNoMessage, vars, PipeFollows, control, flags, connection, history
<1> QED
  BY <1>1, <1>2, <1>3, <1>4, <1>5, <1>6, <1>7, <1>8, <1>9, <1>10, <1>11, <1>12, <1>13,
     <1>14, <1>15, <1>16, <1>17, <1>18, <1>19, <1>20, <1>21, <1>22, <1>23 DEF Next, Owner,
     Stop, Listen, Serve, Client

\* A server that was never started satisfies the invariant.
LEMMA InitEstablishes == Init => IInv
<1> SUFFICES ASSUME Init PROVE IInv
  OBVIOUS
<1>1. TypeOK
  <2>1. inbox \in [Threads -> Seq(Messages)]
    BY DEF Init
  <2>2. 0 \in 0 .. MaxStarts
    BY MaxStartsAssumption
  <2>3. pc \in [Threads -> Places] /\ serving \in [Threads -> Messages \union {"none"}]
    BY DEF Init, Places, Ended
  <2>4. pipe \in [Threads -> Instances] /\ greeted \in [Threads -> BOOLEAN]
    BY DEF Init, Instances
  <2> QED BY <2>1, <2>2, <2>3, <2>4 DEF Init, TypeOK
<1>2. OnlyLatestRuns /\ PipeFollowsThread /\ StopIsKnown /\ StartIsCalledFor
  BY DEF Init, OnlyLatestRuns, PipeFollowsThread, PipeFollows, StopIsKnown,
     StartIsCalledFor, Closed, Published, Serving, Ended
<1>3. AuthenticIsGreeted /\ CallbackIsServed /\ ReadyIsOfStart /\ JoinWaitsForNoMessage /\
   ~leaked
  BY DEF Init, AuthenticIsGreeted, CallbackIsServed, ReadyIsOfStart, JoinWaitsForNoMessage
<1> QED BY <1>1, <1>2, <1>3 DEF IInv

\* The invariant holds in every reachable state.
THEOREM Invariance == Spec => []IInv
BY InitEstablishes, Inductive, PTL DEF Spec

-----------------------------------------------------------------------------
\* Every variable keeps its kind, for any number of starts.
THEOREM TypeCorrect == Spec => []TypeOK
<1>1. IInv => TypeOK
  BY DEF IInv
<1> QED BY <1>1, Invariance, PTL

\* The UI thread never cancels, disconnects, writes to or closes a handle the
\* server thread has closed.
THEOREM NoClosedHandleIsUsed == Spec => []PublishedHandleIsOpen
<1>1. IInv => PublishedHandleIsOpen
  <2> SUFFICES ASSUME IInv, active # 0 PROVE pipe[active] # "none"
    BY DEF PublishedHandleIsOpen
  <2>1. active \in Threads
    BY DEF IInv, TypeOK, Threads
  <2>2. PipeFollows(active)
    BY <2>1 DEF IInv, PipeFollowsThread
  <2> QED BY <2>2 DEF PipeFollows, Published, Closed, Ended
<1> QED BY <1>1, Invariance, PTL

\* Stop leaves no server thread, no callback and no open pipe behind.
THEOREM StopLeavesNothing == Spec => []StopIsQuiescent
<1>1. IInv => StopIsQuiescent
  <2> SUFFICES ASSUME IInv, owner = "start" \/ (owner = "idle" /\ stop)
               PROVE active = 0 /\ \A t \in Threads : pc[t] \in Ended /\ pipe[t] = "none"
    BY DEF StopIsQuiescent
  <2>1. \A t \in Threads : pc[t] \in Ended
    BY DEF IInv, StopIsKnown
  <2>2. \A t \in Threads : pipe[t] = "none" /\ active # t
    BY <2>1 DEF IInv, PipeFollowsThread, PipeFollows, Closed, Published, Ended
  <2>3. active \in 0 .. MaxStarts
    BY DEF IInv, TypeOK
  <2>4. active = 0
    BY <2>2, <2>3 DEF Threads
  <2> QED BY <2>1, <2>2, <2>4
<1> QED BY <1>1, Invariance, PTL

\* Whatever a client sends, in whatever order and over whatever number of
\* connections, a callback runs only for a greeted and permitted one.
THEOREM CallbacksAreAuthorized == Spec => []CallbackIsAuthorized
<1>1. IInv => CallbackIsAuthorized
  <2> SUFFICES ASSUME IInv, NEW t \in Threads, pc[t] = "callback"
               PROVE /\ greeted[t]
                     /\ serving[t] \in DOMAIN NeededPermission =>
                        NeededPermission[serving[t]] \in permissions
    BY DEF CallbackIsAuthorized
  <2>1. authenticated /\ active = t
    BY DEF IInv, CallbackIsServed, PipeFollowsThread, PipeFollows, Published
  <2>2. greeted[t]
    BY <2>1 DEF IInv, AuthenticIsGreeted
  <2> QED BY <2>2 DEF IInv, CallbackIsServed
<1> QED BY <1>1, Invariance, PTL

\* No overlay notice reaches a connection that has not authenticated.
THEOREM OverlayNoticesAreAuthorized == Spec => []OverlayIsAuthorized
<1>1. IInv => OverlayIsAuthorized
  BY DEF IInv, OverlayIsAuthorized
<1> QED BY <1>1, Invariance, PTL

\* Nothing is done for a connection that has not authenticated.
THEOREM ClientsAreAuthorized == Spec => []OnlyAuthorized
<1>1. CallbackIsAuthorized /\ OverlayIsAuthorized => OnlyAuthorized
  BY DEF OnlyAuthorized
<1> QED BY <1>1, CallbacksAreAuthorized, OverlayNoticesAreAuthorized, PTL

\* READY is that of the session being served, and comes with a time from which
\* the silence of the client is measured.
THEOREM ReadyIsCurrent == Spec => []ReadyIsOwn
<1>1. IInv => ReadyIsOwn
  BY DEF IInv, ReadyIsOfStart, ReadyIsOwn, ReadyBelongsToStart, ReadyIsTimed
<1> QED BY <1>1, Invariance, PTL

\* The join of Stop never waits for a message from the game.
THEOREM JoinIsNotHeldByTheGame == Spec => []JoinWaitsForNoMessage
<1>1. IInv => JoinWaitsForNoMessage
  BY DEF IInv
<1> QED BY <1>1, Invariance, PTL
=============================================================================
