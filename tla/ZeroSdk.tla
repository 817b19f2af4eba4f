------------------------------ MODULE ZeroSdk ------------------------------
(***************************************************************************)
(* The game's side of the session pipe: Client of src/sdk/ZeroSdk.cpp.     *)
(* The main thread initialises the client and shuts it down; a receiver    *)
(* thread reads the pipe, completes the requests and reconnects; a         *)
(* heartbeat thread writes every two seconds; the game's threads send      *)
(* requests and wait for their answers.  The runtime at the other end is   *)
(* modelled by what RuntimeIpcServer does to a connection.                 *)
(*                                                                         *)
(* Connections are numbered in the order they were opened; 0 is the        *)
(* invalid handle.  A section under a mutex is one step.  The request ids  *)
(* of HELLO and heartbeats, which no answer is looked up by, are left out. *)
(***************************************************************************)
EXTENDS Naturals, Sequences

CONSTANTS
    Callers,        \* the game's threads that send requests
    MaxCalls,       \* bound on the requests of one caller
    MaxSessions,    \* bound on the Initialize calls that read a valid bootstrap
    MaxConnections, \* bound on the connections opened
    MaxAttempts,    \* the delays of TryReconnect: five in the code
    SerialHandle    \* the system runs one call at a time on a synchronous handle

ASSUME BoundsAssumption ==
    /\ MaxCalls \in Nat /\ MaxSessions \in Nat /\ MaxConnections \in Nat
    /\ MaxAttempts \in Nat \ {0}
ASSUME SerialHandleAssumption == SerialHandle \in BOOLEAN

VARIABLES
    stop,       \* stop_
    connected,  \* connected_
    pipe,       \* pipe_
    nextId,     \* nextRequestId_
    pending,    \* pending_: the call each request id belongs to
    at,         \* where the main thread, the receiver and the heartbeat thread stand
    hnd,        \* the handle the main thread or the receiver works on
    attempts,   \* the delays TryReconnect has used
    again,      \* the Shutdown in progress is the first step of Initialize
    sessions,   \* Initialize calls that read a valid bootstrap
    caller,     \* where each caller stands in SendRequest
    calls,      \* requests each caller has made
    id,         \* the id of the caller's request
    object,     \* the caller's PendingResponse
    target,     \* the call the receiver is completing, and the answer
    result,     \* what the caller's last SendRequest returned
    runtime,    \* external: the runtime's server still runs
    link,       \* external: each connection
    requests,   \* external: frames the runtime has not read
    replies,    \* external: frames the receiver has not read
    accepted    \* history: the calls the runtime has carried out

client == <<stop, connected, pipe, nextId, pending>>
threads == <<at, hnd, attempts, again, sessions>>
sending == <<caller, calls, id, object, result>>
world == <<runtime, link, requests, replies, accepted>>
vars == <<client, threads, sending, target, world>>

Connections == 1 .. MaxConnections
Openers == {"main", "receiver"}
Calls == Callers \X (1 .. MaxCalls)
NoCall == <<>>
Opening == {"open", "hello", "welcome", "publish"}
MainPlaces == {"idle", "fail", "cancel", "close", "joinheart", "joinrecv", "bootstrap"}
ReceiverPlaces == {"none", "check", "toread", "reading", "dispatch", "callback", "lost",
                   "drop", "delay", "end", "done"}
HeartPlaces == {"none", "tick", "write", "mark", "done"}
CallerPlaces == {"idle", "insert", "write", "unwritten", "wait", "giveup", "erase"}

Goto(p, place) == at' = [at EXCEPT ![p] = place]
CallerGoto(c, place) == caller' = [caller EXCEPT ![c] = place]
OpenHandles == {n \in Connections : link[n] \in {"up", "broken"}}

-----------------------------------------------------------------------------
(* The shared steps.                                                       *)

\* FailAllPending: every call in pending_ is failed and pending_ is emptied; a mutant
\* forgets to fail them.
DropAllPending == pending' = <<>> /\ UNCHANGED object
FailAllPending ==
    /\ pending' = <<>>
    /\ object' = [c \in Callers |->
                     IF \E i \in DOMAIN pending : pending[i] = <<c, calls[c]>>
                     THEN "failed" ELSE object[c]]

\* The wire loses what it carries when its connection ends.
LoseFrames == requests' = <<>> /\ replies' = <<>>
CloseLink(n) == link' = [link EXCEPT ![n] = "closed"] /\ LoseFrames

\* CloseTransport.  On a serial handle CloseHandle waits for a read in progress, and
\* so does a write.
ReadInProgress == at["receiver"] = "reading" /\ hnd["receiver"] = pipe
HandleIsFree == SerialHandle /\ pipe # 0 => ~ReadInProgress
CloseTransport ==
    /\ HandleIsFree
    /\ connected' = FALSE
    /\ pipe' = 0
    /\ IF pipe = 0 THEN UNCHANGED <<link, requests, replies>> ELSE CloseLink(pipe)

\* WriteFrame's conditions, and whether the write succeeds.
Writable == connected /\ pipe # 0 /\ link[pipe] = "up"

-----------------------------------------------------------------------------
(* OpenAndAuthenticate, by the main thread or by the receiver.             *)

\* The delays of TryReconnect are used up.
Exhausted == attempts = MaxAttempts

\* What a failed attempt leads to: Initialize gives up, TryReconnect waits for
\* its next delay or has used them all.
AttemptFails(p) ==
    /\ hnd' = [hnd EXCEPT ![p] = 0]
    /\ IF p = "main"
       THEN Goto(p, "idle") /\ stop' = TRUE /\ UNCHANGED attempts
       ELSE /\ Goto(p, IF Exhausted THEN "end" ELSE "delay")
            /\ UNCHANGED <<stop, attempts>>

\* CreateFileW: cancelled, past the deadline, or connected to the one instance.
OpenPipe(p) ==
    /\ at[p] = "open"
    /\ \/ /\ AttemptFails(p)
          /\ UNCHANGED link
       \/ \E n \in Connections :
          /\ ~stop /\ runtime
          /\ link[n] = "none" /\ \A m \in Connections : m < n => link[m] # "none"
          /\ \A m \in Connections : link[m] # "up"
          /\ link' = [link EXCEPT ![n] = "up"]
          /\ hnd' = [hnd EXCEPT ![p] = n]
          /\ Goto(p, "hello")
          /\ UNCHANGED <<stop, attempts>>
    /\ UNCHANGED <<connected, pipe, nextId, pending, again, sessions, sending, target,
                   runtime, requests, replies, accepted>>

\* The HELLO frame.
SayHello(p) ==
    /\ at[p] = "hello"
    /\ IF link[hnd[p]] = "up"
       THEN /\ Goto(p, "welcome")
            /\ UNCHANGED <<stop, hnd, attempts, link, requests, replies>>
       ELSE AttemptFails(p) /\ CloseLink(hnd[p])
    /\ UNCHANGED <<connected, pipe, nextId, pending, again, sessions, sending, target,
                   runtime, accepted>>

\* The answer to it: WELCOME, or anything else, or a broken pipe.
ReadWelcome(p) ==
    /\ at[p] = "welcome"
    /\ \/ /\ link[hnd[p]] = "up"
          /\ Goto(p, "publish")
          /\ UNCHANGED <<stop, hnd, attempts, link, requests, replies>>
       \/ AttemptFails(p) /\ CloseLink(hnd[p])
    /\ UNCHANGED <<connected, pipe, nextId, pending, again, sessions, sending, target,
                   runtime, accepted>>

\* The previous handle is closed before the new one replaces it; a mutant forgets it.
OverwriteHandle == UNCHANGED link
ReplaceHandle == link' = [n \in Connections |-> IF n = pipe THEN "closed" ELSE link[n]]

\* The new handle; after Initialize the receiver and the heartbeat thread start.
Publish(p) ==
    /\ at[p] = "publish"
    /\ ReplaceHandle
    /\ pipe' = hnd[p]
    /\ connected' = TRUE
    /\ hnd' = [hnd EXCEPT ![p] = 0]
    /\ at' = IF p = "main"
             THEN [main |-> "idle", receiver |-> "check", heart |-> "tick"]
             ELSE [at EXCEPT ![p] = "check"]
    /\ UNCHANGED <<stop, nextId, pending, attempts, again, sessions, sending, target,
                   runtime, requests, replies, accepted>>

-----------------------------------------------------------------------------
(* The main thread.                                                        *)

\* Shutdown, also as the first call of Initialize.
CallShutdown ==
    /\ at["main"] = "idle"
    /\ stop' = TRUE
    /\ again' \in {a \in BOOLEAN : a => sessions < MaxSessions}
    /\ Goto("main", "fail")
    /\ UNCHANGED <<connected, pipe, nextId, pending, hnd, attempts, sessions, sending,
                   target, world>>

ShutdownFailsPending ==
    /\ at["main"] = "fail"
    /\ FailAllPending
    /\ Goto("main", "cancel")
    /\ UNCHANGED <<stop, connected, pipe, nextId, hnd, attempts, again, sessions, caller,
                   calls, id, result, target, world>>

\* CancelSynchronousIo: a read in progress fails, a read not begun is not affected.
ShutdownCancels ==
    /\ at["main"] = "cancel"
    /\ at' = [at EXCEPT !["main"] = "close",
                        !["receiver"] = CASE @ = "reading" -> "lost"
                                          [] @ = "welcome" -> "refused"
                                          [] OTHER -> @]
    /\ UNCHANGED <<client, hnd, attempts, again, sessions, sending, target, world>>

ShutdownCloses ==
    /\ at["main"] = "close"
    /\ CloseTransport
    /\ Goto("main", "joinheart")
    /\ UNCHANGED <<stop, nextId, pending, hnd, attempts, again, sessions, sending, target,
                   runtime, accepted>>

\* heartbeatThread_.join(), then receiverThread_.join() and the reset of the identity.
JoinHeartbeat ==
    /\ at["main"] = "joinheart"
    /\ at["heart"] \in {"none", "done"}
    /\ Goto("main", "joinrecv")
    /\ UNCHANGED <<client, hnd, attempts, again, sessions, sending, target, world>>

JoinReceiver ==
    /\ at["main"] = "joinrecv"
    /\ at["receiver"] \in {"none", "done"}
    /\ nextId' = 1
    /\ Goto("main", IF again THEN "bootstrap" ELSE "idle")
    /\ UNCHANGED <<stop, connected, pipe, pending, hnd, attempts, again, sessions, sending,
                   target, world>>

\* The rest of Initialize: the bootstrap file is missing or invalid, or names the pipe.
ReadBootstrap ==
    /\ at["main"] = "bootstrap"
    /\ \/ stop' = TRUE /\ Goto("main", "idle") /\ UNCHANGED sessions
       \/ stop' = FALSE /\ Goto("main", "open") /\ sessions' = sessions + 1
    /\ UNCHANGED <<connected, pipe, nextId, pending, hnd, attempts, again, sending, target,
                   world>>

-----------------------------------------------------------------------------
(* ReceiverLoop.                                                           *)

\* The loop's condition and the handle under connectionMutex_.
Capture ==
    /\ at["receiver"] = "check"
    /\ attempts' = 0
    /\ \/ stop /\ Goto("receiver", "end") /\ UNCHANGED hnd
       \/ /\ ~stop /\ connected /\ pipe # 0
          /\ hnd' = [hnd EXCEPT !["receiver"] = pipe]
          /\ Goto("receiver", "toread")
       \/ /\ ~stop /\ ~(connected /\ pipe # 0)
          /\ Goto("receiver", "delay")
          /\ UNCHANGED hnd
    /\ UNCHANGED <<client, again, sessions, sending, target, world>>

\* ReadMessage is called without a lock: the handle may be closed by now.
BeginRead ==
    /\ at["receiver"] = "toread"
    /\ Goto("receiver", IF link[hnd["receiver"]] = "closed" THEN "lost" ELSE "reading")
    /\ UNCHANGED <<client, hnd, attempts, again, sessions, sending, target, world>>

\* The read fails when either end is gone.
ReadFails ==
    /\ at["receiver"] = "reading"
    /\ link[hnd["receiver"]] # "up"
    /\ Goto("receiver", "lost")
    /\ UNCHANGED <<client, hnd, attempts, again, sessions, sending, target, world>>

\* The call pending_ names for an answer; a mutant completes any waiting call.
AnyCall(reply) == IF pending = <<>> THEN NoCall ELSE pending[CHOOSE i \in DOMAIN pending : TRUE]
CallOf(reply) == IF reply.id \in DOMAIN pending THEN pending[reply.id] ELSE NoCall

\* A frame arrives: an overlay notice, or an answer, looked up in pending_.
ReadFrame ==
    /\ at["receiver"] = "reading"
    /\ link[hnd["receiver"]] = "up" /\ replies # <<>>
    /\ replies' = Tail(replies)
    /\ IF Head(replies).kind = "overlay"
       THEN Goto("receiver", "callback") /\ UNCHANGED target
       ELSE /\ target' = [call |-> CallOf(Head(replies)), kind |-> Head(replies).kind]
            /\ Goto("receiver", "dispatch")
    /\ UNCHANGED <<client, hnd, attempts, again, sessions, sending, runtime, link, requests,
                   accepted>>

\* The game's overlay callback and the OVERLAY_ACK, whose failure is ignored.
RunCallback ==
    /\ at["receiver"] = "callback"
    /\ Goto("receiver", "check")
    /\ UNCHANGED <<client, hnd, attempts, again, sessions, sending, target, world>>

\* The answer is stored and the caller woken; its call may be over by now.
CompletePending ==
    /\ at["receiver"] = "dispatch"
    /\ object' = [c \in Callers |-> IF target.call = <<c, calls[c]>> /\ object[c] # "failed"
                                    THEN target.kind ELSE object[c]]
    /\ Goto("receiver", "check")
    /\ UNCHANGED <<client, hnd, attempts, again, sessions, caller, calls, id, result, target,
                   world>>

\* A failed read: the waiting calls fail, the transport closes, TryReconnect begins.
ReceiverFailsPending ==
    /\ at["receiver"] = "lost"
    /\ FailAllPending
    /\ Goto("receiver", "drop")
    /\ UNCHANGED <<stop, connected, pipe, nextId, hnd, attempts, again, sessions, caller,
                   calls, id, result, target, world>>

ReceiverCloses ==
    /\ at["receiver"] = "drop"
    /\ CloseTransport
    /\ attempts' = 0
    /\ Goto("receiver", "delay")
    /\ UNCHANGED <<stop, nextId, pending, hnd, again, sessions, sending, target, runtime,
                   accepted>>

\* One delay of TryReconnect, unless the client is stopping.
Delay ==
    /\ at["receiver"] = "delay"
    /\ IF stop
       THEN Goto("receiver", "end") /\ UNCHANGED attempts
       ELSE Goto("receiver", "open") /\ attempts' = attempts + 1
    /\ UNCHANGED <<client, hnd, again, sessions, sending, target, world>>

\* The handshake of TryReconnect was cancelled.
HandshakeCancelled ==
    /\ at["receiver"] = "refused"
    /\ AttemptFails("receiver")
    /\ CloseLink(hnd["receiver"])
    /\ UNCHANGED <<connected, pipe, nextId, pending, again, sessions, sending, target,
                   runtime, accepted>>

\* The last statement of ReceiverLoop.
ClearConnected == connected' = FALSE

ReceiverEnds ==
    /\ at["receiver"] = "end"
    /\ ClearConnected
    /\ Goto("receiver", "done")
    /\ UNCHANGED <<stop, pipe, nextId, pending, hnd, attempts, again, sessions, sending,
                   target, world>>

-----------------------------------------------------------------------------
(* HeartbeatLoop.                                                          *)

Tick ==
    /\ at["heart"] = "tick"
    /\ stop \/ connected
    /\ Goto("heart", IF stop THEN "done" ELSE "write")
    /\ UNCHANGED <<client, hnd, attempts, again, sessions, sending, target, world>>

Beat ==
    /\ at["heart"] = "write"
    /\ HandleIsFree
    /\ Goto("heart", IF Writable THEN "tick" ELSE "mark")
    /\ UNCHANGED <<client, hnd, attempts, again, sessions, sending, target, world>>

\* connected_ is cleared after the locks of WriteFrame are released.
MarkDisconnected ==
    /\ at["heart"] = "mark"
    /\ connected' = FALSE
    /\ Goto("heart", "tick")
    /\ UNCHANGED <<stop, pipe, nextId, pending, hnd, attempts, again, sessions, sending,
                   target, world>>

-----------------------------------------------------------------------------
(* SendRequest of caller c.  A call while connected_ is clear returns at   *)
(* once and changes nothing.                                               *)

TakeId(c) ==
    /\ caller[c] = "idle" /\ calls[c] < MaxCalls
    /\ connected
    /\ calls' = [calls EXCEPT ![c] = @ + 1]
    /\ id' = [id EXCEPT ![c] = nextId]
    /\ nextId' = nextId + 1
    /\ object' = [object EXCEPT ![c] = "open"]
    /\ result' = [result EXCEPT ![c] = "none"]
    /\ CallerGoto(c, "insert")
    /\ UNCHANGED <<stop, connected, pipe, pending, threads, target, world>>

InsertPending(c) ==
    /\ caller[c] = "insert"
    /\ pending' = [i \in DOMAIN pending \union {id[c]} |->
                      IF i = id[c] THEN <<c, calls[c]>> ELSE pending[i]]
    /\ CallerGoto(c, "write")
    /\ UNCHANGED <<stop, connected, pipe, nextId, threads, calls, id, object, result, target,
                   world>>

WriteRequest(c) ==
    /\ caller[c] = "write"
    /\ HandleIsFree
    /\ IF Writable
       THEN /\ requests' = Append(requests, [id |-> id[c], call |-> <<c, calls[c]>>])
            /\ CallerGoto(c, "wait")
       ELSE CallerGoto(c, "unwritten") /\ UNCHANGED requests
    /\ UNCHANGED <<client, threads, calls, id, object, result, target, runtime, link, replies,
                   accepted>>

\* The wait ends with completed, or after five seconds; a mutant waits for ever.
WakeWhenCompleted(c) ==
    /\ caller[c] = "wait"
    /\ object[c] # "open"
    /\ CallerGoto(c, "erase")
    /\ UNCHANGED <<client, threads, calls, id, object, result, target, world>>
Wake(c) ==
    /\ caller[c] = "wait"
    /\ \/ object[c] # "open" /\ CallerGoto(c, "erase")
       \/ object[c] = "open" /\ CallerGoto(c, "giveup")
    /\ UNCHANGED <<client, threads, calls, id, object, result, target, world>>

\* What an erased call returns.
Succeeded(c) == caller[c] = "erase" /\ object[c] = "accepted"

ErasePending(c) ==
    /\ caller[c] \in {"unwritten", "giveup", "erase"}
    /\ pending' = [i \in DOMAIN pending \ {id[c]} |-> pending[i]]
    /\ result' = [result EXCEPT ![c] = IF Succeeded(c) THEN "ok" ELSE "error"]
    /\ CallerGoto(c, "idle")
    /\ UNCHANGED <<stop, connected, pipe, nextId, threads, calls, id, object, target, world>>

-----------------------------------------------------------------------------
(* The runtime, external to this module.                                   *)

\* Every request is answered with an acknowledgement or an Error, in order.
Serve ==
    /\ requests # <<>>
    /\ requests' = Tail(requests)
    /\ \E kind \in {"accepted", "refused"} :
       /\ replies' = Append(replies, [id |-> Head(requests).id, kind |-> kind])
       /\ accepted' = accepted \union {call \in {Head(requests).call} : kind = "accepted"}
    /\ UNCHANGED <<client, threads, sending, target, runtime, link>>

\* An overlay notice; one at a time is enough to occupy the receiver.
Notify ==
    /\ pipe # 0 /\ link[pipe] = "up" /\ replies = <<>>
    /\ replies' = <<[id |-> 0, kind |-> "overlay"]>>
    /\ UNCHANGED <<client, threads, sending, target, runtime, link, requests, accepted>>

\* The server drops the connection, or ends.
Disconnect ==
    /\ \E n \in Connections :
       /\ link[n] = "up"
       /\ link' = [link EXCEPT ![n] = "broken"]
    /\ LoseFrames
    /\ runtime' \in {runtime, FALSE}
    /\ UNCHANGED <<client, threads, sending, target, accepted>>

-----------------------------------------------------------------------------
Init ==
    /\ stop = TRUE /\ connected = FALSE /\ pipe = 0 /\ nextId = 1 /\ pending = <<>>
    /\ at = [main |-> "idle", receiver |-> "none", heart |-> "none"]
    /\ hnd = [p \in Openers |-> 0]
    /\ attempts = 0 /\ again = FALSE /\ sessions = 0
    /\ caller = [c \in Callers |-> "idle"]
    /\ calls = [c \in Callers |-> 0]
    /\ id = [c \in Callers |-> 0]
    /\ object = [c \in Callers |-> "open"]
    /\ result = [c \in Callers |-> "none"]
    /\ target = [call |-> NoCall, kind |-> "refused"]
    /\ runtime = TRUE
    /\ link = [n \in Connections |-> "none"]
    /\ requests = <<>> /\ replies = <<>> /\ accepted = {}

Main ==
    \/ ShutdownFailsPending \/ ShutdownCancels \/ ShutdownCloses
    \/ JoinHeartbeat \/ JoinReceiver \/ ReadBootstrap
Connect(p) == OpenPipe(p) \/ SayHello(p) \/ ReadWelcome(p) \/ Publish(p)
Receiver ==
    \/ Capture \/ BeginRead \/ ReadFails \/ ReadFrame \/ RunCallback \/ CompletePending
    \/ ReceiverFailsPending \/ ReceiverCloses \/ Delay \/ HandshakeCancelled \/ ReceiverEnds
Heartbeat == Tick \/ Beat \/ MarkDisconnected
Request(c) == InsertPending(c) \/ WriteRequest(c) \/ Wake(c) \/ ErasePending(c)

Next ==
    \/ CallShutdown
    \/ Main
    \/ \E p \in Openers : Connect(p)
    \/ Receiver
    \/ Heartbeat
    \/ \E c \in Callers : TakeId(c) \/ Request(c)
    \/ Serve \/ Notify \/ Disconnect

\* The system schedules every thread and a HELLO is answered or its pipe broken; no
\* other answer is promised.  A request that waits for the handle gets it when a read ends: it
\* holds connectionMutex_, which the receiver takes before it reads again.
Fairness ==
    /\ WF_vars(Main)
    /\ \A p \in Openers : WF_vars(Connect(p))
    /\ WF_vars(Receiver)
    /\ WF_vars(Heartbeat)
    /\ \A c \in Callers : WF_vars(Request(c)) /\ SF_vars(WriteRequest(c))

Spec == Init /\ [][Next]_vars /\ Fairness

-----------------------------------------------------------------------------
(* Properties.                                                             *)

\* Every variable stays in its range.
TypeOK ==
    /\ {stop, connected, again, runtime} \subseteq BOOLEAN
    /\ pipe \in 0 .. MaxConnections
    /\ nextId \in Nat
    /\ \A i \in DOMAIN pending : i \in Nat /\ pending[i] \in Calls
    /\ at["main"] \in MainPlaces \union Opening
    /\ at["receiver"] \in ReceiverPlaces \union Opening \union {"refused"}
    /\ at["heart"] \in HeartPlaces
    /\ hnd \in [Openers -> 0 .. MaxConnections]
    /\ attempts \in 0 .. MaxAttempts
    /\ sessions \in 0 .. MaxSessions
    /\ caller \in [Callers -> CallerPlaces]
    /\ calls \in [Callers -> 0 .. MaxCalls]
    /\ id \in [Callers -> Nat]
    /\ object \in [Callers -> {"open", "failed", "accepted", "refused"}]
    /\ result \in [Callers -> {"none", "ok", "error"}]
    /\ target.call \in Calls \union {NoCall} /\ target.kind \in {"accepted", "refused"}
    /\ link \in [Connections -> {"none", "up", "broken", "closed"}]
    /\ accepted \subseteq Calls

\* A request that returned success is one the runtime carried out: answers are matched
\* to their requests through timeouts, reconnections and FailAllPending.  Ids start again
\* with every Initialize, so it holds for the requests of one session.
AckMeansServed == \A c \in Callers : result[c] = "ok" => <<c, calls[c]>> \in accepted

\* No handle is forgotten, whatever the heartbeat does to connected_: an open one is
\* pipe_ or in the hands of a handshake.
NoHandleLeaks ==
    OpenHandles \subseteq {pipe} \union
        {hnd[p] : p \in {q \in Openers : at[q] \in Opening \union {"refused"}}}

\* Once Shutdown, or a failed Initialize, has returned no thread runs and IsConnected is
\* false, also when a reconnection was published after CloseTransport.
StoppedIsQuiet ==
    stop /\ at["main"] = "idle" =>
        /\ ~connected
        /\ at["receiver"] \in {"none", "done"} /\ at["heart"] \in {"none", "done"}

\* Reconnecting, heartbeats and Shutdown in any order leave no handle and no thread behind.
NothingIsLeft == NoHandleLeaks /\ StoppedIsQuiet

\* A caller that still waits can be reached: its request is in pending_, for the answer
\* or for FailAllPending, or the receiver holds its answer.
NoWaiterIsForgotten ==
    \A c \in Callers : caller[c] = "wait" /\ object[c] = "open" =>
        \/ id[c] \in DOMAIN pending /\ pending[id[c]] = <<c, calls[c]>>
        \/ at["receiver"] = "dispatch" /\ target.call = <<c, calls[c]>>

\* Poll reports "reconnecting or disconnected" (ZeroSdk.cpp:426) only while the
\* receiver is not reading a live connection.
StatusIsTrue ==
    ~connected /\ ~stop /\ at["main"] = "idle" =>
        ~(at["receiver"] = "reading" /\ hnd["receiver"] = pipe /\ link[pipe] = "up")

\* Every request returns, by its answer, by FailAllPending or by its five seconds.
RequestReturns == \A c \in Callers : caller[c] # "idle" ~> caller[c] = "idle"

\* Every Shutdown and every Initialize returns: the joins of the two threads end.
ShutdownReturns == at["main"] # "idle" ~> at["main"] = "idle"

\* One thing holds up a call into the SDK for ever: the write of a request, or the close
\* in Shutdown, behind a read of the receiver on the same serial handle that never ends.
\* No wait for an answer does, no join, and no read that ends.
CallsReturn ==
    /\ \A c \in Callers : caller[c] # "idle" ~>
          caller[c] = "idle" \/ [](caller[c] = "write" /\ ~HandleIsFree)
    /\ at["main"] # "idle" ~> at["main"] = "idle" \/ [](at["main"] = "close" /\ ~HandleIsFree)
=============================================================================
