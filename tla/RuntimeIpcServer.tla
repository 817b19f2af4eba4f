-------------------------- MODULE RuntimeIpcServer --------------------------
(***************************************************************************)
(* The named-pipe server of a game session (src/src/RuntimeIpcServer.cpp). *)
(* The owner, always the UI thread, starts and stops the server and sends  *)
(* overlay notices; each start runs one server thread, which serves one    *)
(* connection at a time and listens again when it ends; the game connects, *)
(* sends frames and disconnects as it likes.                               *)
(*                                                                         *)
(* Threads are numbered by the start that created them.  A thread owns at  *)
(* most one pipe instance, so the state of the instance is indexed by the  *)
(* thread.  Sections under pipeMutex_ are single steps.  The pipe is       *)
(* modelled by what Windows promises of a blocking byte-mode instance; a   *)
(* write never blocks (the buffers hold a whole frame).                    *)
(***************************************************************************)
EXTENDS Naturals, Sequences

CONSTANTS
    MaxStarts,      \* bound on the successful StartSecure calls
    MaxInFlight     \* bound on the frames the game has sent and the server not read

ASSUME MaxStartsAssumption == MaxStarts \in Nat
ASSUME MaxInFlightAssumption == MaxInFlight \in Nat

Threads == 1 .. MaxStarts

VARIABLES
    owner,          \* where the UI thread stands in StartSecure or Stop
    restart,        \* the Stop in progress is the first step of StartSecure
    starts,         \* server threads created so far: the latest is thread_
    stop,           \* stop_
    active,         \* activePipe_: the thread whose handle it is, 0 if invalid
    authenticated,  \* authenticated_
    ready,          \* ready_
    touched,        \* lastClientActivityMs_ is not 0
    permissions,    \* permissions_
    pc,             \* where each server thread stands
    serving,        \* the message whose callback a thread runs
    pipe,           \* each thread's pipe instance
    inbox,          \* frames written by the client and not read yet
    greeted,        \* history: the present connection has sent a valid HELLO
    readyOf,        \* history: the thread that last stored ready_
    leaked          \* history: an overlay notice went to a connection that is not greeted

control == <<owner, restart, starts, stop>>
flags == <<active, authenticated, ready, touched, permissions>>
connection == <<pipe, inbox, greeted>>
history == <<readyOf, leaked>>
vars == <<control, flags, pc, serving, connection, history>>

\* "bad" stands for a known type with the wrong number of fields and for the
\* types a client may not send; "garbage" for a frame that does not decode.
Messages == {"hello", "badhello", "ready", "resume", "achievement", "overlayack",
             "ping", "heartbeat", "bad", "garbage"}
Permissions == {"resume", "achievements", "overlay"}
Ended == {"unborn", "returned"}
Places == Ended \union {"check", "create", "publish", "connect", "connecting", "loop",
                        "read", "callback", "clear", "close", "sleep"}
\* "listening" instances accept a client even before ConnectNamedPipe is called;
\* "broken" has lost its client, "disconnected" was disconnected by the server.
Instances == {"none", "listening", "connected", "broken", "disconnected"}

Goto(t, place) == pc' = [pc EXCEPT ![t] = place]

-----------------------------------------------------------------------------
(* The owner.                                                              *)

\* Stop, or StartSecure, which stops a previous server first.
CallStop ==
    /\ owner = "idle"
    /\ stop' = TRUE
    /\ owner' = "cancel"
    /\ restart' \in {r \in BOOLEAN : r => starts < MaxStarts}
    /\ UNCHANGED <<starts, flags, pc, serving, connection, history>>

\* CancelIoEx and DisconnectNamedPipe: a call blocked on the instance returns,
\* later reads and writes on it fail.
DisconnectActive ==
    /\ pipe' = [pipe EXCEPT ![active] = "disconnected"]
    /\ inbox' = [inbox EXCEPT ![active] = <<>>]

StopCancel ==
    /\ owner = "cancel"
    /\ owner' = "join"
    /\ IF active = 0 THEN UNCHANGED <<pipe, inbox>> ELSE DisconnectActive
    /\ UNCHANGED <<restart, starts, stop, flags, pc, serving, greeted, history>>

\* thread_.join(); a mutant detaches the thread.
Detached == TRUE
Joined == starts > 0 => pc[starts] \in Ended

\* The join, and the close of a handle that is still published.
StopFinish ==
    /\ owner = "join"
    /\ Joined
    /\ owner' = IF restart THEN "start" ELSE "idle"
    /\ active' = 0
    /\ pipe' = [t \in Threads |-> IF t = active THEN "none" ELSE pipe[t]]
    /\ UNCHANGED <<restart, starts, stop, authenticated, ready, touched, permissions, pc,
                   serving, inbox, greeted, history>>

\* The flags of a new session; a mutant keeps the READY of the previous one.
ResetAllButReady == stop' = FALSE /\ authenticated' = FALSE /\ touched' = FALSE /\ UNCHANGED ready
ResetFlags == stop' = FALSE /\ authenticated' = FALSE /\ touched' = FALSE /\ ready' = FALSE

StartThread ==
    /\ owner = "start"
    /\ owner' = "idle"
    /\ starts' = starts + 1
    /\ permissions' \in SUBSET Permissions
    /\ ResetFlags
    /\ Goto(starts', "check")
    /\ UNCHANGED <<restart, active, serving, connection, history>>

\* An empty or undecodable identity.
RefuseStart ==
    /\ owner = "start"
    /\ owner' = "idle"
    /\ UNCHANGED <<restart, starts, stop, flags, pc, serving, connection, history>>

\* A connection to write a notice to.
OverlayConnection == active # 0 /\ authenticated

SendOverlayFocus ==
    /\ owner = "idle"
    /\ "overlay" \in permissions /\ OverlayConnection
    /\ leaked' = (leaked \/ ~greeted[active])
    /\ UNCHANGED <<control, flags, pc, serving, connection, readyOf>>

-----------------------------------------------------------------------------
(* ServerLoop of thread t.                                                 *)

CheckStop(t) ==
    /\ pc[t] = "check"
    /\ Goto(t, IF stop THEN "returned" ELSE "create")
    /\ UNCHANGED <<control, flags, serving, connection, history>>

\* The security descriptor and the instance; the loop ends if either fails.
CreatePipe(t) ==
    /\ pc[t] = "create"
    /\ \/ /\ pipe' = [pipe EXCEPT ![t] = "listening"]
          /\ inbox' = [inbox EXCEPT ![t] = <<>>]
          /\ greeted' = [greeted EXCEPT ![t] = FALSE]
          /\ Goto(t, "publish")
       \/ Goto(t, "returned") /\ UNCHANGED connection
    /\ UNCHANGED <<control, flags, serving, history>>

PublishPipe(t) ==
    /\ pc[t] = "publish"
    /\ active' = t /\ authenticated' = FALSE
    /\ Goto(t, "connect")
    /\ UNCHANGED <<control, ready, touched, permissions, serving, connection, history>>

\* A disconnected instance starts to listen again.
ConnectNamedPipe(t) ==
    /\ pc[t] = "connect"
    /\ pipe' = [pipe EXCEPT ![t] = IF @ = "disconnected" THEN "listening" ELSE @]
    /\ Goto(t, "connecting")
    /\ UNCHANGED <<control, flags, serving, inbox, greeted, history>>

\* The call blocks while the instance listens.  A client that has come and
\* gone, or the owner's disconnect, makes it fail.
ConnectReturns(t) ==
    /\ pc[t] = "connecting" /\ pipe[t] # "listening"
    /\ Goto(t, IF pipe[t] = "connected" /\ ~stop THEN "loop" ELSE "clear")
    /\ UNCHANGED <<control, flags, serving, connection, history>>

LoopCheck(t) ==
    /\ pc[t] = "loop"
    /\ Goto(t, IF stop THEN "clear" ELSE "read")
    /\ UNCHANGED <<control, flags, serving, connection, history>>

\* What a client left in the pipe can still be read after it has gone.
Receives(t, m) ==
    /\ pc[t] = "read" /\ pipe[t] \in {"connected", "broken"}
    /\ inbox[t] # <<>> /\ m = Head(inbox[t])
    /\ inbox' = [inbox EXCEPT ![t] = Tail(@)]
    /\ UNCHANGED <<control, active, permissions, pipe, leaked>>

\* A read on a pipe that can bring nothing more; a mutant waits on for a client
\* that has left.
Disconnected(t) == pipe[t] = "disconnected"
Exhausted(t) == pipe[t] = "disconnected" \/ (pipe[t] = "broken" /\ inbox[t] = <<>>)

\* ReadMessage fails: the pipe is gone, or the frame does not decode.
ReadFails(t) ==
    /\ \/ /\ pc[t] = "read" /\ Exhausted(t)
          /\ UNCHANGED <<control, active, permissions, pipe, inbox, leaked>>
       \/ Receives(t, "garbage")
    /\ Goto(t, "clear")
    /\ UNCHANGED <<authenticated, ready, touched, serving, greeted, readyOf>>

\* A reply can be written only while the client is there; HandleMessage
\* returns what Send returned.
Replied(t) == Goto(t, IF pipe[t] = "connected" THEN "loop" ELSE "clear")

\* TouchClientActivity.
Touch(m) == touched' = TRUE

HandleFirst(t, m) ==
    /\ Receives(t, m) /\ m # "garbage" /\ ~authenticated
    /\ IF m = "hello"
       THEN /\ authenticated' = TRUE /\ Touch(m)
            /\ greeted' = [greeted EXCEPT ![t] = TRUE]
            /\ Replied(t)
       ELSE Goto(t, "clear") /\ UNCHANGED <<authenticated, touched, greeted>>
    /\ UNCHANGED <<ready, serving, readyOf>>

NeededPermission == [resume |-> "resume", achievement |-> "achievements", overlayack |-> "overlay"]
PermittedAnyway(m) == TRUE     \* a mutant
Permitted(m) == m \in DOMAIN NeededPermission => NeededPermission[m] \in permissions
HasCallback(m) == m \in {"ready"} \union DOMAIN NeededPermission

\* An authenticated message up to its callback, if it has one.
HandleMessage(t, m) ==
    /\ Receives(t, m) /\ m # "garbage" /\ authenticated
    /\ Touch(m)
    /\ ready' = (ready \/ m = "ready")
    /\ readyOf' = IF m = "ready" THEN t ELSE readyOf
    /\ CASE HasCallback(m) /\ Permitted(m) -> Goto(t, "callback") /\ serving' = [serving EXCEPT ![t] = m]
         [] m = "heartbeat" -> Goto(t, "loop") /\ UNCHANGED serving
         [] OTHER -> Replied(t) /\ UNCHANGED serving
    /\ UNCHANGED <<authenticated, greeted>>

\* The callback returns; its verdict only chooses between ACK and ERROR.
FinishCallback(t) ==
    /\ pc[t] = "callback"
    /\ IF serving[t] = "overlayack" THEN Goto(t, "loop") ELSE Replied(t)
    /\ serving' = [serving EXCEPT ![t] = "none"]
    /\ UNCHANGED <<control, flags, connection, history>>

\* The handle is withdrawn; a mutant forgets to.
NotWithdrawn(t) == active
Withdrawn(t) == IF active = t THEN 0 ELSE active

ClearActive(t) ==
    /\ pc[t] = "clear"
    /\ active' = Withdrawn(t)
    /\ authenticated' = FALSE
    /\ Goto(t, "close")
    /\ UNCHANGED <<control, ready, touched, permissions, serving, connection, history>>

\* DisconnectNamedPipe, CloseHandle and the test before the pause.
ClosePipe(t) ==
    /\ pc[t] = "close"
    /\ pipe' = [pipe EXCEPT ![t] = "none"]
    /\ inbox' = [inbox EXCEPT ![t] = <<>>]
    /\ Goto(t, IF stop THEN "check" ELSE "sleep")
    /\ UNCHANGED <<control, flags, serving, greeted, history>>

Wake(t) ==
    /\ pc[t] = "sleep"
    /\ Goto(t, "check")
    /\ UNCHANGED <<control, flags, serving, connection, history>>

-----------------------------------------------------------------------------
(* The game's end of the pipe.                                             *)

ClientConnects(t) ==
    /\ pipe[t] = "listening"
    /\ pipe' = [pipe EXCEPT ![t] = "connected"]
    /\ greeted' = [greeted EXCEPT ![t] = FALSE]
    /\ UNCHANGED <<control, flags, pc, serving, inbox, history>>

ClientSends(t, m) ==
    /\ pipe[t] = "connected" /\ Len(inbox[t]) < MaxInFlight
    /\ inbox' = [inbox EXCEPT ![t] = Append(@, m)]
    /\ UNCHANGED <<control, flags, pc, serving, pipe, greeted, history>>

ClientLeaves(t) ==
    /\ pipe[t] = "connected"
    /\ pipe' = [pipe EXCEPT ![t] = "broken"]
    /\ UNCHANGED <<control, flags, pc, serving, inbox, greeted, history>>

-----------------------------------------------------------------------------
Init ==
    /\ owner = "idle" /\ restart = FALSE /\ starts = 0 /\ stop = FALSE
    /\ active = 0 /\ authenticated = FALSE /\ ready = FALSE /\ touched = FALSE
    /\ permissions = Permissions
    /\ pc = [t \in Threads |-> "unborn"] /\ serving = [t \in Threads |-> "none"]
    /\ pipe = [t \in Threads |-> "none"] /\ inbox = [t \in Threads |-> <<>>]
    /\ greeted = [t \in Threads |-> FALSE]
    /\ readyOf = 0 /\ leaked = FALSE

Stop == StopCancel \/ StopFinish \/ StartThread \/ RefuseStart

Owner == CallStop \/ Stop \/ SendOverlayFocus

Listen(t) ==
    \/ CheckStop(t) \/ CreatePipe(t) \/ PublishPipe(t)
    \/ ConnectNamedPipe(t) \/ ConnectReturns(t)
    \/ ClearActive(t) \/ ClosePipe(t) \/ Wake(t)

Serve(t) ==
    \/ LoopCheck(t) \/ ReadFails(t) \/ FinishCallback(t)
    \/ \E m \in Messages : HandleFirst(t, m) \/ HandleMessage(t, m)

Client(t) ==
    \/ ClientConnects(t) \/ ClientLeaves(t)
    \/ \E m \in Messages : ClientSends(t, m)

Next == Owner \/ \E t \in Threads : Listen(t) \/ Serve(t) \/ Client(t)

Spec == Init /\ [][Next]_vars

\* The threads are scheduled and the callbacks return.  Nothing is assumed of
\* the game, nor that the console ever stops the server.
FairSpec ==
    /\ Spec
    /\ WF_vars(Stop)
    /\ \A t \in Threads : WF_vars(Listen(t)) /\ WF_vars(Serve(t))

-----------------------------------------------------------------------------
\* Every variable keeps its kind.
TypeOK ==
    /\ owner \in {"idle", "cancel", "join", "start"} /\ restart \in BOOLEAN
    /\ starts \in 0 .. MaxStarts /\ stop \in BOOLEAN
    /\ active \in 0 .. MaxStarts
    /\ authenticated \in BOOLEAN /\ ready \in BOOLEAN /\ touched \in BOOLEAN
    /\ permissions \subseteq Permissions
    /\ pc \in [Threads -> Places]
    /\ serving \in [Threads -> Messages \union {"none"}]
    /\ pipe \in [Threads -> Instances]
    /\ inbox \in [Threads -> Seq(Messages)]
    /\ greeted \in [Threads -> BOOLEAN]
    /\ readyOf \in 0 .. MaxStarts /\ leaked \in BOOLEAN

\* The handle the owner may cancel, disconnect, write to or close is an open
\* one: the server thread never closes the handle it has published.
PublishedHandleIsOpen == active # 0 => pipe[active] # "none"

\* When Stop has returned, also inside StartSecure, no server thread runs, no
\* callback is under way and no pipe instance is open.
StopIsQuiescent ==
    owner = "start" \/ (owner = "idle" /\ stop) =>
        /\ active = 0
        /\ \A t \in Threads : pc[t] \in Ended /\ pipe[t] = "none"

\* A callback into the runtime runs only for a connection that has sent the
\* HELLO of this session, with the permission its kind of message needs.
CallbackIsAuthorized ==
    \A t \in Threads : pc[t] = "callback" =>
        /\ greeted[t]
        /\ serving[t] \in DOMAIN NeededPermission => NeededPermission[serving[t]] \in permissions

\* An overlay notice is written only to a connection that has authenticated.
OverlayIsAuthorized == ~leaked

\* Nothing is done for a connection that has not authenticated in this session
\* (HandleMessage and SendOverlayFocus).
OnlyAuthorized == CallbackIsAuthorized /\ OverlayIsAuthorized

\* ReadyReceived speaks of the session being served, never of an earlier one
\* whose READY came in late.
ReadyBelongsToStart == ready => readyOf = starts

\* Once READY is known the silence of the client is measured from a real time:
\* without one it would count as endless and the game as hung.
ReadyIsTimed == ready => touched

\* What Poll of the runtime reads of READY and of the silence speaks of this session.
ReadyIsOwn == ReadyBelongsToStart /\ ReadyIsTimed

\* Once Stop has cancelled, its join waits for no message from the game: a
\* thread that still reads reads from a disconnected pipe.
JoinWaitsForNoMessage ==
    owner = "join" => \A t \in Threads : pc[t] = "read" => pipe[t] = "disconnected"

\* A session that has lost its client listens again, unless the server is
\* stopped or can make no new instance.
ListensAgain ==
    \A t \in Threads :
        pipe[t] = "broken" ~> (pipe[t] \in {"listening", "connected"} \/ stop \/ pc[t] = "returned")

\* Stop returns when it finds the server thread anywhere but between its test
\* of stop_ and its blocking ConnectNamedPipe.
StopReturnsOnceListening ==
    (owner = "cancel" /\ \A t \in Threads : pc[t] \notin {"create", "publish", "connect"})
        ~> owner \in {"start", "idle"}

\* The server serves until it is told to stop, and then it stops.
KeepsServing == ListensAgain /\ StopReturnsOnceListening

\* The console stays available: Stop, which runs on the UI thread, returns.
StopReturns == owner = "cancel" ~> owner \in {"start", "idle"}
=============================================================================
