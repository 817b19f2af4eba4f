-------------------------------- MODULE Wire --------------------------------
(***************************************************************************)
(* The frames on the pipe between the console and a game                   *)
(* (src/include/ZeroProtocol.h): one direction of one connection.  Threads *)
(* of one end write messages, each under the mutex of that end             *)
(* (RuntimeIpcServer::Send, Client::WriteFrame); one thread of the other   *)
(* end reads them.  The pipe is a stream of bytes that may end at any      *)
(* place.  RuntimeIpcServer and ZeroSdk take a message for one step; this  *)
(* is why they may.                                                        *)
(*                                                                         *)
(* A number of the frame is one cell of the stream whatever its width, and *)
(* so is a byte of a field: what a reader that is out of step takes for a  *)
(* number is any cell.  Left out: the parts in which the system takes and  *)
(* gives the bytes of one call.                                            *)
(***************************************************************************)
EXTENDS Naturals, SequencesExt

CONSTANTS
    Writers, Nobody,
    Version,        \* kVersion
    MaxCells,       \* kMaxFrameBytes
    MaxFields,      \* kMaxFields
    Text,           \* the bytes that are valid UTF-8
    Offered,        \* the messages that are written: [type, id, fields]
    MaxWritten      \* bound: messages of one behaviour

\* What is required of the constants.
WireConstantsOK ==
    /\ MaxCells \in Nat /\ MaxFields \in Nat /\ Version \in Nat /\ Nobody \notin Writers
    /\ Offered \subseteq [type : Nat, id : Nat, fields : Seq(Seq(Nat))]

VARIABLES
    writing,        \* the writer that holds the mutex, or Nobody
    left,           \* for each writer, the cells of its frame that are not yet written
    pipe,           \* what is in the pipe
    broken,         \* the connection has ended
    want,           \* the cells of the frame that the reader waits for; 0 for the length
    stopped,        \* ReadMessage has failed
    received,       \* history: the messages that were read
    written         \* history: the messages whose frame was begun

wireVars == <<writing, left, pipe, broken, want, stopped, received, written>>

-----------------------------------------------------------------------------
(* The frame of a message.                                                 *)

IsValidUtf8(field) == \A i \in DOMAIN field : field[i] \in Text

Payload(m) ==
    <<Version, m.type, m.id, Len(m.fields)>>
        \o FlattenSeq([i \in DOMAIN m.fields |-> <<Len(m.fields[i])>> \o m.fields[i]])

Encodes(m) ==
    /\ Len(m.fields) <= MaxFields
    /\ \A i \in DOMAIN m.fields : IsValidUtf8(m.fields[i])
    /\ Len(Payload(m)) <= MaxCells

\* The field whose length is at place i, and whether the payload has room for it.
HasField(p, i) == i <= Len(p) /\ i + p[i] <= Len(p)
FieldAt(p, i) == SubSeq(p, i + 1, i + p[i])

\* The fields from each place on, as a set: none if there are not n of them that end with the
\* payload.
NoMore(p) == [i \in 1 .. Len(p) + 1 |-> IF i = Len(p) + 1 THEN {<<>>} ELSE {}]
OneMore(p, rest) == [i \in 1 .. Len(p) + 1 |->
    IF HasField(p, i) /\ IsValidUtf8(FieldAt(p, i))
    THEN {<<FieldAt(p, i)>> \o fields : fields \in rest[i + p[i] + 1]} ELSE {}]
FieldsOf(p, count) ==
    LET Rest[n \in 0 .. MaxFields] == IF n = 0 THEN NoMore(p) ELSE OneMore(p, Rest[n - 1])
    IN  Rest[count][5]

\* What a payload says, as a set: none if it is refused.  Any type is accepted.
Decode(p) ==
    IF Len(p) < 4 \/ Len(p) > MaxCells THEN {}
    ELSE IF p[1] # Version \/ p[4] > MaxFields THEN {}
    ELSE {[type |-> p[2], id |-> p[3], fields |-> f] : f \in FieldsOf(p, p[4])}

\* The length goes before the payload.
Frame(m) == <<Len(Payload(m))>> \o Payload(m)

-----------------------------------------------------------------------------
(* The writers.                                                            *)

\* Send and WriteFrame hold a mutex while they write.
HasMutex(w) == writing = Nobody

\* A message that cannot be encoded is refused and nothing is written.
WriteMessage(w) ==
    /\ left[w] = <<>> /\ HasMutex(w)
    /\ Len(written) < MaxWritten
    /\ \E m \in Offered :
          /\ Encodes(m)
          /\ left' = [left EXCEPT ![w] = Frame(m)]
          /\ written' = Append(written, m)
    /\ writing' = w
    /\ UNCHANGED <<pipe, broken, want, stopped, received>>

Released(w) == IF left'[w] = <<>> /\ writing = w THEN Nobody ELSE writing

\* The next cell, or the failure that ends the call.
WriteExact(w) ==
    /\ left[w] # <<>>
    /\ IF broken THEN left' = [left EXCEPT ![w] = <<>>] /\ UNCHANGED pipe
       ELSE left' = [left EXCEPT ![w] = Tail(@)] /\ pipe' = Append(pipe, Head(left[w]))
    /\ writing' = Released(w)
    /\ UNCHANGED <<broken, want, stopped, received, written>>

-----------------------------------------------------------------------------
(* The reader.                                                             *)

\* A mutant takes the limit for the first length that is too long.
BelowLimit(length) == length \in 1 .. MaxCells - 1
CanBe(length) == length \in 1 .. MaxCells

\* The length of the next frame; one that cannot be ends the connection.
ReadLength ==
    /\ ~stopped /\ want = 0 /\ pipe # <<>>
    /\ IF CanBe(Head(pipe)) THEN want' = Head(pipe) /\ UNCHANGED stopped
       ELSE stopped' = TRUE /\ UNCHANGED want
    /\ pipe' = Tail(pipe)
    /\ UNCHANGED <<writing, left, broken, received, written>>

ReadPayload ==
    /\ ~stopped /\ want > 0 /\ Len(pipe) >= want
    /\ LET read == Decode(SubSeq(pipe, 1, want))
       IN  \/ read = {} /\ stopped' = TRUE /\ UNCHANGED received
           \/ \E m \in read : received' = Append(received, m) /\ UNCHANGED stopped
    /\ pipe' = SubSeq(pipe, want + 1, Len(pipe)) /\ want' = 0
    /\ UNCHANGED <<writing, left, broken, written>>

\* ReadExact gets no more.
ReadFails ==
    /\ ~stopped /\ broken
    /\ IF want = 0 THEN pipe = <<>> ELSE Len(pipe) < want
    /\ stopped' = TRUE
    /\ UNCHANGED <<writing, left, pipe, broken, want, received, written>>

\* One end closes its handle and leaves what it wrote, or disconnects the pipe and drops it.
Break ==
    /\ ~broken /\ broken' = TRUE
    /\ pipe' \in {pipe, <<>>}
    /\ UNCHANGED <<writing, left, want, stopped, received, written>>

WireInit ==
    /\ writing = Nobody /\ left = [w \in Writers |-> <<>>] /\ pipe = <<>> /\ broken = FALSE
    /\ want = 0 /\ stopped = FALSE /\ received = <<>> /\ written = <<>>

WireNext ==
    \/ \E w \in Writers : WriteMessage(w) \/ WriteExact(w)
    \/ ReadLength \/ ReadPayload \/ ReadFails \/ Break

WireSpec == WireInit /\ [][WireNext]_wireVars

-----------------------------------------------------------------------------
\* Whoever writes at the same time and wherever the stream ends, what is read are the messages
\* that were written, whole and in the order of the mutex, and the reader does not give up
\* while the connection stands: whatever Encode makes Decode takes.
MessagesArriveWhole ==
    /\ IsPrefix(received, written)
    /\ stopped => broken
=============================================================================
