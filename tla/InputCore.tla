----------------------------- MODULE InputCore -----------------------------
(***************************************************************************)
(* What the controllers and the arrow keys say to the shell: InputCore of  *)
(* src/src/InputCore.cpp.  Update is called once per frame with a sample   *)
(* of each of the XInput slots and of the keyboard; one controller owns    *)
(* the navigation, a button counts when it goes down, a direction that is  *)
(* held repeats.                                                           *)
(*                                                                         *)
(* Time is counted in units, ages no further than the longest delay.  The  *)
(* presses of keys, which pass through unchanged, are left out, and so is  *)
(* the cancelling of opposite latches of a stick, which never exist.       *)
(***************************************************************************)
EXTENDS Integers

CONSTANTS
    Controllers,    \* the slots: 0..3 in the code
    Samples,        \* what a slot may show
    KeySets,        \* the arrow keys that may be held together
    Delay,          \* before the first repetition: 330 ms
    Cadence,        \* between repetitions: 95 ms
    MaxFrame        \* bound on the time between two frames

Directions == {"up", "down", "left", "right"}
Buttons == {"select", "action", "back", "menu", "shoulderLeft", "shoulderRight"}
Axis == -32768..32767
Sample == [connected : BOOLEAN, dpad : SUBSET Directions, buttons : SUBSET Buttons,
           leftX : Axis, leftY : Axis]
Unplugged == [connected |-> FALSE, dpad |-> {}, buttons |-> {}, leftX |-> 0, leftY |-> 0]

ASSUME ControllersAssumption == Controllers \subseteq Nat
ASSUME SamplesAssumption == Samples \subseteq Sample /\ Unplugged \in Samples
ASSUME KeysAssumption == KeySets \subseteq SUBSET Directions
ASSUME TimesAssumption ==
    Delay \in Nat /\ Cadence \in 1..Delay /\ MaxFrame \in Nat \ {0}

None == "none"
NoController == -1

VARIABLES
    previous,       \* previous_: the samples of the last frame
    analog,         \* analog_: the directions each stick is latched in
    active,         \* activeController_
    repeating,      \* repeatingDirection_
    sinceStart,     \* now - repeatStartedAt_
    sinceRepeat,    \* now - lastRepeatAt_
    nav, pressed,   \* the snapshot: the direction, the owner's buttons
    hold            \* history: the direction held, for how long, and its pulses

inputVars == <<previous, analog, active, repeating, sinceStart, sinceRepeat, nav, pressed, hold>>

NoHold == [age |-> 0, pulses |-> 0, quiet |-> 0, gap |-> 0, shared |-> FALSE]

InputInit ==
    /\ previous = [i \in Controllers |-> Unplugged]
    /\ analog = [i \in Controllers |-> {}]
    /\ active = NoController /\ repeating = None
    /\ sinceStart = 0 /\ sinceRepeat = 0
    /\ nav = None /\ pressed = {} /\ hold = NoHold

-----------------------------------------------------------------------------
(* The stick.                                                              *)

kAnalogEngage == 18000
kAnalogRelease == 12000
Abs(n) == IF n < 0 THEN -n ELSE n

HasActivity(s) ==
    \/ s.dpad # {} \/ s.buttons # {}
    \/ Abs(s.leftX) >= kAnalogEngage \/ Abs(s.leftY) >= kAnalogEngage

Push(s, d) ==
    CASE d = "up" -> s.leftY [] d = "down" -> -s.leftY
      [] d = "left" -> -s.leftX [] d = "right" -> s.leftX
UpdateAnalogLatch(latch, s) ==
    {d \in Directions : Push(s, d) > IF d \in latch THEN kAnalogRelease ELSE kAnalogEngage}

-----------------------------------------------------------------------------
(* The owner.                                                              *)

LeastOf(S) == CHOOSE i \in S : \A j \in S : i <= j
Plugged(samples) == {i \in Controllers : samples[i].connected}
InUse(samples) == {i \in Plugged(samples) : HasActivity(samples[i])}

Lost(samples) == active # NoController /\ ~samples[active].connected
\* An idle owner yields to another controller that is used.
Yields(samples) ==
    /\ active \in Plugged(samples) \ InUse(samples)
    /\ InUse(samples) # {}

\* Without an owner: a controller that is used, or else one that is there.
Claimed(samples) ==
    IF InUse(samples) # {} THEN LeastOf(InUse(samples))
    ELSE IF Plugged(samples) # {} THEN LeastOf(Plugged(samples)) ELSE NoController
Owner(samples) ==
    IF Yields(samples) THEN LeastOf(InUse(samples))
    ELSE IF active \in Plugged(samples) THEN active
    ELSE Claimed(samples)

-----------------------------------------------------------------------------
(* The direction.                                                          *)

Opposite(d) ==
    CASE d = "up" -> "down" [] d = "down" -> "up"
      [] d = "left" -> "right" [] d = "right" -> "left"
Uncancelled(ds) == {d \in ds : Opposite(d) \notin ds}

\* Of a diagonal the axis that the owner's stick prefers, or else the direction
\* that repeats, or else the vertical one.
ResolveDirection(held, owner, samples, last) ==
    LET ds == Uncancelled(held)
        horizontal == ds \cap {"left", "right"}
        vertical == ds \cap {"up", "down"}
        The(S) == CHOOSE d \in S : TRUE
        prefers(a, b) == owner # NoController /\ Abs(a) > Abs(b) + 1500
    IN  CASE ds = {} -> None
          [] ds # {} /\ horizontal = {} -> The(vertical)
          [] ds # {} /\ vertical = {} -> The(horizontal)
          [] OTHER ->
               IF prefers(samples[owner].leftX, samples[owner].leftY) THEN The(horizontal)
               ELSE IF prefers(samples[owner].leftY, samples[owner].leftX) THEN The(vertical)
               ELSE IF last \in ds THEN last
               ELSE The(vertical)

Aged(age, time) == IF age + time < Delay THEN age + time ELSE Delay

\* A mutant that forgets when it last repeated.
DueAfterDelay(start, repeat) == start >= Delay
Due(start, repeat) == start >= Delay /\ repeat >= Cadence

Fired(direction, last) == direction

RepeatNavigation(direction, last, time) ==
    LET start == Aged(sinceStart, time)
        repeat == Aged(sinceRepeat, time)
        first == direction # None /\ direction # last
        again == direction # None /\ direction = last /\ Due(start, repeat)
    IN  /\ repeating' = direction
        /\ nav' = IF first \/ again THEN Fired(direction, last) ELSE None
        /\ sinceStart' = IF first THEN 0 ELSE start
        /\ sinceRepeat' = IF first \/ again THEN 0 ELSE repeat

-----------------------------------------------------------------------------
(* The buttons.                                                            *)

\* A mutant does not ask whether the controller was there.
Pressed(now, before) == now.buttons \ before.buttons
Edges(now, before) == IF before.connected THEN now.buttons \ before.buttons ELSE {}

-----------------------------------------------------------------------------
\* The hold that goes on, and its pulses; it is shared once its owner changes.
Held(direction, owner, time) ==
    LET same == direction # None /\ direction = repeating
        old == IF same THEN hold ELSE NoHold
        pulse == nav' # None
        quiet == Aged(old.quiet, time)
    IN  hold' = IF direction = None THEN NoHold
                ELSE [age |-> IF same THEN Aged(old.age, time) ELSE 0,
                      pulses |-> IF pulse /\ old.pulses < 2 THEN old.pulses + 1 ELSE old.pulses,
                      quiet |-> IF pulse THEN 0 ELSE quiet,
                      gap |-> IF pulse THEN quiet ELSE old.gap,
                      shared |-> same /\ (old.shared \/ owner # active)]

Update(samples, keys, time) ==
    LET owner == Owner(samples)
        last == IF Lost(samples) \/ Yields(samples) THEN None ELSE repeating
        latches == [i \in Controllers |->
                      IF samples[i].connected THEN UpdateAnalogLatch(analog[i], samples[i]) ELSE {}]
        held == keys \union
                (IF owner = NoController THEN {} ELSE samples[owner].dpad \union latches[owner])
        direction == ResolveDirection(held, owner, samples, last)
    IN  /\ analog' = latches
        /\ active' = owner
        /\ pressed' = IF owner = NoController THEN {} ELSE Edges(samples[owner], previous[owner])
        /\ RepeatNavigation(direction, last, time)
        /\ previous' = samples
        /\ Held(direction, owner, time)

InputNext ==
    \E samples \in [Controllers -> Samples], keys \in KeySets, time \in 1..MaxFrame :
        Update(samples, keys, time)

InputSpec == InputInit /\ [][InputNext]_inputVars

-----------------------------------------------------------------------------
InputTypeOK ==
    /\ previous \in [Controllers -> Samples]
    /\ analog \in [Controllers -> SUBSET Directions]
    /\ active \in Controllers \union {NoController}
    /\ repeating \in Directions \union {None} /\ nav \in {repeating, None}
    /\ sinceStart \in 0..Delay /\ sinceRepeat \in 0..Delay
    /\ pressed \subseteq Buttons
    /\ hold \in [age : 0..Delay, pulses : 0..2, quiet : 0..Delay, gap : 0..Delay,
                 shared : BOOLEAN]

\* A button that is held while its controller is plugged in, or while another
\* owns the navigation, is not pressed when the controller becomes the owner:
\* it was up in the frame before (the edges of InputCore::Update).
PressIsFresh ==
    [][\A b \in pressed' :
        /\ active' # NoController
        /\ previous[active'].connected /\ b \notin previous[active'].buttons]_inputVars

\* "Navigation fires immediately, waits 330 ms before repeating, then repeats
\* no faster than every 95 ms", as long as one controller owns the direction
\* (InputCore::RepeatNavigation).
Paced == hold.age >= Delay /\ hold.gap >= Cadence
RepeatsArePaced ==
    nav # None => hold.pulses = 1 \/ hold.shared \/ Paced

\* The same without the exception.  The code forgets the repetition with every
\* change of the owner, also when the direction comes from the keyboard.
RepeatsAreAlwaysPaced ==
    nav # None => hold.pulses = 1 \/ Paced

\* "An active controller retains ownership while it is being used."  A stick
\* that navigates below the threshold of engagement does not count as used.
OwnerInUseStays ==
    [][\A i \in Controllers :
        active = i /\ active' # i => ~previous'[i].connected \/ analog'[i] = {}]_inputVars
=============================================================================
