---------------------------- MODULE MCInputCore ----------------------------
(* Two controllers with a button, a direction, and a stick at rest, past   *)
(* the first threshold, between the two, and on the diagonal.              *)
EXTENDS InputCore

Rest == [Unplugged EXCEPT !.connected = TRUE]
MCSamples ==
    {Unplugged, Rest, [Rest EXCEPT !.buttons = {"select"}], [Rest EXCEPT !.dpad = {"right"}],
     [Rest EXCEPT !.leftX = 15000], [Rest EXCEPT !.leftX = 20000],
     [Rest EXCEPT !.leftX = 20000, !.leftY = 20000]}
MCKeySets == {{}, {"down"}}
=============================================================================
