---------------------------- MODULE MCEventQueue ----------------------------
(***************************************************************************)
(* EventQueue for TLC: the events of a frame or two, of the kinds that     *)
(* coalesce with one another.                                              *)
(***************************************************************************)
EXTENDS EventQueue

CONSTANTS f1, f2
TwoFrames == {f1, f2}

E(id, f, d) == [id |-> id, frame |-> f, data |-> d]
Plain == [none |-> 0]

Key(k, c) == [key |-> k, char |-> c, repeat |-> 0]
KeyEvents ==
    {E("KEYINPUT", f1, Key("a", TRUE)), E("KEYINPUT", f1, Key("b", TRUE)), E("KEYINPUT", f1, Key("up", FALSE)),
     E("KEYINPUT", f2, Key("a", TRUE)), E("KEYUP", f1, Plain), E("MOVERESIZE", f1, Plain)}
InputEvents ==
    {E("KEYINPUT", f1, Key("a", TRUE)),
     E("EXTTEXTINPUT", f1, [text |-> TRUE]), E("EXTTEXTINPUT", f1, [text |-> FALSE]),
     E("MOUSEMOVE", f1, Plain), E("MOUSEBUTTONDOWN", f1, Plain)}

Area(lo, hi) == [area |-> lo..hi]
FrameEvents ==
    {E("PAINT", f, Area(1, 1)) : f \in TwoFrames} \cup {E("PAINT", f1, Area(3, 3)), E("PAINT", f1, Area(1, 0))}
    \cup {E("MOVERESIZE", f1, Plain), E("WAKEUP", NoFrame, Plain)}
CloseEvents ==
    {E("PAINT", f1, Area(1, 1)), E("MOVERESIZE", f1, Plain), E("CLOSE", f1, Plain), E("CLOSE", f2, Plain)}

Wheel(d, h, p, z) == [delta |-> d, horz |-> h, page |-> p, zoom |-> z]
WheelEvents ==
    {E("WHEELMOUSE", f1, Wheel(d, FALSE, FALSE, FALSE)) : d \in {1, -2}}
    \cup {E("WHEELMOUSE", f1, Wheel(1, FALSE, TRUE, FALSE)), E("WHEELMOUSE", f1, Wheel(4, FALSE, FALSE, TRUE)),
          E("WHEELMOUSE", f1, Wheel(1, TRUE, FALSE, FALSE))}
OtherWheels ==
    {E("WHEELMOUSE", f1, Wheel(1, FALSE, FALSE, FALSE)), E("WHEELMOUSE", f1, Wheel(1, FALSE, TRUE, FALSE)),
     E("WHEELMOUSE", f2, Wheel(1, FALSE, FALSE, FALSE)), E("MOUSEBUTTONDOWN", f1, Plain)}

QuitEvents == {E("WAKEUP", NoFrame, Plain), E("PAINT", f1, Area(1, 1))}

UseScenarios ==
    {[events |-> e, maxPosts |-> 4, maxRemoves |-> 1, mayQuit |-> FALSE] :
        e \in {KeyEvents, InputEvents, FrameEvents, CloseEvents, WheelEvents, OtherWheels}}
    \cup {[events |-> QuitEvents, maxPosts |-> 3, maxRemoves |-> 0, mayQuit |-> TRUE]}
=============================================================================
