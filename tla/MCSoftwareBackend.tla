-------------------------- MODULE MCSoftwareBackend ---------------------------
(* The configurations TLC runs SoftwareBackend with.                         *)
EXTENDS SoftwareBackend

\* Paced frames, and an SDL queue that overflows.
Full == [paced |-> TRUE, custom |-> {}, osKinds |-> {"exposed"}, maxQueue |-> 1,
         maxOs |-> 2, maxFrames |-> 2, maxRequests |-> 0]

\* Every batch of events presents.
Unpaced == [Full EXCEPT !.paced = FALSE]

\* Input for a window with its own chrome.
Chrome == [Full EXCEPT !.custom = {1},
                       !.osKinds = {"motion", "press", "release", "key", "close"},
                       !.maxQueue = 9, !.maxOs = 3, !.maxFrames = 0]

\* Input for two windows.
Input == [Chrome EXCEPT !.custom = {}, !.osKinds = {"motion", "press"}, !.maxOs = 2,
                        !.maxRequests = 1]

\* Two windows; the OS tells the program to quit.
Quits == [Full EXCEPT !.osKinds = {"quit"}, !.maxQueue = 3, !.maxOs = 1, !.maxRequests = 1]

\* Two requests, either of which may be given up.
Requests == [Full EXCEPT !.osKinds = {}, !.maxQueue = 4, !.maxOs = 0, !.maxFrames = 0,
                         !.maxRequests = 2]

AllSetups == {Full, Unpaced, Chrome, Input, Quits, Requests}
=============================================================================
