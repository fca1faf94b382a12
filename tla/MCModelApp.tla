----------------------------- MODULE MCModelApp -------------------------------
(* The programs TLC runs model_app with.                                      *)
EXTENDS ModelApp

\* Two windows and a finite animation; callbacks do not throw.
TwoWindows == [debugTools |-> FALSE, opensSecond |-> TRUE, anims |-> {"fade"},
               maxEvents |-> 2, maxPosts |-> 1, maxThrows |-> 0]

\* Two windows other threads post to, and a callback that throws.
Posted == [TwoWindows EXCEPT !.anims = {}, !.maxEvents = 1, !.maxPosts = 3, !.maxThrows = 1]

\* The inspector, a perpetual animation, and a callback that throws.
Inspected == [debugTools |-> TRUE, opensSecond |-> FALSE, anims |-> {"spin"},
              maxEvents |-> 2, maxPosts |-> 1, maxThrows |-> 1]

\* One window.
Single == [Inspected EXCEPT !.debugTools = FALSE, !.anims = {"fade", "spin"},
                              !.maxEvents = 3, !.maxPosts = 0, !.maxThrows = 0]

AllPrograms == {TwoWindows, Posted, Inspected, Single}
=============================================================================
