------------------------------- MODULE Frames ---------------------------------
(***************************************************************************)
(* The frame contract of README.md: "the renderer guarantees frame         *)
(* delivery independent of application state".  Each window has a latest   *)
(* frame, which the application replaces, and a frame on the screen, which *)
(* only moves forward and, while the renderer runs, reaches the latest.    *)
(***************************************************************************)
EXTENDS Naturals

CONSTANTS
    Windows,     \* window identifiers
    MaxVersion   \* bound: frames are numbered 1..MaxVersion, 0 is no frame

VARIABLES
    open,        \* the windows there are
    latest,      \* the frame the application last submitted to each window
    shown,       \* the frame on the screen
    running      \* the renderer runs

vars == <<open, latest, shown, running>>

Init ==
    /\ open \subseteq Windows
    /\ latest = [w \in Windows |-> 0]
    /\ shown = [w \in Windows |-> 0]
    /\ running = TRUE

\* A newer frame replaces the latest, presented or not.
Submit(w) ==
    /\ w \in open
    /\ \E v \in (latest[w] + 1)..MaxVersion : latest' = [latest EXCEPT ![w] = v]
    /\ UNCHANGED <<open, shown, running>>

\* A frame newer than the ones on the screen is shown in each window of ws.
Present(ws) ==
    /\ ws \subseteq open
    /\ shown' \in [Windows -> 0..MaxVersion]
    /\ \A w \in Windows :
          IF w \in ws THEN shown[w] < shown'[w] /\ shown'[w] <= latest[w]
          ELSE shown'[w] = shown[w]
    /\ UNCHANGED <<open, latest, running>>

Open(w) ==
    /\ w \notin open
    /\ open' = open \cup {w}
    /\ UNCHANGED <<latest, shown, running>>

Close(w) ==
    /\ w \in open
    /\ open' = open \ {w}
    /\ latest' = [latest EXCEPT ![w] = 0]
    /\ shown' = [shown EXCEPT ![w] = 0]
    /\ UNCHANGED running

Stop == running /\ running' = FALSE /\ UNCHANGED <<open, latest, shown>>

Next ==
    \/ \E w \in Windows : Submit(w) \/ Open(w) \/ Close(w)
    \/ \E ws \in (SUBSET Windows) \ {{}} : Present(ws)
    \/ Stop

Catches(w) == running /\ \E ws \in SUBSET Windows : w \in ws /\ Present(ws)

Spec == Init /\ [][Next]_vars /\ \A w \in Windows : WF_vars(Catches(w))
=============================================================================
