------------------------------ MODULE MCCapture ------------------------------
(* Two outputs, a window of each kind; a screencopy frame, or a session and three frames. *)
EXTENDS Capture

\* The protocols share the outputs and the frame loop, which serves one after the
\* other; a behaviour uses one of them.
OneProtocol ==
    (\A c \in Copies : copies[c] = Unborn) \/ (\A s \in Sessions : objects[s].state = "unborn")
=============================================================================
