------------------------------- MODULE MCTiling -------------------------------
(* Tiling in two small zones far enough apart for a gap between them. *)
EXTENDS Tiling, TLC

CONSTANTS a, d, x, v1, v2

MCZone == v1 :> [x |-> 0, y |-> 0, w |-> 16, h |-> 9] @@
          v2 :> [x |-> 20, y |-> 0, w |-> 16, h |-> 9]

\* There is room for three windows.
ASSUME RoomAssumption == Roomy

\* State constraint: one window at a time is fullscreen, modal, without wl_surface or
\* without its first commit.
OneOdd ==
    Cardinality(fullscreen \cup modal \cup pending_center \cup ((space \cap X11) \ bound)) <= 1
=============================================================================
