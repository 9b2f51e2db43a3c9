--------------------------- MODULE CaptureContract ---------------------------
(***************************************************************************)
(* What a client that captures is promised: a request is answered at most  *)
(* once, with a picture only while there is something to take a picture    *)
(* of, and is given up in silence only when its source is lost, its        *)
(* session has ended, or another frame of the session has overtaken it.    *)
(***************************************************************************)
CONSTANT Requests

VARIABLES
    request,   \* where each request stands
    lost,      \* requests whose source is gone
    ended      \* requests whose session is over, or that another one overtook

Standing == {"idle", "asked", "ready", "failed", "dropped", "gone"}

\* Where a request may go from where it stands; gone is the client's to choose.
Moves ==
    {"idle"} \X {"asked", "failed", "gone"} \cup
    {"asked"} \X {"ready", "failed", "dropped", "gone"} \cup
    {"ready", "failed", "dropped"} \X {"gone"}

Init ==
    /\ request = [r \in Requests |-> "idle"]
    /\ lost = {} /\ ended = {}

\* One event may settle several requests.
Next ==
    /\ request' \in [Requests -> Standing]
    /\ \A r \in Requests :
          /\ request'[r] # request[r] => <<request[r], request'[r]>> \in Moves
          /\ request'[r] = "ready" /\ request[r] = "asked" => r \notin lost
          /\ request'[r] = "dropped" /\ request[r] = "asked" => r \in lost' \cup ended'
    /\ lost \subseteq lost' /\ lost' \subseteq Requests
    /\ ended \subseteq ended' /\ ended' \subseteq Requests

Spec == Init /\ [][Next]_<<request, lost, ended>>
=============================================================================
