---------------------------- MODULE Capture_proofs ----------------------------
(***************************************************************************)
(* Proofs about Capture: for any outputs, windows, frames and sessions,    *)
(* both protocols keep the contract of CaptureContract.                    *)
(***************************************************************************)
EXTENDS Capture, TLAPS

\* A screencopy frame waits from its copy to its answer.
CopiesInv ==
    \A c \in Copies :
        /\ copies[c].state = "unborn" => copies[c] = Unborn
        /\ copies[c].state = "pending" => copies[c].answer = "none"
        /\ copies[c].state = "failed" => copies[c].answer = "failed"
        /\ copies[c].state = "copied" => (copies[c].answer = "none" <=> c \in pending_screencopies)
        /\ c \in pending_screencopies => copies[c].state \in {"copied", "destroyed"}

\* A session is listed while its object is alive, with the source it was made for.
SessionsInv ==
    \A s \in DOMAIN sessions : objects[s].state = "alive" /\ sessions[s].source = objects[s].source

\* A frame belongs to a session that has begun, and waits before it is answered.
FramesInv ==
    \A f \in Frames :
        /\ frames[f].session = NoSession <=> frames[f].state = "unborn"
        /\ frames[f].session # NoSession => objects[frames[f].session].state # "unborn"
        /\ frames[f].state \in {"unborn", "made"} => frames[f].answer = "none"
        /\ f \in pending_captures =>
             frames[f].state \in {"captured", "destroyed"} /\ frames[f].answer = "none"

CopyInv == ScreencopyTypeOK /\ QueueIsThere /\ CopiesInv

ImageInv == ImageCopyTypeOK /\ WaitingIsWanted /\ SessionsInv /\ FramesInv

IInv == WorldTypeOK /\ CopyInv /\ ImageInv

-----------------------------------------------------------------------------
(* Screencopy *)

\* Every request keeps the queue, and a frame in one place at a time.
LEMMA ScreencopyKeeps ==
    ASSUME CopyInv, ScreencopyNext
    PROVE  CopyInv'
<1>. USE DEF CopyInv, ScreencopyTypeOK, QueueIsThere, CopiesInv, Copy, Unborn, CopyStates, Answers, Retained
<1>1. ASSUME NEW c \in Copies, NEW o \in Outputs, CaptureOutput(c, o) PROVE CopyInv'
  BY <1>1 DEF CaptureOutput
<1>2. ASSUME NEW c \in Copies, CopyFrame(c) PROVE CopyInv'
  BY <1>2 DEF CopyFrame
<1>3. ASSUME NEW c \in Copies, DestroyCopy(c) PROVE CopyInv'
  BY <1>3 DEF DestroyCopy, Destroyed
<1>4. CASE DestroyManager
  BY <1>4 DEF DestroyManager, Forgotten
<1>. QED BY <1>1, <1>2, <1>3, <1>4 DEF ScreencopyNext

\* So does the frame loop, whichever copies succeed.
LEMMA RenderKeepsCopies ==
    ASSUME CopyInv, NEW o \in Outputs, NEW ok \in SUBSET Drained(o), render_screencopy(o, ok)
    PROVE  CopyInv'
BY DEF CopyInv, ScreencopyTypeOK, QueueIsThere, CopiesInv, Unborn, Copy, CopyStates, Answers,
       Retained, render_screencopy, Drained

\* An unplugged output looks at the queue, and a client that goes takes all along.
LEMMA LossKeepsCopies ==
    ASSUME CopyInv, ScreencopyRemoveOutput \/ ScreencopyDisconnect
    PROVE  CopyInv'
<1>. USE DEF CopyInv, ScreencopyTypeOK, QueueIsThere, CopiesInv, Unborn, Copy, CopyStates, Answers, Retained
<1>1. CASE ScreencopyRemoveOutput
  BY <1>1 DEF ScreencopyRemoveOutput
<1>2. CASE ScreencopyDisconnect
  <2>1. ASSUME NEW c \in Copies
        PROVE  /\ copies[c].state = "unborn" => copies'[c] = copies[c]
               /\ copies[c].state # "unborn" =>
                    /\ copies'[c].state = "destroyed" /\ copies'[c].answer = "none"
                    /\ copies'[c] \in [state : CopyStates, output : Outputs \cup {NoSource}, answer : Answers]
    <3>1. copies[c].state = "unborn" <=> copies[c] = Unborn
      OBVIOUS
    <3>2. copies'[c] = IF copies[c] = Unborn THEN Unborn
                       ELSE [copies[c] EXCEPT !.state = "destroyed", !.answer = "none"]
      BY <1>2 DEF ScreencopyDisconnect, Destroyed
    <3>3. copies[c] \in [state : CopyStates, output : Outputs \cup {NoSource}, answer : Answers]
      OBVIOUS
    <3>. HIDE DEF Unborn
    <3>. QED BY <3>1, <3>2, <3>3
  <2>2. copies' \in [Copies -> [state : CopyStates, output : Outputs \cup {NoSource}, answer : Answers]]
    BY <1>2, <2>1 DEF ScreencopyDisconnect
  <2>3. ScreencopyTypeOK'
    BY <1>2, <2>2 DEF ScreencopyDisconnect
  <2>4. QueueIsThere' /\ CopiesInv'
    BY <1>2, <2>1 DEF ScreencopyDisconnect
  <2>. QED BY <2>3, <2>4
<1>. QED BY <1>1, <1>2

-----------------------------------------------------------------------------
(* Image copy capture *)

\* What waits in a session, field by field.
LEMMA WaitingFields ==
    ASSUME WaitingIsWanted, NEW s \in DOMAIN sessions, sessions[s].waiting # NoFrame
    PROVE  /\ frames[sessions[s].waiting].session = s
           /\ frames[sessions[s].waiting].state = "captured"
           /\ frames[sessions[s].waiting].answer = "none"
           /\ sessions[s].waiting \notin pending_captures
<1>1. /\ frames[sessions[s].waiting] = [session |-> s, state |-> "captured", answer |-> "none"]
      /\ sessions[s].waiting \notin pending_captures
  BY DEF WaitingIsWanted
<1>. QED BY <1>1

\* Every request keeps what waits wanted, and the source of a session.
LEMMA ImageCopyKeeps ==
    ASSUME ImageInv, ImageCopyNext
    PROVE  ImageInv'
<1>. USE CaptureAssumption DEF SessionData, FrameData, FrameStates, Sources
<1>0. ImageCopyTypeOK /\ WaitingIsWanted /\ SessionsInv /\ FramesInv
  BY DEF ImageInv
<1>1. ASSUME NEW s \in Sessions, DestroySession(s) PROVE ImageInv'
  BY <1>1 DEF DestroySession, Without, ImageInv, ImageCopyTypeOK, WaitingIsWanted, SessionsInv, FramesInv
<1>2. ASSUME NEW s \in Sessions, NEW src \in Sources, CreateSession(s, src) PROVE ImageInv'
  <2>1. ImageCopyTypeOK'
    BY <1>0, <1>2 DEF CreateSession, Vanished, Lasts, ImageCopyTypeOK
  <2>2. SessionsInv'
    BY <1>0, <1>2 DEF CreateSession, ImageCopyTypeOK, SessionsInv
  <2>3. FramesInv'
    BY <1>0, <1>2 DEF CreateSession, ImageCopyTypeOK, FramesInv
  <2>4. WaitingIsWanted'
    BY <1>0, <1>2 DEF CreateSession, ImageCopyTypeOK, WaitingIsWanted
  <2>. QED BY <2>1, <2>2, <2>3, <2>4 DEF ImageInv
<1>3. ASSUME NEW f \in Frames, NEW s \in Sessions, CreateFrame(f, s) PROVE ImageInv'
  <2>1. ImageCopyTypeOK'
    BY <1>0, <1>3 DEF CreateFrame, ImageCopyTypeOK
  <2>2. SessionsInv'
    BY <1>0, <1>3 DEF CreateFrame, ImageCopyTypeOK, SessionsInv
  <2>3. FramesInv'
    BY <1>0, <1>3 DEF CreateFrame, ImageCopyTypeOK, FramesInv
  <2>4. WaitingIsWanted'
    BY <1>0, <1>3 DEF CreateFrame, ImageCopyTypeOK, WaitingIsWanted
  <2>. QED BY <2>1, <2>2, <2>3, <2>4 DEF ImageInv
<1>4. ASSUME NEW f \in Frames, Capture(f) PROVE ImageInv'
  <2>. DEFINE r == frames[f].session
  <2>1. /\ f \notin pending_captures
        /\ frames[f].state = "made" /\ r \in Sessions /\ objects[r].state # "unborn"
        /\ UNCHANGED objects
        /\ \A s \in DOMAIN sessions : sessions[s].waiting # f
    <3>1. frames[f].state = "made" /\ frames[f] \in FrameData /\ UNCHANGED objects
      BY <1>0, <1>4 DEF Capture, ImageCopyTypeOK
    <3>2. r # NoSession /\ objects[r].state # "unborn" /\ f \notin pending_captures
      BY <1>0, <3>1 DEF FramesInv
    <3>3. \A s \in DOMAIN sessions : sessions[s].waiting # f
      BY <1>0, <3>1, WaitingFields
    <3>. QED BY <3>1, <3>2, <3>3
  <2>2. ASSUME NEW answer \in {"none", "failed"}, Captured(f, answer)
        PROVE  /\ frames' \in [Frames -> FrameData]
               /\ frames'[f] = [session |-> r, state |-> "captured", answer |-> answer]
               /\ \A g \in Frames \ {f} : frames'[g] = frames[g]
    <3>1. frames[f] \in FrameData
      BY <1>0 DEF ImageCopyTypeOK
    <3>2. /\ DOMAIN frames' = Frames
          /\ frames'[f] = [frames[f] EXCEPT !.state = "captured", !.answer = answer]
          /\ \A g \in Frames \ {f} : frames'[g] = frames[g]
      BY <1>0, <2>2 DEF Captured, ImageCopyTypeOK
    <3>3. frames'[f] \in FrameData
      BY <3>1, <3>2
    <3>4. frames' = [g \in Frames |-> frames'[g]]
      BY <1>0, <2>2 DEF Captured, ImageCopyTypeOK
    <3>5. frames' \in [Frames -> FrameData]
      BY <1>0, <3>2, <3>3, <3>4 DEF ImageCopyTypeOK
    <3>. QED BY <3>1, <3>2, <3>5
  <2>3. CASE CaptureFails(f) /\ UNCHANGED overtaken
    <3>1. /\ frames' \in [Frames -> FrameData]
          /\ frames'[f] = [session |-> r, state |-> "captured", answer |-> "failed"]
          /\ \A g \in Frames \ {f} : frames'[g] = frames[g]
          /\ UNCHANGED <<pending_captures, overtaken>>
      BY <2>2, <2>3 DEF CaptureFails
    <3>2. /\ DOMAIN sessions' = DOMAIN sessions
          /\ \A s \in DOMAIN sessions : /\ sessions'[s] \in SessionData
                                        /\ sessions'[s].source = sessions[s].source
                                        /\ sessions'[s].waiting = sessions[s].waiting
      <4>1. \A s \in DOMAIN sessions : sessions[s] \in SessionData
        BY <1>0 DEF ImageCopyTypeOK
      <4>2. CASE UNCHANGED sessions
        BY <4>1, <4>2
      <4>3. CASE r \in DOMAIN sessions /\ sessions' = [sessions EXCEPT ![r].stopped = TRUE]
        BY <4>1, <4>3
      <4>. QED BY <2>3, <4>2, <4>3 DEF CaptureFails
    <3>3. ImageCopyTypeOK' /\ SessionsInv'
      BY <1>0, <2>1, <3>1, <3>2 DEF ImageCopyTypeOK, SessionsInv
    <3>4. FramesInv'
      BY <1>0, <2>1, <3>1 DEF FramesInv
    <3>5. WaitingIsWanted'
      BY <1>0, <2>1, <3>1, <3>2 DEF ImageCopyTypeOK, WaitingIsWanted
    <3>. QED BY <3>3, <3>4, <3>5 DEF ImageInv
  <2>4. CASE CaptureFirst(f) /\ UNCHANGED overtaken
    <3>1. /\ frames' \in [Frames -> FrameData]
          /\ frames'[f] = [session |-> r, state |-> "captured", answer |-> "none"]
          /\ \A g \in Frames \ {f} : frames'[g] = frames[g]
          /\ pending_captures' = pending_captures \cup {f}
          /\ UNCHANGED <<sessions, overtaken>>
      BY <2>2, <2>4 DEF CaptureFirst
    <3>2. ImageCopyTypeOK' /\ SessionsInv'
      BY <1>0, <2>1, <3>1 DEF ImageCopyTypeOK, SessionsInv
    <3>3. FramesInv'
      BY <1>0, <2>1, <3>1 DEF FramesInv
    <3>4. WaitingIsWanted'
      BY <1>0, <2>1, <3>1 DEF ImageCopyTypeOK, WaitingIsWanted
    <3>. QED BY <3>2, <3>3, <3>4 DEF ImageInv
  <2>5. CASE CaptureNext(f)
    <3>1. /\ frames' \in [Frames -> FrameData]
          /\ frames'[f] = [session |-> r, state |-> "captured", answer |-> "none"]
          /\ \A g \in Frames \ {f} : frames'[g] = frames[g]
          /\ UNCHANGED pending_captures
          /\ r \in DOMAIN sessions
      BY <2>2, <2>5 DEF CaptureNext, Usable
    <3>2. /\ DOMAIN sessions' = DOMAIN sessions
          /\ \A s \in DOMAIN sessions : /\ sessions'[s] \in SessionData
                                        /\ sessions'[s].source = sessions[s].source
          /\ sessions'[r].waiting = f
          /\ \A s \in DOMAIN sessions \ {r} : sessions'[s] = sessions[s]
      BY <1>0, <2>5, <3>1 DEF CaptureNext, ImageCopyTypeOK
    <3>3. overtaken' \subseteq Frames
      BY <1>0, <2>5, <3>1 DEF CaptureNext, ImageCopyTypeOK
    <3>4. ImageCopyTypeOK' /\ SessionsInv'
      BY <1>0, <2>1, <3>1, <3>2, <3>3 DEF ImageCopyTypeOK, SessionsInv
    <3>5. FramesInv'
      BY <1>0, <2>1, <3>1 DEF FramesInv
    <3>6. WaitingIsWanted'
      BY <1>0, <2>1, <3>1, <3>2 DEF ImageCopyTypeOK, WaitingIsWanted
    <3>. QED BY <3>4, <3>5, <3>6 DEF ImageInv
  <2>. QED BY <1>4, <2>3, <2>4, <2>5 DEF Capture
<1>5. ASSUME NEW f \in Frames, DestroyFrame(f) PROVE ImageInv'
  <2>1. /\ frames' \in [Frames -> FrameData]
        /\ frames'[f] = [session |-> frames[f].session, state |-> "destroyed", answer |-> "none"]
        /\ \A g \in Frames \ {f} : frames'[g] = frames[g]
    <3>1. frames[f] \in FrameData
      BY <1>0 DEF ImageCopyTypeOK
    <3>2. /\ frames' \in [Frames -> FrameData]
          /\ frames'[f] = [frames[f] EXCEPT !.state = "destroyed", !.answer = "none"]
          /\ \A g \in Frames \ {f} : frames'[g] = frames[g]
      BY <1>0, <1>5 DEF DestroyFrame, ImageCopyTypeOK
    <3>. QED BY <3>1, <3>2
  <2>2. /\ DOMAIN sessions' = DOMAIN sessions
        /\ \A s \in DOMAIN sessions :
             /\ sessions'[s] \in SessionData
             /\ sessions'[s].source = sessions[s].source
             /\ s = frames[f].session => sessions'[s].waiting = NoFrame
             /\ s # frames[f].session => sessions'[s] = sessions[s]
    BY <1>0, <1>5 DEF DestroyFrame, Forget, ImageCopyTypeOK
  <2>3. UNCHANGED <<objects, pending_captures>> /\ overtaken' \subseteq Frames /\ frames[f].state # "unborn"
    BY <1>0, <1>5 DEF DestroyFrame, ImageCopyTypeOK
  <2>4. ImageCopyTypeOK' /\ SessionsInv'
    BY <1>0, <2>1, <2>2, <2>3 DEF ImageCopyTypeOK, SessionsInv
  <2>5. FramesInv'
    BY <1>0, <2>1, <2>3 DEF FramesInv
  <2>6. WaitingIsWanted'
    BY <1>0, <2>1, <2>2, <2>3 DEF ImageCopyTypeOK, WaitingIsWanted
  <2>. QED BY <2>4, <2>5, <2>6 DEF ImageInv
<1>. QED BY <1>1, <1>2, <1>3, <1>4, <1>5 DEF ImageCopyNext

\* What rendering an output takes up waits in a session that is told so.
LEMMA TakenUp ==
    ASSUME NEW o
    PROVE  \A s \in Promoting(o) : s \in DOMAIN sessions /\ sessions[s].waiting # NoFrame
BY DEF Promoting, PromotingFor, PromotingToplevels, Waiting

\* The frame loop answers what it takes from a session.
LEMMA RenderKeepsFrames ==
    ASSUME ImageInv, NEW o \in Outputs, NEW ok \in SUBSET Taken(o), render_captures(o, ok)
    PROVE  ImageInv'
<1>. USE CaptureAssumption DEF SessionData, FrameData, FrameStates, Sources
<1>0. ImageCopyTypeOK /\ WaitingIsWanted /\ SessionsInv /\ FramesInv
  BY DEF ImageInv
<1>. DEFINE P == {sessions[s].waiting : s \in Promoting(o)}
<1>1. ASSUME NEW f \in Frames
      PROVE  /\ frames'[f] \in FrameData
             /\ frames'[f].session = frames[f].session /\ frames'[f].state = frames[f].state
             /\ frames[f].state # "captured" \/ f \notin Taken(o) => frames'[f] = frames[f]
  BY <1>0 DEF render_captures, Answered, ImageCopyTypeOK
<1>2. /\ DOMAIN sessions' = DOMAIN sessions
      /\ \A s \in DOMAIN sessions :
           /\ sessions'[s] \in SessionData
           /\ sessions'[s].source = sessions[s].source
           /\ s \in Promoting(o) => sessions'[s].waiting = NoFrame
           /\ s \notin Promoting(o) => sessions'[s].waiting = sessions[s].waiting
  <2>1. DOMAIN sessions' = DOMAIN sessions
    BY DEF render_captures
  <2>2. ASSUME NEW s \in DOMAIN sessions
        PROVE  /\ sessions'[s] \in SessionData
               /\ sessions'[s].source = sessions[s].source
               /\ s \in Promoting(o) => sessions'[s].waiting = NoFrame
               /\ s \notin Promoting(o) => sessions'[s].waiting = sessions[s].waiting
    <3>. DEFINE data == IF s \in Promoting(o) THEN [sessions[s] EXCEPT !.waiting = NoFrame] ELSE sessions[s]
    <3>1. /\ data \in SessionData /\ data.source = sessions[s].source
          /\ s \in Promoting(o) => data.waiting = NoFrame
          /\ s \notin Promoting(o) => data.waiting = sessions[s].waiting
      BY <1>0 DEF ImageCopyTypeOK
    <3>2. sessions'[s] = data \/ sessions'[s] = [data EXCEPT !.active = FALSE, !.once = TRUE]
      BY DEF render_captures, Done
    <3>. HIDE DEF data
    <3>. QED BY <3>1, <3>2
  <2>. QED BY <2>1, <2>2
<1>3. frames' \in [Frames -> FrameData]
  BY <1>1 DEF render_captures, Answered
<1>4. pending_captures' = (pending_captures \cup P) \ Taken(o) /\ UNCHANGED <<objects, overtaken>>
  BY DEF render_captures
<1>5. P \subseteq Frames
  BY <1>0, TakenUp DEF ImageCopyTypeOK
<1>6. ImageCopyTypeOK' /\ SessionsInv'
  BY <1>0, <1>2, <1>3, <1>4, <1>5 DEF ImageCopyTypeOK, SessionsInv
<1>7. \A s \in DOMAIN sessions \ Promoting(o) :
        sessions[s].waiting # NoFrame => sessions[s].waiting \notin pending_captures \cup P
  <2>1. \A s \in DOMAIN sessions : sessions[s].waiting # NoFrame =>
          frames[sessions[s].waiting].session = s /\ sessions[s].waiting \notin pending_captures
    BY <1>0, WaitingFields
  <2>. QED BY <2>1, TakenUp
<1>8. Taken(o) \subseteq pending_captures \cup P
  BY DEF Taken
<1>9. WaitingIsWanted'
  BY <1>0, <1>1, <1>2, <1>4, <1>7, <1>8 DEF WaitingIsWanted, ImageCopyTypeOK
<1>10. ASSUME NEW f \in Frames, f \in pending_captures'
       PROVE  frames[f].state \in {"captured", "destroyed"} /\ frames'[f] = frames[f] /\ frames[f].answer = "none"
  <2>1. CASE f \in pending_captures
    BY <1>0, <1>1, <1>4, <1>10, <2>1 DEF FramesInv
  <2>2. CASE f \in P
    <3>1. PICK t \in Promoting(o) : f = sessions[t].waiting
      BY <2>2
    <3>2. frames[f] = [session |-> t, state |-> "captured", answer |-> "none"]
      BY <1>0, <3>1, TakenUp DEF WaitingIsWanted
    <3>3. f \notin Taken(o)
      BY <1>4, <1>10
    <3>. QED BY <1>1, <3>2, <3>3
  <2>. QED BY <1>4, <1>10, <2>1, <2>2
<1>11. FramesInv'
  BY <1>0, <1>1, <1>4, <1>10 DEF FramesInv
<1>. QED BY <1>6, <1>9, <1>11 DEF ImageInv

\* Sources that go take their sessions along, and a client that goes all it had.
LEMMA LossKeepsFrames ==
    ASSUME ImageInv, (\E src \in Sources : RemoveSource(src)) \/ ImageCopyDisconnect
    PROVE  ImageInv'
<1>. USE CaptureAssumption DEF SessionData, FrameData, FrameStates, Sources
<1>0. ImageCopyTypeOK /\ WaitingIsWanted /\ SessionsInv /\ FramesInv
  BY DEF ImageInv
<1>1. ASSUME NEW src \in Sources, RemoveSource(src) PROVE ImageInv'
  BY <1>0, <1>1 DEF RemoveSource, Without, ImageInv, ImageCopyTypeOK, WaitingIsWanted, SessionsInv, FramesInv
<1>2. CASE ImageCopyDisconnect
  <2>1. ASSUME NEW f \in Frames
        PROVE  /\ frames'[f] \in FrameData
               /\ frames'[f].session = frames[f].session /\ frames'[f].answer = "none"
               /\ frames'[f].state = IF frames[f].state = "unborn" THEN "unborn" ELSE "destroyed"
    <3>1. frames[f] \in FrameData /\ (frames[f].state = "unborn" => frames[f].answer = "none")
      BY <1>0 DEF ImageCopyTypeOK, FramesInv
    <3>2. frames'[f] = IF frames[f].state = "unborn" THEN frames[f]
                       ELSE [frames[f] EXCEPT !.state = "destroyed", !.answer = "none"]
      BY <1>2 DEF ImageCopyDisconnect
    <3>. QED BY <3>1, <3>2
  <2>2. frames' \in [Frames -> FrameData]
    BY <1>2, <2>1 DEF ImageCopyDisconnect
  <2>3. ASSUME NEW s \in Sessions
        PROVE  /\ objects'[s] \in [state : {"unborn", "alive", "destroyed"}, source : Sources]
               /\ objects[s].state # "unborn" => objects'[s].state # "unborn"
    <3>1. objects[s] \in [state : {"unborn", "alive", "destroyed"}, source : Sources]
      BY <1>0 DEF ImageCopyTypeOK
    <3>2. objects'[s] = IF objects[s].state = "unborn" THEN objects[s]
                        ELSE [objects[s] EXCEPT !.state = "destroyed"]
      BY <1>2 DEF ImageCopyDisconnect
    <3>. QED BY <3>1, <3>2
  <2>4. DOMAIN sessions' = {} /\ UNCHANGED <<pending_captures, overtaken>>
    BY <1>0, <1>2 DEF ImageCopyDisconnect, Without, ImageCopyTypeOK
  <2>5. objects' \in [Sessions -> [state : {"unborn", "alive", "destroyed"}, source : Sources]]
    BY <1>2, <2>3 DEF ImageCopyDisconnect
  <2>6. ImageCopyTypeOK'
    BY <1>0, <2>2, <2>4, <2>5 DEF ImageCopyTypeOK
  <2>7. FramesInv'
    BY <1>0, <2>1, <2>3, <2>4 DEF FramesInv, ImageCopyTypeOK
  <2>8. WaitingIsWanted' /\ SessionsInv'
    BY <2>4 DEF WaitingIsWanted, SessionsInv
  <2>. QED BY <2>6, <2>7, <2>8 DEF ImageInv
<1>. QED BY <1>1, <1>2
-----------------------------------------------------------------------------
(* The invariant *)

LEMMA Initially == Init => IInv
<1>. SUFFICES ASSUME Init PROVE IInv
  OBVIOUS
<1>1. WorldTypeOK
  BY DEF Init, WorldInit, WorldTypeOK
<1>2. CopyInv
  BY DEF Init, ScreencopyInit, CopyInv, ScreencopyTypeOK, QueueIsThere, CopiesInv, Unborn, Copy,
         CopyStates, Answers
<1>3. ImageInv
  BY DEF Init, ImageCopyInit, ImageInv, ImageCopyTypeOK, WaitingIsWanted, SessionsInv, FramesInv,
         FrameData, FrameStates, Sources
<1>. QED BY <1>1, <1>2, <1>3 DEF IInv

LEMMA CopiesStand == CopyInv /\ UNCHANGED screencopy => CopyInv'
BY DEF CopyInv, screencopy, ScreencopyTypeOK, QueueIsThere, CopiesInv

LEMMA FramesStand == ImageInv /\ UNCHANGED image_copy => ImageInv'
BY DEF ImageInv, image_copy, ImageCopyTypeOK, WaitingIsWanted, SessionsInv, FramesInv

\* What can be captured only goes.
LEMMA WorldKeeps ==
    ASSUME IInv, [Next]_vars
    PROVE  /\ WorldTypeOK' /\ outputs' \subseteq outputs
           /\ \A w \in Windows : windows[w] # "mapped" => windows'[w] # "mapped"
<1>. USE DEF IInv, WorldTypeOK
<1>1. CASE UNCHANGED world
  BY <1>1 DEF world
<1>2. ASSUME NEW o \in Outputs, Render(o) \/ Unplug(o) \/ Damage(o) PROVE
           /\ WorldTypeOK' /\ outputs' \subseteq outputs
           /\ \A w \in Windows : windows[w] # "mapped" => windows'[w] # "mapped"
  BY <1>2 DEF Render, Unplug, OutputGone, Damage
<1>3. ASSUME NEW w \in Windows, WindowUnmapped(w) \/ SurfaceGone(w) PROVE
           /\ WorldTypeOK' /\ outputs' \subseteq outputs
           /\ \A v \in Windows : windows[v] # "mapped" => windows'[v] # "mapped"
  BY <1>3 DEF WindowUnmapped, SurfaceGone
<1>4. ScreencopyNext \/ ImageCopyNext \/ Disconnect => UNCHANGED world
  BY DEF ScreencopyNext, CaptureOutput, CopyFrame, DestroyCopy, DestroyManager, ImageCopyNext,
         CreateSession, DestroySession, CreateFrame, Capture, DestroyFrame, Disconnect
<1>. QED BY <1>1, <1>2, <1>3, <1>4 DEF Next, vars, UnmapWindow

LEMMA StepKeeps == IInv /\ [Next]_vars => IInv'
<1>. SUFFICES ASSUME IInv, [Next]_vars PROVE IInv'
  OBVIOUS
<1>0. WorldTypeOK'
  BY WorldKeeps
<1>1. CASE ScreencopyNext /\ UNCHANGED image_copy
  BY <1>0, <1>1, ScreencopyKeeps, FramesStand DEF IInv
<1>2. CASE ImageCopyNext /\ UNCHANGED screencopy
  BY <1>0, <1>2, ImageCopyKeeps, CopiesStand DEF IInv
<1>3. CASE Disconnect
  BY <1>0, <1>3, LossKeepsCopies, LossKeepsFrames DEF IInv, Disconnect
<1>4. ASSUME NEW o \in Outputs, Render(o) PROVE IInv'
  <2>1. PICK ok \in SUBSET Drained(o) : render_screencopy(o, ok)
    BY <1>4 DEF Render
  <2>2. PICK shot \in SUBSET Taken(o) : render_captures(o, shot)
    BY <1>4 DEF Render
  <2>. QED BY <1>0, <2>1, <2>2, RenderKeepsCopies, RenderKeepsFrames DEF IInv
<1>5. ASSUME NEW o \in Outputs, Unplug(o) PROVE IInv'
  BY <1>0, <1>5, LossKeepsCopies, LossKeepsFrames DEF IInv, Unplug, Sources
<1>6. ASSUME NEW w \in Windows, UnmapWindow(w) PROVE IInv'
  <2>1. CopyInv'
    BY <1>6, CopiesStand DEF IInv, UnmapWindow
  <2>2. ImageInv'
    BY <1>6, FramesStand, LossKeepsFrames DEF IInv, UnmapWindow, Unmapped, Sources
  <2>. QED BY <1>0, <2>1, <2>2 DEF IInv
<1>7. CASE UNCHANGED <<screencopy, image_copy>>
  BY <1>0, <1>7, CopiesStand, FramesStand DEF IInv
<1>. QED BY <1>1, <1>2, <1>3, <1>4, <1>5, <1>6, <1>7 DEF Next, vars

-----------------------------------------------------------------------------
(* The contract *)

Allowed(a, b) == a # b => <<a, b>> \in Contract!Moves

\* What a step may make of a copy: it goes from idle to waiting, to answered, to gone, is
\* never dropped, and succeeds while its output is there.
CopyGoes(c) ==
    /\ Allowed(StandingOfCopy(c), StandingOfCopy(c)')
    /\ StandingOfCopy(c) = "asked" /\ StandingOfCopy(c)' = "ready" => copies[c].output \in outputs
    /\ StandingOfCopy(c) = "asked" => StandingOfCopy(c)' # "dropped"
    /\ copies[c].output \in Outputs => copies'[c].output = copies[c].output

LEMMA CopySteps ==
    ASSUME IInv, IInv', [Next]_vars, NEW c \in Copies
    PROVE  CopyGoes(c)
<1>. USE CaptureSourcesAssumption
     DEF Contract!Moves, Allowed, StandingOfCopy, CopyStates, Answers, CopyGoes
<1>0. ScreencopyTypeOK /\ CopiesInv /\ ScreencopyTypeOK' /\ CopiesInv' /\ redraws_needed \subseteq outputs
  BY DEF IInv, CopyInv, WorldTypeOK
<1>1. CASE UNCHANGED screencopy \/ ScreencopyRemoveOutput
  BY <1>0, <1>1 DEF screencopy, ScreencopyRemoveOutput, ScreencopyTypeOK, CopiesInv
<1>2. ASSUME NEW d \in Copies, NEW o \in Outputs, CaptureOutput(d, o) PROVE CopyGoes(c)
  BY <1>0, <1>2 DEF CaptureOutput, ScreencopyTypeOK, CopiesInv, Copy, Unborn
<1>3. ASSUME NEW d \in Copies, CopyFrame(d) PROVE CopyGoes(c)
  BY <1>0, <1>3 DEF CopyFrame, ScreencopyTypeOK, CopiesInv
<1>4. ASSUME NEW d \in Copies, DestroyCopy(d) PROVE CopyGoes(c)
  BY <1>0, <1>4 DEF DestroyCopy, Destroyed, ScreencopyTypeOK, CopiesInv
<1>5. CASE DestroyManager
  BY <1>0, <1>5 DEF DestroyManager, ScreencopyTypeOK, CopiesInv
<1>6. CASE ScreencopyDisconnect
  <2>1. copies[c].state = "unborn" <=> copies[c] = Unborn
    BY <1>0 DEF CopiesInv, Unborn, Copy
  <2>2. copies'[c] = IF copies[c] = Unborn THEN Unborn
                     ELSE [copies[c] EXCEPT !.state = "destroyed", !.answer = "none"]
    BY <1>6 DEF ScreencopyDisconnect, Destroyed
  <2>3. CASE copies[c].state = "unborn"
    <3>1. copies'[c] = copies[c]
      BY <2>1, <2>2, <2>3
    <3>. QED BY <2>3, <3>1
  <2>4. CASE copies[c].state # "unborn"
    <3>1. copies[c] \in [state : CopyStates, output : Outputs \cup {NoSource}, answer : Answers]
      BY <1>0 DEF ScreencopyTypeOK
    <3>2. copies'[c] = [copies[c] EXCEPT !.state = "destroyed", !.answer = "none"]
      BY <2>1, <2>2, <2>4
    <3>3. copies'[c].state = "destroyed" /\ copies'[c].output = copies[c].output
      BY <3>1, <3>2
    <3>4. StandingOfCopy(c)' = "gone"
      BY <3>3
    <3>5. StandingOfCopy(c) \in {"idle", "ready", "failed", "asked", "dropped", "gone"}
      BY <3>1
    <3>. HIDE DEF StandingOfCopy
    <3>. QED BY <3>3, <3>4, <3>5
  <2>. QED BY <2>3, <2>4
<1>7. ASSUME NEW o \in redraws_needed, NEW ok \in SUBSET Drained(o), render_screencopy(o, ok) PROVE CopyGoes(c)
  <2>1. CASE c \in Drained(o) /\ copies[c].state = "copied"
    <3>1. /\ copies'[c].state = "copied" /\ copies'[c].output = copies[c].output
          /\ copies'[c].answer \in {"ready", "failed"}
          /\ copies[c].answer = "none" /\ c \in pending_screencopies /\ copies[c].output = o
      BY <1>0, <1>7, <2>1 DEF render_screencopy, Drained, ScreencopyTypeOK, CopiesInv
    <3>2. StandingOfCopy(c) = "asked" /\ StandingOfCopy(c)' \in {"ready", "failed"}
      BY <2>1, <3>1
    <3>. HIDE DEF StandingOfCopy
    <3>. QED BY <1>0, <3>1, <3>2
  <2>2. CASE ~(c \in Drained(o) /\ copies[c].state = "copied")
    <3>1. copies'[c] = copies[c]
      BY <1>7, <2>2 DEF render_screencopy
    <3>2. copies[c].state = "copied" => (c \in pending_screencopies' <=> c \in pending_screencopies)
      BY <1>7, <2>2 DEF render_screencopy
    <3>3. StandingOfCopy(c)' = StandingOfCopy(c)
      BY <1>0, <3>1, <3>2 DEF ScreencopyTypeOK, CopiesInv
    <3>. HIDE DEF StandingOfCopy
    <3>4. StandingOfCopy(c) = "asked" /\ StandingOfCopy(c)' = "ready" => copies[c].output \in outputs
      BY <3>3
    <3>. QED BY <3>1, <3>3, <3>4
  <2>. QED BY <2>1, <2>2
<1>8. ASSUME NEW o \in Outputs, Render(o) PROVE CopyGoes(c)
  BY <1>7, <1>8 DEF Render
<1>. QED BY <1>1, <1>2, <1>3, <1>4, <1>5, <1>6, <1>8
         DEF Next, vars, ScreencopyNext, Disconnect, Unplug, UnmapWindow

\* What a step may make of a frame: the same, but it may be dropped, once its source is
\* lost or its session has ended.  Both are for good.
FrameGoes(f) ==
    /\ Allowed(StandingOfFrame(f), StandingOfFrame(f)')
    /\ StandingOfFrame(f) = "asked" /\ StandingOfFrame(f)' = "ready" => f \notin lost
    /\ StandingOfFrame(f) = "asked" /\ StandingOfFrame(f)' = "dropped" => f \in lost' \cup ended'

\* What a frame was made for stays.
FrameKeeps(f) ==
    /\ frames[f].session # NoSession => frames'[f].session = frames[f].session
    /\ f \in overtaken => f \in overtaken'
    /\ \A s \in Sessions : objects[s].state # "unborn" =>
          /\ objects'[s].source = objects[s].source
          /\ objects[s].state = "destroyed" => objects'[s].state = "destroyed"

LEMMA FramesKeep ==
    ASSUME IInv, IInv', [Next]_vars, NEW f \in Frames
    PROVE  FrameKeeps(f)
<1>. USE CaptureAssumption DEF FrameKeeps
<1>0. ImageCopyTypeOK /\ FramesInv
  BY DEF IInv, ImageInv
<1>1. CASE UNCHANGED image_copy
  BY <1>1 DEF image_copy
<1>2. ASSUME NEW s \in Sessions, NEW src \in Sources, DestroySession(s) \/ CreateSession(s, src)
      PROVE  FrameKeeps(f)
  BY <1>0, <1>2 DEF DestroySession, CreateSession, ImageCopyTypeOK
<1>3. ASSUME NEW g \in Frames, NEW s \in Sessions, CreateFrame(g, s) PROVE FrameKeeps(f)
  BY <1>0, <1>3 DEF CreateFrame, ImageCopyTypeOK, FramesInv
<1>4. ASSUME NEW g \in Frames, Capture(g) PROVE FrameKeeps(f)
  BY <1>0, <1>4 DEF Capture, CaptureFails, CaptureFirst, CaptureNext, Captured, ImageCopyTypeOK, FrameData
<1>5. ASSUME NEW g \in Frames, DestroyFrame(g) PROVE FrameKeeps(f)
  BY <1>0, <1>5 DEF DestroyFrame, ImageCopyTypeOK, FrameData
<1>6. CASE ImageCopyDisconnect
  BY <1>0, <1>6 DEF ImageCopyDisconnect, ImageCopyTypeOK, FrameData
<1>7. ASSUME NEW o \in Outputs, NEW ok, render_captures(o, ok) PROVE FrameKeeps(f)
  BY <1>0, <1>7 DEF render_captures, Answered, ImageCopyTypeOK, FrameData
<1>8. ASSUME NEW src, RemoveSource(src) PROVE FrameKeeps(f)
  BY <1>8 DEF RemoveSource
<1>9. ASSUME NEW o \in Outputs, Render(o) PROVE FrameKeeps(f)
  BY <1>7, <1>9 DEF Render
<1>10. ASSUME NEW o \in Outputs, Unplug(o) PROVE FrameKeeps(f)
  BY <1>8, <1>10 DEF Unplug
<1>11. ASSUME NEW w \in Windows, UnmapWindow(w) PROVE FrameKeeps(f)
  BY <1>1, <1>8, <1>11 DEF UnmapWindow, Unmapped
<1>12. CASE ImageCopyNext
  <2>1. ASSUME NEW s \in Sessions, DestroySession(s) PROVE FrameKeeps(f)
    BY <1>0, <2>1 DEF DestroySession, ImageCopyTypeOK
  <2>. HIDE DEF FrameKeeps
  <2>. QED BY <1>2, <1>3, <1>4, <1>5, <1>12, <2>1 DEF ImageCopyNext
<1>. HIDE DEF FrameKeeps
<1>. QED BY <1>1, <1>6, <1>9, <1>10, <1>11, <1>12 DEF Next, vars, Disconnect

\* So nothing that was lost is found, and nothing that has ended goes on.
LEMMA LossIsForGood ==
    ASSUME IInv, IInv', [Next]_vars
    PROVE  lost \subseteq lost' /\ ended \subseteq ended'
<1>0. /\ ScreencopyTypeOK /\ ImageCopyTypeOK /\ FramesInv /\ WorldTypeOK
  BY DEF IInv, CopyInv, ImageInv
<1>1. ASSUME NEW c \in Copies, copies[c].output \in Outputs \ outputs PROVE c \in lost'
  BY <1>1, CopySteps, WorldKeeps DEF CopyGoes, lost
<1>2. ASSUME NEW f \in Frames, frames[f].session # NoSession
      PROVE  frames'[f].session # NoSession /\ SourceOf(f)' = SourceOf(f)
  BY <1>0, <1>2, FramesKeep DEF FrameKeeps, SourceOf, ImageCopyTypeOK, FrameData, FramesInv
<1>3. ASSUME NEW f \in Frames, frames[f].session # NoSession,
             SourceOf(f) \in Outputs \ outputs \/ (SourceOf(f) \in Windows /\ ~Drawable(f))
      PROVE  f \in lost'
  BY <1>2, <1>3, WorldKeeps DEF lost, Drawable
<1>4. ASSUME NEW f \in Frames, frames[f].session # NoSession, objects[frames[f].session].state = "destroyed"
      PROVE  f \in ended'
  BY <1>0, <1>4, FramesKeep DEF FrameKeeps, ended, ImageCopyTypeOK, FrameData
<1>5. ASSUME NEW f \in overtaken PROVE f \in ended'
  BY <1>0, <1>5, FramesKeep DEF FrameKeeps, ended, ImageCopyTypeOK
<1>. QED BY <1>1, <1>3, <1>4, <1>5 DEF lost, ended

Asked(f) == frames[f].state = "captured" /\ frames[f].answer = "none"

\* A frame that stands as it did goes nowhere, unless it waits no more.
LEMMA FrameStands ==
    ASSUME NEW f \in Frames, frames[f] \in FrameData, frames'[f] = frames[f],
           Asked(f) /\ Waits(f)' => Waits(f),
           Asked(f) /\ Waits(f) => Waits(f)' \/ f \in lost' \cup ended'
    PROVE  FrameGoes(f)
BY DEF FrameGoes, Allowed, StandingOfFrame, Asked, FrameData, FrameStates, Contract!Moves

\* Requests: what waited still waits, or its session has ended.
LEMMA RequestsGo ==
    ASSUME ImageInv, ImageInv', ImageCopyNext, NEW f \in Frames
    PROVE  FrameGoes(f)
<1>. USE CaptureAssumption
<1>0. /\ ImageCopyTypeOK /\ WaitingIsWanted /\ SessionsInv /\ FramesInv /\ frames[f] \in FrameData
      /\ ImageCopyTypeOK' /\ frames'[f] \in FrameData
  BY DEF ImageInv, ImageCopyTypeOK
<1>1. ASSUME NEW s \in Sessions, DestroySession(s) PROVE FrameGoes(f)
  <2>1. frames'[f] = frames[f] /\ UNCHANGED pending_captures
    BY <1>1 DEF DestroySession
  <2>2. \A t \in DOMAIN sessions' : t \in DOMAIN sessions /\ sessions'[t] = sessions[t]
    BY <1>1 DEF DestroySession, Without
  <2>3. \A t \in DOMAIN sessions : t \in DOMAIN sessions' \/ t = s
    BY <1>1 DEF DestroySession, Without
  <2>4. s \in DOMAIN sessions /\ sessions[s].waiting = f => f \in ended'
    <3>1. s \in DOMAIN sessions /\ sessions[s].waiting = f => frames[f].session = s
      BY <1>0, WaitingFields
    <3>2. objects'[s].state = "destroyed"
      BY <1>0, <1>1 DEF DestroySession, ImageCopyTypeOK
    <3>. QED BY <2>1, <3>1, <3>2 DEF ended
  <2>. QED BY <1>0, <2>1, <2>2, <2>3, <2>4, FrameStands DEF Waits
<1>2. ASSUME NEW s \in Sessions, NEW src \in Sources, CreateSession(s, src) PROVE FrameGoes(f)
  <2>1. frames'[f] = frames[f] /\ UNCHANGED pending_captures
    BY <1>2 DEF CreateSession
  <2>2. s \notin DOMAIN sessions
    BY <1>0, <1>2 DEF CreateSession, SessionsInv
  <2>3. /\ DOMAIN sessions' = DOMAIN sessions \cup {s} /\ sessions'[s].waiting = NoFrame
        /\ \A t \in DOMAIN sessions : sessions'[t] = sessions[t]
    BY <1>2, <2>2 DEF CreateSession
  <2>. QED BY <1>0, <2>1, <2>2, <2>3, FrameStands DEF Waits
<1>3. ASSUME NEW g \in Frames, NEW s \in Sessions, CreateFrame(g, s) PROVE FrameGoes(f)
  <2>1. CASE g = f
    <3>1. frames[f].state = "unborn" /\ frames'[f].state = "made"
      BY <1>0, <1>3, <2>1 DEF CreateFrame, ImageCopyTypeOK, FrameData
    <3>. QED BY <3>1 DEF FrameGoes, Allowed, StandingOfFrame
  <2>2. CASE g # f
    <3>1. frames'[f] = frames[f] /\ UNCHANGED pending_captures
      BY <1>0, <1>3, <2>2 DEF CreateFrame, ImageCopyTypeOK
    <3>2. DOMAIN sessions' = DOMAIN sessions /\ \A t \in DOMAIN sessions : sessions'[t].waiting = sessions[t].waiting
      BY <1>0, <1>3 DEF CreateFrame, ImageCopyTypeOK, SessionData
    <3>. QED BY <1>0, <3>1, <3>2, FrameStands DEF Waits
  <2>. QED BY <2>1, <2>2
<1>4. ASSUME NEW g \in Frames, Capture(g) PROVE FrameGoes(f)
  <2>0. frames[g].state = "made" /\ \E answer \in {"none", "failed"} : Captured(g, answer)
    BY <1>4 DEF Capture, CaptureFails, CaptureFirst, CaptureNext
  <2>1. CASE g = f
    <3>1. StandingOfFrame(f) = "idle"
      BY <2>0, <2>1 DEF StandingOfFrame
    <3>2. /\ frames'[f].state = "captured"
          /\ \/ frames'[f].answer = "failed"
             \/ frames'[f].answer = "none" /\ Waits(f)'
      <4>1. CASE CaptureFails(f)
        BY <1>0, <4>1 DEF CaptureFails, Captured, ImageCopyTypeOK, FrameData
      <4>2. CASE CaptureFirst(f)
        BY <1>0, <4>2 DEF CaptureFirst, Captured, ImageCopyTypeOK, FrameData, Waits
      <4>3. CASE CaptureNext(f)
        <5>1. frames[f].session \in DOMAIN sessions' /\ sessions'[frames[f].session].waiting = f
          BY <1>0, <4>3 DEF CaptureNext, Usable, ImageCopyTypeOK, SessionData
        <5>. QED BY <1>0, <4>3, <5>1 DEF CaptureNext, Captured, ImageCopyTypeOK, FrameData, Waits
      <4>. QED BY <1>4, <2>1, <4>1, <4>2, <4>3 DEF Capture
    <3>3. StandingOfFrame(f)' \in {"failed", "asked"}
      BY <3>2 DEF StandingOfFrame
    <3>. QED BY <3>1, <3>3 DEF FrameGoes, Allowed, Contract!Moves
  <2>2. CASE g # f
    <3>1. frames'[f] = frames[f]
      BY <1>0, <2>0, <2>2 DEF Captured, ImageCopyTypeOK
    <3>2. CASE CaptureFails(g)
      <4>1. /\ DOMAIN sessions' = DOMAIN sessions /\ UNCHANGED pending_captures
            /\ \A t \in DOMAIN sessions : sessions'[t].waiting = sessions[t].waiting
        <5>1. \A t \in DOMAIN sessions : sessions[t] \in SessionData
          BY <1>0 DEF ImageCopyTypeOK
        <5>2. CASE UNCHANGED sessions
          BY <3>2, <5>2 DEF CaptureFails
        <5>3. CASE sessions' = [sessions EXCEPT ![frames[g].session].stopped = TRUE]
          BY <3>2, <5>1, <5>3 DEF CaptureFails, SessionData
        <5>. QED BY <3>2, <5>2, <5>3 DEF CaptureFails
      <4>. QED BY <1>0, <3>1, <4>1, FrameStands DEF Waits
    <3>3. CASE CaptureFirst(g)
      BY <1>0, <2>2, <3>1, <3>3, FrameStands DEF Waits, CaptureFirst
    <3>4. CASE CaptureNext(g)
      <4>. DEFINE r == frames[g].session
      <4>1. /\ r \in DOMAIN sessions /\ DOMAIN sessions' = DOMAIN sessions /\ UNCHANGED pending_captures
            /\ sessions'[r].waiting = g
            /\ \A t \in DOMAIN sessions \ {r} : sessions'[t] = sessions[t]
        BY <1>0, <3>4 DEF CaptureNext, Usable, ImageCopyTypeOK, SessionData
      <4>2. sessions[r].waiting = f => f \in ended'
        BY <3>4 DEF CaptureNext, ended
      <4>. HIDE DEF r
      <4>. QED BY <1>0, <2>2, <3>1, <4>1, <4>2, FrameStands DEF Waits
    <3>. QED BY <1>4, <3>2, <3>3, <3>4 DEF Capture
  <2>. QED BY <2>1, <2>2
<1>5. ASSUME NEW g \in Frames, DestroyFrame(g) PROVE FrameGoes(f)
  <2>1. CASE g = f
    <3>1. StandingOfFrame(f) \in {"idle", "asked", "ready", "failed", "dropped"}
      BY <1>0, <1>5, <2>1 DEF DestroyFrame, StandingOfFrame, FrameData
    <3>2. frames'[f].state = "destroyed"
      BY <1>0, <1>5, <2>1 DEF DestroyFrame, ImageCopyTypeOK, FrameData
    <3>3. StandingOfFrame(f)' = "gone"
      BY <3>2 DEF StandingOfFrame
    <3>. QED BY <3>1, <3>3 DEF FrameGoes, Allowed, Contract!Moves
  <2>2. CASE g # f
    <3>1. frames'[f] = frames[f] /\ UNCHANGED pending_captures
      BY <1>0, <1>5, <2>2 DEF DestroyFrame, ImageCopyTypeOK
    <3>2. /\ DOMAIN sessions' = DOMAIN sessions
          /\ \A t \in DOMAIN sessions :
               /\ t = frames[g].session => sessions'[t].waiting = NoFrame
               /\ t # frames[g].session => sessions'[t] = sessions[t]
      <4>1. \A t \in DOMAIN sessions : sessions[t] \in SessionData
        BY <1>0 DEF ImageCopyTypeOK
      <4>. QED BY <1>5, <4>1 DEF DestroyFrame, Forget, SessionData
    <3>3. \A t \in DOMAIN sessions : t = frames[g].session /\ sessions[t].waiting = f => f \in ended'
      BY <1>5, <2>2 DEF DestroyFrame, ended
    <3>. QED BY <1>0, <3>1, <3>2, <3>3, FrameStands DEF Waits
  <2>. QED BY <2>1, <2>2
<1>. QED BY <1>1, <1>2, <1>3, <1>4, <1>5 DEF ImageCopyNext

\* The frame loop: what it takes is answered, with a picture only of what is there.
LEMMA RenderGoes ==
    ASSUME IInv, ImageInv', NEW o \in redraws_needed, NEW f \in Frames,
           NEW ok \in SUBSET {g \in Taken(o) : Drawable(g)}, render_captures(o, ok)
    PROVE  FrameGoes(f)
<1>. USE CaptureAssumption, CaptureSourcesAssumption
<1>. DEFINE P == {sessions[s].waiting : s \in Promoting(o)}
<1>0. /\ ImageCopyTypeOK /\ WaitingIsWanted /\ FramesInv /\ frames[f] \in FrameData
      /\ o \in outputs /\ outputs \subseteq Outputs
  BY DEF IInv, ImageInv, ImageCopyTypeOK, WorldTypeOK
<1>1. Taken(o) \subseteq pending_captures \cup P
  BY DEF Taken
<1>2. f \in P => Asked(f) /\ Waits(f)
  <2>1. \A s \in Promoting(o) : sessions[s].waiting = f => s \in DOMAIN sessions /\ Asked(f)
    BY <1>0, TakenUp, WaitingFields DEF Asked
  <2>. QED BY <2>1 DEF Waits
<1>3. CASE f \in Taken(o) /\ frames[f].state = "captured"
  <2>1. StandingOfFrame(f) = "asked"
    <3>1. Asked(f) /\ Waits(f)
      BY <1>0, <1>1, <1>2, <1>3 DEF FramesInv, Asked, Waits
    <3>. QED BY <3>1 DEF Asked, StandingOfFrame
  <2>2. frames'[f] = [frames[f] EXCEPT !.answer = IF f \in ok THEN "ready" ELSE "failed"]
    BY <1>3 DEF render_captures, Answered
  <2>3. frames'[f].state = "captured" /\ frames'[f].answer = IF f \in ok THEN "ready" ELSE "failed"
    BY <1>0, <1>3, <2>2 DEF FrameData
  <2>4. StandingOfFrame(f)' = IF f \in ok THEN "ready" ELSE "failed"
    BY <2>3 DEF StandingOfFrame
  <2>5. f \in ok => f \notin lost
    <3>1. SourceOf(f) = o \/ SourceOf(f) \in Windows
      BY <1>3 DEF Taken
    <3>2. f \in ok => Drawable(f)
      OBVIOUS
    <3>. QED BY <1>0, <3>1, <3>2 DEF lost
  <2>. QED BY <2>1, <2>4, <2>5 DEF FrameGoes, Allowed, Contract!Moves
<1>4. CASE ~(f \in Taken(o) /\ frames[f].state = "captured")
  <2>1. frames'[f] = frames[f] /\ pending_captures' = (pending_captures \cup P) \ Taken(o)
    BY <1>4 DEF render_captures, Answered
  <2>2. /\ DOMAIN sessions' = DOMAIN sessions
        /\ \A s \in DOMAIN sessions :
             /\ s \in Promoting(o) => sessions'[s].waiting = NoFrame
             /\ s \notin Promoting(o) => sessions'[s].waiting = sessions[s].waiting
    <3>1. DOMAIN sessions' = DOMAIN sessions
      BY DEF render_captures
    <3>2. ASSUME NEW s \in DOMAIN sessions
          PROVE  /\ s \in Promoting(o) => sessions'[s].waiting = NoFrame
                 /\ s \notin Promoting(o) => sessions'[s].waiting = sessions[s].waiting
      <4>. DEFINE data == IF s \in Promoting(o) THEN [sessions[s] EXCEPT !.waiting = NoFrame] ELSE sessions[s]
      <4>1. /\ data \in SessionData
            /\ s \in Promoting(o) => data.waiting = NoFrame
            /\ s \notin Promoting(o) => data.waiting = sessions[s].waiting
        BY <1>0 DEF ImageCopyTypeOK, SessionData
      <4>2. sessions'[s] = data \/ sessions'[s] = [data EXCEPT !.active = FALSE, !.once = TRUE]
        BY DEF render_captures, Done
      <4>. HIDE DEF data
      <4>. QED BY <4>1, <4>2 DEF SessionData
    <3>. QED BY <3>1, <3>2
  <2>3. Asked(f) /\ Waits(f)' => Waits(f)
    BY <1>0, <1>2, <2>1, <2>2 DEF Waits
  <2>4. Asked(f) /\ Waits(f) => Waits(f)'
    <3>1. Asked(f) => f \notin Taken(o)
      BY <1>4 DEF Asked
    <3>2. f \in pending_captures \cup P /\ Asked(f) => f \in pending_captures'
      BY <2>1, <3>1
    <3>3. \A s \in DOMAIN sessions : sessions[s].waiting = f =>
            f \in P \/ (s \in DOMAIN sessions' /\ sessions'[s].waiting = f)
      BY <2>2
    <3>. QED BY <3>2, <3>3 DEF Waits
  <2>. QED BY <1>0, <2>1, <2>3, <2>4, FrameStands
<1>. QED BY <1>3, <1>4

\* A source that goes: its sessions are forgotten, and what waits in them is lost.
LEMMA LossGoes ==
    ASSUME IInv, ImageInv', NEW f \in Frames, NEW src \in Outputs \cup Windows, RemoveSource(src),
           src \in Outputs => src \notin outputs',
           src \in Windows => windows'[src] # "mapped"
    PROVE  FrameGoes(f)
<1>. USE CaptureAssumption, CaptureSourcesAssumption
<1>0. /\ ImageCopyTypeOK /\ WaitingIsWanted /\ SessionsInv /\ FramesInv /\ frames[f] \in FrameData
  BY DEF IInv, ImageInv, ImageCopyTypeOK
<1>1. UNCHANGED <<objects, frames, pending_captures>>
  BY DEF RemoveSource
<1>2. \A s \in DOMAIN sessions' : s \in DOMAIN sessions /\ sessions'[s] = sessions[s]
  BY DEF RemoveSource, Without
<1>3. \A s \in DOMAIN sessions : s \in DOMAIN sessions' \/ sessions[s].source = src
  BY DEF RemoveSource, Without
<1>4. ASSUME NEW s \in DOMAIN sessions, sessions[s].waiting = f, sessions[s].source = src
      PROVE  f \in lost'
  <2>1. frames[f].session = s /\ s \in Sessions
    BY <1>0, <1>4, WaitingFields DEF ImageCopyTypeOK
  <2>2. frames'[f].session # NoSession /\ SourceOf(f)' = src
    BY <1>0, <1>1, <1>4, <2>1 DEF SourceOf, SessionsInv
  <2>. QED BY <2>2 DEF lost, Drawable
<1>. QED BY <1>0, <1>1, <1>2, <1>3, <1>4, FrameStands DEF Waits

LEMMA FrameSteps ==
    ASSUME IInv, IInv', [Next]_vars, NEW f \in Frames
    PROVE  FrameGoes(f)
<1>0. /\ ImageInv /\ ImageInv' /\ ImageCopyTypeOK /\ FramesInv /\ WorldTypeOK
      /\ frames[f] \in FrameData /\ frames'[f] \in FrameData
  BY DEF IInv, ImageInv, ImageCopyTypeOK
<1>1. CASE UNCHANGED image_copy
  BY <1>0, <1>1, FrameStands DEF image_copy, Waits
<1>2. CASE ImageCopyNext
  BY <1>0, <1>2, RequestsGo
<1>3. CASE Disconnect
  <2>1. CASE frames[f].state = "unborn"
    <3>1. frames'[f].state = "unborn"
      BY <1>3, <2>1 DEF Disconnect, ImageCopyDisconnect
    <3>. QED BY <2>1, <3>1 DEF FrameGoes, Allowed, StandingOfFrame
  <2>2. CASE frames[f].state # "unborn"
    <3>1. frames'[f] = [frames[f] EXCEPT !.state = "destroyed", !.answer = "none"]
      BY <1>3, <2>2 DEF Disconnect, ImageCopyDisconnect
    <3>2. frames'[f].state = "destroyed"
      BY <1>0, <3>1 DEF FrameData
    <3>3. StandingOfFrame(f)' = "gone"
      BY <3>2 DEF StandingOfFrame
    <3>4. StandingOfFrame(f) \in {"idle", "asked", "ready", "failed", "dropped", "gone"}
      BY <1>0 DEF StandingOfFrame, FrameData
    <3>. QED BY <3>3, <3>4 DEF FrameGoes, Allowed, Contract!Moves
  <2>. QED BY <2>1, <2>2
<1>4. ASSUME NEW o \in Outputs, Render(o) PROVE FrameGoes(f)
  BY <1>0, <1>4, RenderGoes DEF Render
<1>5. ASSUME NEW o \in Outputs, Unplug(o) PROVE FrameGoes(f)
  BY <1>0, <1>5, LossGoes, CaptureSourcesAssumption DEF Unplug, OutputGone
<1>6. ASSUME NEW w \in Windows, UnmapWindow(w) PROVE FrameGoes(f)
  <2>1. windows'[w] # "mapped"
    BY <1>0, <1>6 DEF UnmapWindow, WindowUnmapped, WorldTypeOK
  <2>2. w \notin Outputs
    BY CaptureSourcesAssumption
  <2>. QED BY <1>0, <1>1, <1>6, <2>1, <2>2, LossGoes DEF UnmapWindow, Unmapped
<1>. QED BY <1>1, <1>2, <1>3, <1>4, <1>5, <1>6 DEF Next, vars

\* A standing is one of the contract's.
StandingOK ==
    standing \in [Requests -> Contract!Standing] /\ lost \subseteq Requests /\ ended \subseteq Requests

LEMMA StandingType == IInv => StandingOK
<1>. SUFFICES ASSUME IInv PROVE StandingOK
  OBVIOUS
<1>0. /\ copies \in [Copies -> [state : CopyStates, output : Outputs \cup {NoSource}, answer : Answers]]
      /\ frames \in [Frames -> FrameData] /\ overtaken \subseteq Frames
  BY DEF IInv, CopyInv, ImageInv, ScreencopyTypeOK, ImageCopyTypeOK
<1>1. ASSUME NEW c \in Copies PROVE StandingOfCopy(c) \in Contract!Standing
  BY <1>0 DEF StandingOfCopy, Contract!Standing, Answers
<1>2. ASSUME NEW f \in Frames PROVE StandingOfFrame(f) \in Contract!Standing
  BY <1>0 DEF StandingOfFrame, Contract!Standing, FrameData
<1>. QED BY <1>0, <1>1, <1>2 DEF StandingOK, standing, Requests, lost, ended

LEMMA StandingTypeNext == IInv' => StandingOK'
BY StandingType, PTL

LEMMA InitMaps == Init => Contract!Init
<1>. SUFFICES ASSUME Init PROVE Contract!Init
  OBVIOUS
<1>1. \A c \in Copies : copies[c].state = "unborn" /\ copies[c].output = NoSource
  BY DEF Init, ScreencopyInit, Unborn, Copy
<1>2. \A f \in Frames : frames[f].state = "unborn" /\ frames[f].session = NoSession
  BY DEF Init, ImageCopyInit
<1>3. standing = [r \in Requests |-> "idle"]
  BY <1>1, <1>2 DEF standing, Requests, StandingOfCopy, StandingOfFrame
<1>4. lost = {}
  BY <1>1, <1>2, CaptureSourcesAssumption DEF lost
<1>5. ended = {}
  BY <1>2 DEF ended, Init, ImageCopyInit
<1>. QED BY <1>3, <1>4, <1>5 DEF Contract!Init

LEMMA StepMaps ==
    ASSUME IInv, IInv', [Next]_vars
    PROVE  Contract!Next
<1>1. standing' \in [Requests -> Contract!Standing] /\ lost' \subseteq Requests /\ ended' \subseteq Requests
  BY StandingTypeNext DEF StandingOK
<1>2. lost \subseteq lost' /\ ended \subseteq ended'
  BY LossIsForGood
<1>3. ASSUME NEW r \in Requests
      PROVE  /\ standing'[r] # standing[r] => <<standing[r], standing'[r]>> \in Contract!Moves
             /\ standing'[r] = "ready" /\ standing[r] = "asked" => r \notin lost
             /\ standing'[r] = "dropped" /\ standing[r] = "asked" => r \in lost' \cup ended'
  <2>1. CASE r \in Copies
    <3>1. standing[r] = StandingOfCopy(r) /\ standing'[r] = StandingOfCopy(r)'
      BY <2>1 DEF standing, Requests
    <3>2. copies[r].output \in outputs => r \notin lost
      BY <2>1, CaptureAssumption DEF lost
    <3>3. CopyGoes(r)
      BY <2>1, CopySteps
    <3>. QED BY <3>1, <3>2, <3>3 DEF CopyGoes, Allowed
  <2>2. CASE r \in Frames
    <3>1. standing[r] = StandingOfFrame(r) /\ standing'[r] = StandingOfFrame(r)'
      BY <2>2, CaptureAssumption DEF standing, Requests
    <3>2. FrameGoes(r)
      BY <2>2, FrameSteps
    <3>. QED BY <3>1, <3>2 DEF FrameGoes, Allowed
  <2>. QED BY <2>1, <2>2 DEF Requests
<1>. QED BY <1>1, <1>2, <1>3 DEF Contract!Next

-----------------------------------------------------------------------------
(* Theorems *)

\* The inductive invariant: queues, sessions and frames agree, whatever happens.
THEOREM Invariance == Spec => []IInv
BY Initially, StepKeeps, PTL DEF Spec

\* Both protocols and the world keep their types.
THEOREM TypeCorrect == Spec => []TypeOK
<1>1. IInv => TypeOK
  BY DEF IInv, CopyInv, ImageInv, TypeOK
<1>. QED BY <1>1, Invariance, PTL

\* Neither request on a pending screencopy frame misses its manager's queue.
THEOREM QueuesAreThere == Spec => []QueueIsThere
<1>1. IInv => QueueIsThere
  BY DEF IInv, CopyInv
<1>. QED BY <1>1, Invariance, PTL

\* What waits in a session of ext-image-copy-capture is a frame the client still wants.
THEOREM WaitingFramesAreWanted == Spec => []WaitingIsWanted
<1>1. IInv => WaitingIsWanted
  BY DEF IInv, ImageInv
<1>. QED BY <1>1, Invariance, PTL

\* Screencopy, image copy and the frame loop implement the contract of CaptureContract.
THEOREM Refinement == Spec => KeepsContract
<1>1. Init => Contract!Init
  BY InitMaps
<1>2. IInv /\ IInv' /\ [Next]_vars => [Contract!Next]_<<standing, lost, ended>>
  BY StepMaps
<1>. QED BY <1>1, <1>2, Invariance, PTL DEF Spec, KeepsContract, Contract!Spec

=============================================================================
