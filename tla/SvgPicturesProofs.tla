-------------------------- MODULE SvgPicturesProofs --------------------------
(***************************************************************************)
(* The images of every number of renders and resource sets, in five parts: *)
(*  - as many permits are out as decodes run;                              *)
(*  - who answers for a flight that is in the map: what a call is for      *)
(*    decides where it can be (Formed);                                    *)
(*  - who works on a data: picture, and what it and the memo lease         *)
(*    (Calls, PicInv);                                                     *)
(*  - the counters of every set and of the process are what is kept        *)
(*    (AccInv), which every change of a set keeps (SetKept);               *)
(*  - what a call that comes back can say of its image (Told).             *)
(***************************************************************************)
EXTENDS SvgPictures, FiniteSums, TLAPS

Busy == {t \in Threads : pc[t] \in Decoding}

Placed == pc = [t \in Threads |-> pc[t]]

\* What PermitsCounted needs to be inductive.
PermitInv == Placed /\ permits \in Nat /\ PermitsCounted

LEMMA BusyFinite == IsFiniteSet(Busy) /\ Cardinality(Busy) \in Nat
<1>1. Busy \subseteq Threads
  BY DEF Busy
<1>2. IsFiniteSet(Busy)
  BY <1>1, ImagesAssumption, FS_Subset DEF ImagesAssumption
<1> QED
  BY <1>2, FS_CardinalityType

\* A step that neither starts nor ends a decode.
LEMMA BusyKept ==
  ASSUME PermitInv, permits' = permits, Placed',
         \A t \in Threads : pc'[t] \in Decoding <=> pc[t] \in Decoding
  PROVE  PermitInv'
<1>1. Busy' = Busy
  BY DEF Busy, Decoding
<1> QED
  BY <1>1 DEF PermitInv, PermitsCounted, Busy

\* A thread moves to a place on the same side of its permit.
LEMMA MoveKept ==
  ASSUME PermitInv, permits' = permits, NEW t \in Threads, NEW place,
         Goto(t, place), place \in Decoding <=> pc[t] \in Decoding
  PROVE  PermitInv'
<1>1. Placed'
  BY DEF PermitInv, Placed, Goto
<1>2. \A w \in Threads : pc'[w] \in Decoding <=> pc[w] \in Decoding
  BY DEF PermitInv, Placed, Goto
<1> QED
  BY <1>1, <1>2, BusyKept

LEMMA PermitStayKept ==
  ASSUME PermitInv, UNCHANGED <<pc, permits>>
  PROVE  PermitInv'
BY DEF PermitInv, Placed, PermitsCounted

LEMMA GrantedDecodes ==
  ASSUME NEW t \in Threads
  PROVE  Granted(t) \in Decoding
<1>1. CASE call[t].for = "background"
  BY <1>1 DEF Granted, Decoding
<1>2. CASE call[t].for = "pixels"
  BY <1>2 DEF Granted, Decoding
<1>3. CASE call[t].for = "vector"
  BY <1>3 DEF Granted, Decoding
<1>4. CASE call[t].for \notin {"background", "pixels", "vector"}
  BY <1>4 DEF Granted, Decoding
<1> QED
  BY <1>1, <1>2, <1>3, <1>4

LEMMA AcquireKept ==
  ASSUME PermitInv, NEW t \in Threads, Acquire(t)
  PROVE  PermitInv'
<1>1. CASE permits = 0
  <2>1. permits' = permits /\ Goto(t, "asleep") /\ pc[t] = "permit"
    BY <1>1 DEF Acquire
  <2>2. "asleep" \in Decoding <=> pc[t] \in Decoding
    BY <2>1 DEF Decoding
  <2> QED
    BY <2>1, <2>2, MoveKept
<1>2. CASE permits # 0
  <2>1. Granted(t) \in Decoding
    BY GrantedDecodes
  <2>2. pc[t] \notin Decoding /\ permits' = permits - 1 /\ Goto(t, Granted(t))
    BY <1>2 DEF Acquire, Decoding
  <2>3. Placed'
    BY <2>2 DEF PermitInv, Placed, Goto
  <2>4. Busy' = Busy \cup {t} /\ t \notin Busy
    BY <2>1, <2>2 DEF PermitInv, Placed, Busy, Goto, Decoding
  <2>5. Cardinality(Busy') = Cardinality(Busy) + 1
    BY <2>4, BusyFinite, FS_AddElement
  <2>6. permits \in Nat /\ permits + Cardinality(Busy) = MaxPermits
    BY DEF PermitInv, PermitsCounted, Busy
  <2>7. permits' \in Nat /\ permits' + Cardinality(Busy') = MaxPermits
    BY <2>2, <2>5, <2>6, <1>2, BusyFinite
  <2> QED
    BY <2>3, <2>7 DEF PermitInv, PermitsCounted, Busy
<1> QED
  BY <1>1, <1>2

\* ProcessDecodeGuard::drop: the cap on the permits is never what counts.
LEMMA PermitsBackKept ==
  ASSUME PermitInv, NEW t \in Threads, NEW place, place \notin Decoding,
         pc[t] \in Decoding, PermitsBack(t, place)
  PROVE  PermitInv'
<1>1. Placed' /\ Busy' = Busy \ {t} /\ t \in Busy
  <2>1. CASE Goto(t, place)
    BY <2>1 DEF PermitInv, Placed, Busy, Goto, Decoding
  <2>2. ASSUME NEW w \in Asleep, pc' = [pc EXCEPT ![t] = place, ![w] = "permit"]
        PROVE  Placed' /\ Busy' = Busy \ {t} /\ t \in Busy
    <3>1. w \in Threads /\ pc[w] \notin Decoding /\ w # t
      BY DEF Asleep, Decoding
    <3>2. "permit" \notin Decoding
      BY DEF Decoding
    <3>3. pc' = [x \in Threads |-> IF x = w THEN "permit"
                                   ELSE IF x = t THEN place ELSE pc[x]]
      BY <2>2, <3>1 DEF PermitInv, Placed
    <3>4. Placed'
      BY <3>3 DEF Placed
    <3>5. \A x \in Threads : pc'[x] \in Decoding <=> pc[x] \in Decoding /\ x # t
      BY <3>1, <3>2, <3>3
    <3> QED
      BY <3>4, <3>5 DEF Busy, Decoding
  <2> QED
    BY <2>1, <2>2 DEF PermitsBack
<1>2. Cardinality(Busy') = Cardinality(Busy) - 1
  BY <1>1, BusyFinite, FS_RemoveElement
<1>3. IsFiniteSet(Busy') /\ Cardinality(Busy') \in Nat
  BY <1>1, BusyFinite, FS_RemoveElement, FS_CardinalityType
<1>4. permits \in Nat /\ permits + Cardinality(Busy) = MaxPermits
  BY DEF PermitInv, PermitsCounted, Busy
<1>5. permits' = permits + 1
  <2>1. permits + 1 <= MaxPermits
    BY <1>2, <1>3, <1>4, BusyFinite
  <2> QED
    BY <2>1 DEF PermitsBack, Lesser
<1>6. permits' \in Nat /\ permits' + Cardinality(Busy') = MaxPermits
  BY <1>2, <1>4, <1>5, BusyFinite
<1> QED
  BY <1>1, <1>6 DEF PermitInv, PermitsCounted, Busy

\* A step of one thread that stays on the same side of its permit.
SameSide(t) ==
  /\ permits' = permits
  /\ pc' = [pc EXCEPT ![t] = pc'[t]]
  /\ pc'[t] \in Decoding <=> pc[t] \in Decoding

LEMMA SameSideKept ==
  ASSUME PermitInv, NEW t \in Threads, SameSide(t)
  PROVE  PermitInv'
BY MoveKept DEF SameSide, Goto

\* The steps of BackgroundImages but for the permits.
LEMMA StepSameSide ==
  ASSUME PermitInv, NEW t \in Threads, Step(t), ~Acquire(t), ~DropPermit(t), ~Finish(t)
  PROVE  SameSide(t)
<1> Placed
  BY DEF PermitInv
<1>1. CASE PassOver(t)
  BY <1>1 DEF PassOver, Goto, SameSide, Decoding, Placed
<1>2. CASE TurnAway(t)
  BY <1>2 DEF TurnAway, Goto, SameSide, Decoding, Placed
<1>3. CASE Ask(t)
  BY <1>3 DEF Ask, Goto, SameSide, Decoding, Placed
<1>4. CASE Look(t)
  BY <1>4 DEF Look, Goto, SameSide, Decoding, Placed
<1>5. CASE AdmitPayload(t)
  BY <1>5 DEF AdmitPayload, Goto, SameSide, Decoding, Placed
<1>6. CASE JoinOwner(t)
  BY <1>6 DEF JoinOwner, Goto, SameSide, Decoding, Placed
<1>7. CASE JoinWaiter(t)
  BY <1>7 DEF JoinWaiter, Goto, SameSide, Decoding, Placed
<1>8. CASE Request(t)
  BY <1>8 DEF Request, Goto, SameSide, Decoding, Placed
<1>9. CASE RemoveFlight(t)
  BY <1>9 DEF RemoveFlight, Goto, SameSide, Decoding, Placed
<1>10. CASE ParseSource(t)
  BY <1>10 DEF ParseSource, Goto, SameSide, Decoding, Placed
<1>11. CASE ReadRoom(t)
  BY <1>11 DEF ReadRoom, Goto, SameSide, Decoding, Placed
<1>12. CASE DecodeRaster(t)
  BY <1>12 DEF DecodeRaster, Goto, SameSide, Decoding, Placed
<1>13. CASE LookForPixels(t)
  BY <1>13 DEF LookForPixels, Goto, SameSide, Decoding, Placed
<1>14. CASE DrawPixels(t)
  BY <1>14 DEF DrawPixels, Goto, SameSide, Decoding, Placed
<1>15. CASE LookForScene(t)
  BY <1>15 DEF LookForScene, Goto, SameSide, Decoding, Placed
<1>16. CASE LookForSceneAgain(t)
  BY <1>16 DEF LookForSceneAgain, Goto, SameSide, Decoding, Placed
<1>17. CASE BuildScene(t)
  BY <1>17 DEF BuildScene, Goto, SameSide, Decoding, Placed
<1>18. CASE Return(t)
  BY <1>18 DEF Return, Forget, SameSide, Decoding, Placed
<1> QED
  BY <1>1, <1>2, <1>3, <1>4, <1>5, <1>6, <1>7, <1>8, <1>9, <1>10, <1>11, <1>12, <1>13,
     <1>14, <1>15, <1>16, <1>17, <1>18 DEF Step

\* Finishing a flight moves its waiters too, and none of them holds a permit.
LEMMA PermitFinishKept ==
  ASSUME PermitInv, NEW t \in Threads, Finish(t)
  PROVE  PermitInv'
<1>1. permits' = permits /\ Placed'
  BY DEF Finish, Placed
<1>2. \A w \in Threads : pc'[w] \in Decoding <=> pc[w] \in Decoding
  BY DEF Finish, Waiters, Decoding
<1> QED
  BY <1>1, <1>2, BusyKept

LEMMA PermitDropKept ==
  ASSUME PermitInv, NEW t \in Threads, DropPermit(t)
  PROVE  PermitInv'
<1> DEFINE place == IF call[t].for = "background" THEN AfterDecode(t) ELSE "left"
<1>1. place \notin Decoding
  BY DEF AfterDecode, Decoding
<1>2. PermitsBack(t, place)
  BY DEF DropPermit
<1>3. pc[t] \in Decoding
  BY DEF DropPermit, Decoding
<1> HIDE DEF place
<1> QED
  BY <1>1, <1>2, <1>3, PermitsBackKept

\* A panic gives back the permit that its thread holds, and only that.
LEMMA PermitPanicKept ==
  ASSUME PermitInv, NEW t \in Threads, Panic(t)
  PROVE  PermitInv'
<1>1. "panicked" \notin Decoding
  BY DEF Decoding
<1>2. CASE pc[t] = "request"
  <2>1. permits' = permits /\ Goto(t, "panicked") /\ pc[t] \notin Decoding
    BY <1>2 DEF Panic, Decoding
  <2> QED
    BY <1>1, <2>1, MoveKept
<1>3. CASE pc[t] # "request"
  <2>1. PermitsBack(t, "panicked") /\ pc[t] \in Decoding
    BY <1>3 DEF Panic, Decoding
  <2> QED
    BY <1>1, <2>1, PermitsBackKept
<1> QED
  BY <1>2, <1>3

LEMMA PermitNextKept ==
  ASSUME PermitInv, Next
  PROVE  PermitInv'
<1>1. ASSUME NEW t \in Threads, NEW s \in Sets, NEW u \in Urls, Preload(t, s, u)
      PROVE  PermitInv'
  <2>1. SameSide(t)
    BY <1>1 DEF Preload, Call, Goto, SameSide, Decoding, PermitInv, Placed
  <2> QED
    BY <2>1, SameSideKept
<1>2. ASSUME NEW t \in Threads, NEW s \in Sets, NEW u \in SvgUrls, NEW size \in Sizes,
             PaintPixels(t, s, u, size) \/ PaintVector(t, s, u, size)
      PROVE  PermitInv'
  <2>1. SameSide(t)
    BY <1>2 DEF PaintPixels, PaintVector, Call, Goto, SameSide, Decoding, PermitInv, Placed
  <2> QED
    BY <2>1, SameSideKept
<1>3. ASSUME NEW t \in Threads, Abort(t) \/ NewRender(t)
      PROVE  PermitInv'
  BY <1>3, PermitStayKept DEF Abort, NewRender, threadVars
<1>4. ASSUME NEW t \in Threads, Step(t)
      PROVE  PermitInv'
  BY <1>4, StepSameSide, SameSideKept, AcquireKept, PermitDropKept, PermitFinishKept
<1>5. ASSUME NEW t \in Threads, Panic(t)
      PROVE  PermitInv'
  BY <1>5, PermitPanicKept
<1>6. ASSUME NEW s \in Sets, Reconfigure(s)
      PROVE  PermitInv'
  BY <1>6, PermitStayKept DEF Reconfigure, threadVars
<1> QED
  BY <1>1, <1>2, <1>3, <1>4, <1>5, <1>6 DEF Next

LEMMA PermitPictureKept ==
  ASSUME PermitInv, NEW t \in Threads, PictureStep(t)
  PROVE  PermitInv'
<1> Placed
  BY DEF PermitInv
<1>1. CASE LockState(t)
  <2>1. SameSide(t)
    BY <1>1 DEF LockState, Goto, SameSide, Decoding, Placed
  <2> QED
    BY <2>1, SameSideKept
<1>2. CASE ReturnUrl(t)
  <2>1. SameSide(t)
    BY <1>2 DEF ReturnUrl, Forget, SameSide, Decoding, Placed
  <2> QED
    BY <2>1, SameSideKept
<1>3. CASE PictureKnown(t)
  <2>1. SameSide(t)
    BY <1>3 DEF PictureKnown, Goto, SameSide, Decoding, Placed
  <2> QED
    BY <2>1, SameSideKept
<1>4. CASE PictureNew(t)
  <2>1. SameSide(t)
    BY <1>4 DEF PictureNew, Goto, SameSide, Decoding, Placed
  <2> QED
    BY <2>1, SameSideKept
<1>5. CASE PictureRegister(t)
  <2>1. SameSide(t)
    BY <1>5 DEF PictureRegister, Goto, SameSide, Decoding, Placed
  <2> QED
    BY <2>1, SameSideKept
<1>6. CASE PictureRoom(t)
  <2>1. SameSide(t)
    BY <1>6 DEF PictureRoom, Goto, SameSide, Decoding, Placed
  <2> QED
    BY <2>1, SameSideKept
<1>7. CASE PictureDecode(t)
  <2>1. SameSide(t)
    BY <1>7 DEF PictureDecode, Goto, SameSide, Decoding, Placed
  <2> QED
    BY <2>1, SameSideKept
<1>8. CASE PictureRelease(t)
  <2>1. PermitsBack(t, "picture complete") /\ pc[t] \in Decoding
    BY <1>8 DEF PictureRelease, Decoding
  <2>2. "picture complete" \notin Decoding
    BY DEF Decoding
  <2> QED
    BY <2>1, <2>2, PermitsBackKept
<1>9. CASE PictureComplete(t)
  <2>1. SameSide(t)
    BY <1>9 DEF PictureComplete, Goto, SameSide, Decoding, Placed
  <2> QED
    BY <2>1, SameSideKept
<1>10. CASE PictureNotify(t)
  <2>1. permits' = permits /\ Placed'
    BY <1>10 DEF PictureNotify, Placed
  <2>2. \A w \in Threads : pc'[w] \in Decoding <=> pc[w] \in Decoding
    BY <1>10 DEF PictureNotify, Decoding
  <2> QED
    BY <2>1, <2>2, BusyKept
<1> QED
  BY <1>1, <1>2, <1>3, <1>4, <1>5, <1>6, <1>7, <1>8, <1>9, <1>10 DEF PictureStep

-----------------------------------------------------------------------------
LEMMA PermitInit == PInit => PermitInv
<1> SUFFICES ASSUME PInit
             PROVE  PermitInv
  OBVIOUS
<1>1. Placed /\ permits = MaxPermits /\ Busy = {}
  BY DEF PInit, Init, Placed, Busy, Decoding
<1>2. Cardinality(Busy) = 0
  BY <1>1, FS_EmptySet
<1>3. MaxPermits \in Nat
  BY ImagesAssumption DEF ImagesAssumption
<1> QED
  BY <1>1, <1>2, <1>3 DEF PermitInv, PermitsCounted, Busy

LEMMA PermitStep == PermitInv /\ [PNext]_allVars => PermitInv'
<1> SUFFICES ASSUME PermitInv, [PNext]_allVars
             PROVE  PermitInv'
  OBVIOUS
<1>1. CASE Next /\ UNCHANGED pictureVars
  BY <1>1, PermitNextKept
<1>2. ASSUME NEW t \in Threads, NEW s \in Sets, NEW u \in Urls, Url(t, s, u)
      PROVE  PermitInv'
  <2>1. SameSide(t)
    BY <1>2 DEF Url, Call, Goto, SameSide, Decoding, PermitInv, Placed
  <2> QED
    BY <2>1, SameSideKept
<1>3. ASSUME NEW t \in Threads, NEW s \in Sets, NEW p \in Pictures, Data(t, s, p)
      PROVE  PermitInv'
  <2>1. SameSide(t)
    BY <1>3 DEF Data, Call, Goto, SameSide, Decoding, PermitInv, Placed
  <2> QED
    BY <2>1, SameSideKept
<1>4. ASSUME NEW t \in Threads, PictureStep(t)
      PROVE  PermitInv'
  BY <1>4, PermitPictureKept
<1>5. ASSUME NEW s \in Sets, DropPictures(s)
      PROVE  PermitInv'
  BY <1>5, PermitStayKept DEF DropPictures, threadVars
<1>6. CASE UNCHANGED allVars
  BY <1>6, PermitStayKept DEF allVars, vars, threadVars
<1> QED
  BY <1>1, <1>2, <1>3, <1>4, <1>5, <1>6 DEF PNext

\* At every moment as many permits are out as decodes run, also across panics
\* and timeouts (ProcessImageBudget).
THEOREM PermitsAlwaysCounted == PSpec => []PermitsCounted
<1>1. PermitInv => PermitsCounted
  BY DEF PermitInv
<1> QED
  BY PermitInit, PermitStep, <1>1, PTL DEF PSpec

----------------------------------------------------------------------------
(* The flights of background images. *)

\* Where only the request of a URL can be; where only a flight can be; and
\* where none can.
RequestPlaces ==
  {"lock", "ask", "look", "payload", "join", "request", "wait", "finish", "remove"}
FlightPlaces == {"join", "request", "wait", "finish", "remove"}
OtherPlaces  ==
  {"pixels", "vector", "picture", "picture register", "picture room", "picture decode",
   "picture release"}

WellFormed(t) ==
  /\ pc[t] \in RequestPlaces => call[t] \in BackgroundCall
  /\ pc[t] \in {"permit", "asleep"} \cup Decoding /\ call[t].for = "background"
       => call[t] \in BackgroundCall
  /\ pc[t] \in FlightPlaces => call[t].url \notin DataUrls
  /\ pc[t] = "payload" => call[t].url \in DataUrls
  /\ pc[t] \in OtherPlaces => call[t].for # "background"

Formed ==
  /\ pc = [t \in Threads |-> pc[t]]
  /\ call = [t \in Threads |-> call[t]]
  /\ \A t \in Threads : WellFormed(t)

Waits(t, s, u) == pc[t] = "wait" /\ call[t].set = s /\ call[t].url = u
Removes(t, s, u) == pc[t] = "remove" /\ call[t].set = s /\ call[t].url = u

\* The thread will take the flight out of the map.
Answers(t, s, u) == Owns(t, s, u) \/ Removes(t, s, u)

FlightStates == {None, "pending", "skipped", "cached"}

\* What holds of the flight of (s, u), said of its threads one by one.
Flight(s, u) ==
  /\ \A t \in Threads : Owns(t, s, u) => inflight[s][u] = "pending" /\ u \notin orphaned[s]
  /\ \A t \in Threads : Removes(t, s, u) => inflight[s][u] \in {"skipped", "cached"}
  /\ inflight[s][u] = "pending" => u \in orphaned[s] \/ \E t \in Threads : Owns(t, s, u)
  /\ u \in orphaned[s] => inflight[s][u] = "pending"
  /\ \A t, w \in Threads : Answers(t, s, u) /\ Answers(w, s, u) => t = w
  /\ \A t \in Threads : Waits(t, s, u) => inflight[s][u] = "pending"

FlightInv ==
  /\ Formed
  /\ inflight \in [Sets -> [Urls -> FlightStates]]
  /\ orphaned \in [Sets -> SUBSET Urls]
  /\ \A s \in Sets, u \in Urls : Flight(s, u)

\* Each thread answers for what it answered for, and waits for nothing new.
SameRoles ==
  \A t \in Threads, s \in Sets, u \in Urls :
    /\ Owns(t, s, u)' <=> Owns(t, s, u)
    /\ Removes(t, s, u)' <=> Removes(t, s, u)
    /\ Waits(t, s, u)' => Waits(t, s, u)

LEMMA RolesKept ==
  ASSUME FlightInv, Formed', SameRoles, UNCHANGED flightVars
  PROVE  FlightInv'
<1>1. inflight' = inflight /\ orphaned' = orphaned
  BY DEF flightVars
<1>2. ASSUME NEW s \in Sets, NEW u \in Urls
      PROVE  Flight(s, u)'
  <2>1. Flight(s, u)
    BY DEF FlightInv
  <2>2. \A t \in Threads : /\ Owns(t, s, u)' <=> Owns(t, s, u)
                           /\ Removes(t, s, u)' <=> Removes(t, s, u)
                           /\ Waits(t, s, u)' => Waits(t, s, u)
                           /\ Answers(t, s, u)' <=> Answers(t, s, u)
    BY DEF SameRoles, Answers
  <2> HIDE DEF Owns, Removes, Waits, Answers
  <2> QED
    BY <1>1, <2>1, <2>2 DEF Flight
<1> QED
  BY <1>1, <1>2 DEF FlightInv, FlightStates

\* One thread moves and the flights stay.
Moves(t) ==
  /\ UNCHANGED flightVars
  /\ pc' = [pc EXCEPT ![t] = pc'[t]]
  /\ call' = [call EXCEPT ![t] = call'[t]]
  /\ WellFormed(t)'
  /\ \A s \in Sets, u \in Urls :
       /\ Owns(t, s, u)' <=> Owns(t, s, u)
       /\ Removes(t, s, u)' <=> Removes(t, s, u)
       /\ Waits(t, s, u)' => Waits(t, s, u)

LEMMA OthersStay ==
  ASSUME Formed, NEW t \in Threads, NEW w \in Threads, w # t,
         pc' = [pc EXCEPT ![t] = pc'[t]], call' = [call EXCEPT ![t] = call'[t]]
  PROVE  /\ WellFormed(w)'
         /\ \A s \in Sets, u \in Urls :
              /\ Owns(w, s, u)' <=> Owns(w, s, u)
              /\ Removes(w, s, u)' <=> Removes(w, s, u)
              /\ Waits(w, s, u)' <=> Waits(w, s, u)
<1>1. pc'[w] = pc[w] /\ call'[w] = call[w] /\ WellFormed(w)
  BY DEF Formed
<1> QED
  BY <1>1 DEF WellFormed, Owns, Removes, Waits, Decoding, RequestPlaces, FlightPlaces,
     OtherPlaces, BackgroundCall, Askers

LEMMA FormedMove ==
  ASSUME Formed, NEW t \in Threads, WellFormed(t)',
         pc' = [pc EXCEPT ![t] = pc'[t]], call' = [call EXCEPT ![t] = call'[t]]
  PROVE  Formed'
<1>1. \A w \in Threads : WellFormed(w)'
  BY OthersStay
<1>2. pc' = [w \in Threads |-> pc'[w]] /\ call' = [w \in Threads |-> call'[w]]
  BY DEF Formed
<1> QED
  BY <1>1, <1>2 DEF Formed

LEMMA MovesKept ==
  ASSUME FlightInv, NEW t \in Threads, Moves(t)
  PROVE  FlightInv'
<1>1. Formed /\ Formed'
  BY FormedMove DEF FlightInv, Moves
<1>2. SameRoles
  BY <1>1, OthersStay DEF Moves, SameRoles
<1> QED
  BY <1>1, <1>2, RolesKept DEF Moves

-----------------------------------------------------------------------------
\* A call starts where its kind starts.
LEMMA CallMoves ==
  ASSUME Formed, NEW t \in Threads, NEW what, NEW place, NEW request,
         Call(t, what, place, request),
         \/ place = "ask" /\ request \in BackgroundCall
         \/ place = "lock" /\ request \in BackgroundCall
         \/ place \in {"pixels", "vector", "picture"} /\ request.for # "background"
  PROVE  Moves(t)
<1>1. /\ pc[t] = "idle" /\ pc' = [pc EXCEPT ![t] = place] /\ pc'[t] = place
      /\ call' = [call EXCEPT ![t] = request] /\ call'[t] = request
      /\ UNCHANGED flightVars
  BY DEF Call, Goto, Formed
<1>2. WellFormed(t)'
  BY <1>1 DEF WellFormed, Decoding, RequestPlaces, FlightPlaces, OtherPlaces, BackgroundCall,
     Askers
<1>3. \A s \in Sets, u \in Urls :
        /\ Owns(t, s, u)' <=> Owns(t, s, u)
        /\ Removes(t, s, u)' <=> Removes(t, s, u)
        /\ Waits(t, s, u)' => Waits(t, s, u)
  BY <1>1 DEF Owns, Removes, Waits, Decoding
<1> QED
  BY <1>1, <1>2, <1>3 DEF Moves

LEMMA AskMoves ==
  ASSUME Formed, NEW t \in Threads, Ask(t)
  PROVE  Moves(t)
<1>1. call[t] \in BackgroundCall
  BY DEF Formed, WellFormed, Ask, RequestPlaces
<1>2. /\ call' = [call EXCEPT ![t].tried = TRUE] /\ call'[t] = [call[t] EXCEPT !.tried = TRUE]
      /\ pc' = [pc EXCEPT ![t] = "look"] /\ pc'[t] = "look" /\ pc[t] = "ask"
      /\ UNCHANGED flightVars
  BY DEF Ask, Goto, Formed
<1>3. call'[t] \in BackgroundCall
  <2> DEFINE c == call[t]
  <2>1. c \in BackgroundCall
    BY <1>1
  <2> HIDE DEF c
  <2>2. TRUE \in BOOLEAN
    OBVIOUS
  <2>3. [c EXCEPT !.tried = TRUE] \in BackgroundCall
    BY <2>1, <2>2, Zenon DEF BackgroundCall
  <2> QED
    BY <1>2, <2>3 DEF c
<1>4. call' = [call EXCEPT ![t] = call'[t]]
  BY <1>2 DEF Formed
<1>5. WellFormed(t)'
  BY <1>2, <1>3 DEF WellFormed, Decoding, RequestPlaces, FlightPlaces, OtherPlaces,
     BackgroundCall, Askers
<1>6. \A s \in Sets, u \in Urls : ~Owns(t, s, u)' /\ ~Removes(t, s, u)' /\ ~Waits(t, s, u)'
  BY <1>2 DEF Owns, Removes, Waits, Decoding
<1>7. \A s \in Sets, u \in Urls : ~Owns(t, s, u) /\ ~Removes(t, s, u)
  BY <1>2 DEF Owns, Removes, Decoding
<1> QED
  BY <1>2, <1>4, <1>5, <1>6, <1>7 DEF Moves

\* A call that is over owns nothing.
LEMMA ForgetMoves ==
  ASSUME Formed, NEW t \in Threads, pc[t] \in {"left", "panicked"}, Forget(t),
         UNCHANGED flightVars
  PROVE  Moves(t)
<1>1. /\ pc' = [pc EXCEPT ![t] = "idle"] /\ pc'[t] = "idle"
      /\ call' = [call EXCEPT ![t] = None] /\ call'[t] = None
  BY DEF Forget, Formed
<1>2. WellFormed(t)'
  BY <1>1 DEF WellFormed, Decoding, RequestPlaces, FlightPlaces, OtherPlaces, BackgroundCall,
     Askers
<1>3. \A s \in Sets, u \in Urls : ~Owns(t, s, u)' /\ ~Removes(t, s, u)' /\ ~Waits(t, s, u)'
  BY <1>1 DEF Owns, Removes, Waits, Decoding
<1>4. \A s \in Sets, u \in Urls : ~Owns(t, s, u) /\ ~Removes(t, s, u)
  BY DEF Owns, Removes, Decoding
<1> QED
  BY <1>1, <1>2, <1>3, <1>4 DEF Moves

\* Where the request of a URL that is no data: URL is the owner of its flight.
Owning == {"request", "permit", "asleep", "finish"} \cup Decoding

\* Only its place changes.
LEMMA PlaceMoves ==
  ASSUME Formed, NEW t \in Threads, NEW place, Goto(t, place),
         UNCHANGED <<call, flightVars>>,
         place \in RequestPlaces => call[t] \in BackgroundCall,
         place \in {"permit", "asleep"} \cup Decoding /\ call[t].for = "background"
           => call[t] \in BackgroundCall,
         place \in FlightPlaces => call[t].url \notin DataUrls,
         place = "payload" => call[t].url \in DataUrls,
         place \in OtherPlaces => call[t].for # "background",
         call[t].for = "background" /\ call[t].url \notin DataUrls =>
           (place \in Owning <=> pc[t] \in Owning),
         place \notin {"remove", "wait"}, pc[t] # "remove"
  PROVE  Moves(t)
<1>1. /\ pc' = [pc EXCEPT ![t] = place] /\ pc'[t] = place
      /\ call' = [call EXCEPT ![t] = call'[t]] /\ call' = call /\ UNCHANGED flightVars
  BY DEF Goto, Formed
<1>2. WellFormed(t)'
  BY <1>1 DEF WellFormed, Decoding, RequestPlaces, FlightPlaces, OtherPlaces, BackgroundCall,
     Askers
<1>3. \A s \in Sets, u \in Urls : Owns(t, s, u)' <=> Owns(t, s, u)
  BY <1>1 DEF Owns, Owning, Decoding
<1>4. \A s \in Sets, u \in Urls :
        ~Removes(t, s, u)' /\ ~Removes(t, s, u) /\ ~Waits(t, s, u)'
  BY <1>1 DEF Removes, Waits
<1> QED
  BY <1>1, <1>2, <1>3, <1>4 DEF Moves

\* A call is over, or waits for a picture, or has made one.
LEMMA LeaveMoves ==
  ASSUME Formed, NEW t \in Threads,
         NEW place \in {"left", "picture wait", "picture notify"}, Goto(t, place),
         UNCHANGED <<call, flightVars>>, pc[t] \notin Owning \cup {"remove"}
  PROVE  Moves(t)
<1>1. place \notin RequestPlaces \cup FlightPlaces \cup OtherPlaces
  BY DEF RequestPlaces, FlightPlaces, OtherPlaces
<1>2. place \notin Owning \cup Decoding \cup {"permit", "asleep", "payload", "remove", "wait"}
  BY DEF Owning, Decoding
<1> QED
  BY <1>1, <1>2, PlaceMoves

\* A decode goes on, under its permit.
LEMMA DecodeMoves ==
  ASSUME Formed, NEW t \in Threads, NEW place \in Decoding \ OtherPlaces, Goto(t, place),
         UNCHANGED <<call, flightVars>>, pc[t] \in Decoding
  PROVE  Moves(t)
<1>1. place \notin RequestPlaces \cup FlightPlaces \cup {"payload", "remove", "wait"}
  BY DEF Decoding, RequestPlaces, FlightPlaces
<1>2. call[t].for = "background" => call[t] \in BackgroundCall
  BY DEF Formed, WellFormed
<1>3. pc[t] # "remove"
  BY DEF Decoding
<1> QED
  BY <1>1, <1>2, <1>3, PlaceMoves DEF Owning

LEMMA PassOverMoves ==
  ASSUME Formed, NEW t \in Threads, PassOver(t)
  PROVE  Moves(t)
<1>1. Goto(t, "left") /\ UNCHANGED <<call, flightVars>> /\ pc[t] = "ask"
  BY DEF PassOver
<1> QED
  BY <1>1, LeaveMoves DEF Owning, Decoding

LEMMA TurnAwayMoves ==
  ASSUME Formed, NEW t \in Threads, TurnAway(t)
  PROVE  Moves(t)
<1>1. Goto(t, "left") /\ UNCHANGED <<call, flightVars>> /\ pc[t] = "ask"
  BY DEF TurnAway
<1> QED
  BY <1>1, LeaveMoves DEF Owning, Decoding

LEMMA LookMoves ==
  ASSUME Formed, NEW t \in Threads, Look(t)
  PROVE  Moves(t)
<1>1. UNCHANGED <<call, flightVars>> /\ pc[t] = "look"
  BY DEF Look, pictureVars
<1>2. \/ Goto(t, "left")
      \/ Goto(t, "payload") /\ call[t].url \in DataUrls
      \/ Goto(t, "join") /\ call[t].url \notin DataUrls
  BY DEF Look
<1>3. CASE Goto(t, "left")
  BY <1>1, <1>3, LeaveMoves DEF Owning, Decoding
<1>4. CASE Goto(t, "payload") /\ call[t].url \in DataUrls
  BY <1>1, <1>4, PlaceMoves DEF Formed, WellFormed, Owning, Decoding, RequestPlaces,
     FlightPlaces, OtherPlaces
<1>5. CASE Goto(t, "join") /\ call[t].url \notin DataUrls
  BY <1>1, <1>5, PlaceMoves DEF Formed, WellFormed, Owning, Decoding, RequestPlaces,
     FlightPlaces, OtherPlaces
<1> QED
  BY <1>2, <1>3, <1>4, <1>5

LEMMA AdmitPayloadMoves ==
  ASSUME Formed, NEW t \in Threads, AdmitPayload(t)
  PROVE  Moves(t)
<1>1. UNCHANGED <<call, flightVars>> /\ pc[t] = "payload"
  BY DEF AdmitPayload, pictureVars
<1>2. Goto(t, "left") \/ Goto(t, "permit")
  BY DEF AdmitPayload
<1>3. CASE Goto(t, "left")
  BY <1>1, <1>3, LeaveMoves DEF Owning, Decoding
<1>4. CASE Goto(t, "permit")
  BY <1>1, <1>4, PlaceMoves DEF Formed, WellFormed, Owning, Decoding, RequestPlaces,
     FlightPlaces, OtherPlaces
<1> QED
  BY <1>2, <1>3, <1>4

LEMMA RequestMoves ==
  ASSUME Formed, NEW t \in Threads, Request(t)
  PROVE  Moves(t)
<1>1. UNCHANGED <<call, flightVars>> /\ pc[t] = "request"
  BY DEF Request, pictureVars
<1>2. Goto(t, "finish") \/ Goto(t, "permit")
  BY DEF Request
<1>3. CASE Goto(t, "finish")
  BY <1>1, <1>3, PlaceMoves DEF Formed, WellFormed, Owning, Decoding, RequestPlaces,
     FlightPlaces, OtherPlaces
<1>4. CASE Goto(t, "permit")
  BY <1>1, <1>4, PlaceMoves DEF Formed, WellFormed, Owning, Decoding, RequestPlaces,
     FlightPlaces, OtherPlaces
<1> QED
  BY <1>2, <1>3, <1>4

LEMMA AcquireMoves ==
  ASSUME Formed, NEW t \in Threads, Acquire(t)
  PROVE  Moves(t)
<1>1. UNCHANGED <<call, flightVars>> /\ pc[t] = "permit"
  BY DEF Acquire, pictureVars
<1>2. \/ Goto(t, "asleep")
      \/ Goto(t, "parse")
      \/ Goto(t, "room")
      \/ Goto(t, "again pixels")
      \/ Goto(t, "again vector")
      \/ Goto(t, "picture room") /\ call[t].for # "background"
  BY DEF Acquire, Granted
<1>3. CASE Goto(t, "asleep")
  BY <1>1, <1>3, PlaceMoves DEF Formed, WellFormed, Owning, Decoding, RequestPlaces,
     FlightPlaces, OtherPlaces
<1>4. CASE Goto(t, "parse")
  BY <1>1, <1>4, PlaceMoves DEF Formed, WellFormed, Owning, Decoding, RequestPlaces,
     FlightPlaces, OtherPlaces
<1>5. CASE Goto(t, "room")
  BY <1>1, <1>5, PlaceMoves DEF Formed, WellFormed, Owning, Decoding, RequestPlaces,
     FlightPlaces, OtherPlaces
<1>6. CASE Goto(t, "again pixels")
  BY <1>1, <1>6, PlaceMoves DEF Formed, WellFormed, Owning, Decoding, RequestPlaces,
     FlightPlaces, OtherPlaces
<1>7. CASE Goto(t, "again vector")
  BY <1>1, <1>7, PlaceMoves DEF Formed, WellFormed, Owning, Decoding, RequestPlaces,
     FlightPlaces, OtherPlaces
<1>8. CASE Goto(t, "picture room") /\ call[t].for # "background"
  BY <1>1, <1>8, PlaceMoves DEF Formed, WellFormed, Owning, Decoding, RequestPlaces,
     FlightPlaces, OtherPlaces
<1> QED
  BY <1>2, <1>3, <1>4, <1>5, <1>6, <1>7, <1>8

LEMMA ParseSourceMoves ==
  ASSUME Formed, NEW t \in Threads, ParseSource(t)
  PROVE  Moves(t)
<1>1. UNCHANGED <<call, flightVars>> /\ pc[t] = "parse"
  BY DEF ParseSource, pictureVars
<1>2. Goto(t, "release")
  BY DEF ParseSource
<1>3. CASE Goto(t, "release")
  BY <1>1, <1>3, DecodeMoves DEF Decoding, OtherPlaces
<1> QED
  BY <1>2, <1>3

LEMMA ReadRoomMoves ==
  ASSUME Formed, NEW t \in Threads, ReadRoom(t)
  PROVE  Moves(t)
<1>1. UNCHANGED <<call, flightVars>> /\ pc[t] \in {"room", "pixels room"}
  BY DEF ReadRoom, pictureVars
<1>2. Goto(t, "raster") \/ Goto(t, "draw")
  BY DEF ReadRoom
<1>3. CASE Goto(t, "raster")
  BY <1>1, <1>3, DecodeMoves DEF Decoding, OtherPlaces
<1>4. CASE Goto(t, "draw")
  BY <1>1, <1>4, DecodeMoves DEF Decoding, OtherPlaces
<1> QED
  BY <1>2, <1>3, <1>4

LEMMA DecodeRasterMoves ==
  ASSUME Formed, NEW t \in Threads, DecodeRaster(t)
  PROVE  Moves(t)
<1>1. UNCHANGED <<call, flightVars>> /\ pc[t] = "raster"
  BY DEF DecodeRaster, pictureVars
<1>2. Goto(t, "release")
  BY DEF DecodeRaster
<1>3. CASE Goto(t, "release")
  BY <1>1, <1>3, DecodeMoves DEF Decoding, OtherPlaces
<1> QED
  BY <1>2, <1>3

LEMMA LookForPixelsMoves ==
  ASSUME Formed, NEW t \in Threads, LookForPixels(t)
  PROVE  Moves(t)
<1>1. UNCHANGED <<call, flightVars>>
  BY DEF LookForPixels
<1>2. CASE pc[t] = "pixels"
  <2>1. Goto(t, "left") \/ Goto(t, "permit")
    BY <1>2 DEF LookForPixels
  <2>2. CASE Goto(t, "left")
    BY <1>1, <1>2, <2>2, LeaveMoves DEF Owning, Decoding
  <2>3. CASE Goto(t, "permit")
    BY <1>1, <1>2, <2>3, PlaceMoves DEF Formed, WellFormed, Owning, Decoding, RequestPlaces,
       FlightPlaces, OtherPlaces
  <2> QED
    BY <2>1, <2>2, <2>3
<1>3. CASE pc[t] = "again pixels"
  <2>1. Goto(t, "release") \/ Goto(t, "pixels room")
    BY <1>3 DEF LookForPixels
  <2> QED
    BY <1>1, <1>3, <2>1, DecodeMoves DEF Decoding, OtherPlaces
<1> QED
  BY <1>2, <1>3 DEF LookForPixels

LEMMA DrawPixelsMoves ==
  ASSUME Formed, NEW t \in Threads, DrawPixels(t)
  PROVE  Moves(t)
<1>1. UNCHANGED <<call, flightVars>> /\ pc[t] = "draw"
  BY DEF DrawPixels, pictureVars
<1>2. Goto(t, "release")
  BY DEF DrawPixels
<1>3. CASE Goto(t, "release")
  BY <1>1, <1>3, DecodeMoves DEF Decoding, OtherPlaces
<1> QED
  BY <1>2, <1>3

LEMMA LookForSceneMoves ==
  ASSUME Formed, NEW t \in Threads, LookForScene(t)
  PROVE  Moves(t)
<1>1. UNCHANGED <<call, flightVars>> /\ pc[t] = "vector"
  BY DEF LookForScene, pictureVars
<1>2. Goto(t, "left") \/ Goto(t, "permit")
  BY DEF LookForScene
<1>3. CASE Goto(t, "left")
  BY <1>1, <1>3, LeaveMoves DEF Owning, Decoding
<1>4. CASE Goto(t, "permit")
  BY <1>1, <1>4, PlaceMoves DEF Formed, WellFormed, Owning, Decoding, RequestPlaces,
     FlightPlaces, OtherPlaces
<1> QED
  BY <1>2, <1>3, <1>4

LEMMA LookForSceneAgainMoves ==
  ASSUME Formed, NEW t \in Threads, LookForSceneAgain(t)
  PROVE  Moves(t)
<1>1. UNCHANGED <<call, flightVars>> /\ pc[t] = "again vector"
  BY DEF LookForSceneAgain, pictureVars
<1>2. Goto(t, "release") \/ Goto(t, "build")
  BY DEF LookForSceneAgain
<1>3. CASE Goto(t, "release")
  BY <1>1, <1>3, DecodeMoves DEF Decoding, OtherPlaces
<1>4. CASE Goto(t, "build")
  BY <1>1, <1>4, DecodeMoves DEF Decoding, OtherPlaces
<1> QED
  BY <1>2, <1>3, <1>4

LEMMA BuildSceneMoves ==
  ASSUME Formed, NEW t \in Threads, BuildScene(t)
  PROVE  Moves(t)
<1>1. UNCHANGED <<call, flightVars>> /\ pc[t] = "build"
  BY DEF BuildScene, pictureVars
<1>2. Goto(t, "release")
  BY DEF BuildScene
<1>3. CASE Goto(t, "release")
  BY <1>1, <1>3, DecodeMoves DEF Decoding, OtherPlaces
<1> QED
  BY <1>2, <1>3

LEMMA LockStateMoves ==
  ASSUME Formed, NEW t \in Threads, LockState(t)
  PROVE  Moves(t)
<1>1. UNCHANGED <<call, flightVars>> /\ pc[t] = "lock"
  BY DEF LockState, pictureVars
<1>2. Goto(t, "ask")
  BY DEF LockState
<1>3. CASE Goto(t, "ask")
  BY <1>1, <1>3, PlaceMoves DEF Formed, WellFormed, Owning, Decoding, RequestPlaces,
     FlightPlaces, OtherPlaces
<1> QED
  BY <1>2, <1>3

LEMMA PictureKnownMoves ==
  ASSUME Formed, NEW t \in Threads, PictureKnown(t)
  PROVE  Moves(t)
<1>1. UNCHANGED <<call, flightVars>> /\ pc[t] \in {"picture", "picture register"}
  BY DEF PictureKnown, pictureVars
<1>2. Goto(t, "left") \/ Goto(t, "picture wait")
  BY DEF PictureKnown
<1>3. CASE Goto(t, "left")
  BY <1>1, <1>3, LeaveMoves DEF Owning, Decoding
<1>4. CASE Goto(t, "picture wait")
  BY <1>1, <1>4, LeaveMoves DEF Owning, Decoding
<1> QED
  BY <1>2, <1>3, <1>4

LEMMA PictureNewMoves ==
  ASSUME Formed, NEW t \in Threads, PictureNew(t)
  PROVE  Moves(t)
<1>1. UNCHANGED <<call, flightVars>> /\ pc[t] = "picture"
  BY DEF PictureNew, pictureVars
<1>2. Goto(t, "left") \/ Goto(t, "picture register")
  BY DEF PictureNew
<1>3. CASE Goto(t, "left")
  BY <1>1, <1>3, LeaveMoves DEF Owning, Decoding
<1>4. CASE Goto(t, "picture register")
  BY <1>1, <1>4, PlaceMoves DEF Formed, WellFormed, Owning, Decoding, RequestPlaces,
     FlightPlaces, OtherPlaces
<1> QED
  BY <1>2, <1>3, <1>4

LEMMA PictureRegisterMoves ==
  ASSUME Formed, NEW t \in Threads, PictureRegister(t)
  PROVE  Moves(t)
<1>1. UNCHANGED <<call, flightVars>> /\ pc[t] = "picture register"
  BY DEF PictureRegister, pictureVars
<1>2. Goto(t, "left") \/ Goto(t, "permit")
  BY DEF PictureRegister
<1>3. CASE Goto(t, "left")
  BY <1>1, <1>3, LeaveMoves DEF Owning, Decoding
<1>4. CASE Goto(t, "permit")
  BY <1>1, <1>4, PlaceMoves DEF Formed, WellFormed, Owning, Decoding, RequestPlaces,
     FlightPlaces, OtherPlaces
<1> QED
  BY <1>2, <1>3, <1>4

LEMMA PictureRoomMoves ==
  ASSUME Formed, NEW t \in Threads, PictureRoom(t)
  PROVE  Moves(t)
<1>1. UNCHANGED <<call, flightVars>> /\ pc[t] = "picture room"
  BY DEF PictureRoom, pictureVars
<1>2. Goto(t, "picture decode")
  BY DEF PictureRoom
<1>3. CASE Goto(t, "picture decode")
  BY <1>1, <1>3, PlaceMoves DEF Formed, WellFormed, Owning, Decoding, RequestPlaces,
     FlightPlaces, OtherPlaces
<1> QED
  BY <1>2, <1>3

LEMMA PictureDecodeMoves ==
  ASSUME Formed, NEW t \in Threads, PictureDecode(t)
  PROVE  Moves(t)
<1>1. UNCHANGED <<call, flightVars>> /\ pc[t] = "picture decode"
  BY DEF PictureDecode, pictureVars
<1>2. Goto(t, "picture release")
  BY DEF PictureDecode
<1>3. CASE Goto(t, "picture release")
  BY <1>1, <1>3, PlaceMoves DEF Formed, WellFormed, Owning, Decoding, RequestPlaces,
     FlightPlaces, OtherPlaces
<1> QED
  BY <1>2, <1>3

LEMMA PictureCompleteMoves ==
  ASSUME Formed, NEW t \in Threads, PictureComplete(t)
  PROVE  Moves(t)
<1>1. UNCHANGED <<call, flightVars>> /\ pc[t] = "picture complete"
  BY DEF PictureComplete, pictureVars
<1>2. Goto(t, "picture notify")
  BY DEF PictureComplete
<1>3. CASE Goto(t, "picture notify")
  BY <1>1, <1>3, LeaveMoves DEF Owning, Decoding
<1> QED
  BY <1>2, <1>3

-----------------------------------------------------------------------------
\* The other threads answer and wait for what they did.
Elsewhere(t) ==
  \A w \in Threads \ {t}, s \in Sets, u \in Urls :
    /\ Owns(w, s, u)' <=> Owns(w, s, u)
    /\ Removes(w, s, u)' <=> Removes(w, s, u)
    /\ Waits(w, s, u)' <=> Waits(w, s, u)

\* No part of the thread in the flight of (s, u), before or after the step.
Apart(t, s, u) ==
  /\ ~Owns(t, s, u) /\ ~Removes(t, s, u)
  /\ ~Owns(t, s, u)' /\ ~Removes(t, s, u)' /\ ~Waits(t, s, u)'

LEMMA ApartKept ==
  ASSUME NEW t \in Threads, NEW s \in Sets, NEW u \in Urls, Flight(s, u), Elsewhere(t),
         Apart(t, s, u), inflight'[s][u] = inflight[s][u],
         u \in orphaned'[s] <=> u \in orphaned[s]
  PROVE  Flight(s, u)'
<1>1. \A w \in Threads : /\ Owns(w, s, u)' <=> Owns(w, s, u)
                         /\ Removes(w, s, u)' <=> Removes(w, s, u)
                         /\ Waits(w, s, u)' => Waits(w, s, u)
  BY DEF Elsewhere, Apart
<1> HIDE DEF Owns, Removes, Waits
<1> QED
  BY <1>1 DEF Flight, Answers

\* One flight is written.
LEMMA WriteKept ==
  ASSUME FlightInv, Formed', NEW t \in Threads, Elsewhere(t),
         NEW v \in Sets, NEW y \in Urls, NEW state \in FlightStates,
         inflight' = [inflight EXCEPT ![v][y] = state], orphaned' = orphaned,
         \A s \in Sets, u \in Urls : s # v \/ u # y => Apart(t, s, u),
         Flight(v, y)'
  PROVE  FlightInv'
<1>1. inflight' \in [Sets -> [Urls -> FlightStates]] /\ orphaned' \in [Sets -> SUBSET Urls]
  BY DEF FlightInv
<1>2. ASSUME NEW s \in Sets, NEW u \in Urls, s # v \/ u # y
      PROVE  Flight(s, u)'
  <2>1. inflight'[s][u] = inflight[s][u] /\ orphaned'[s] = orphaned[s]
    BY <1>2 DEF FlightInv
  <2>2. Flight(s, u) /\ Apart(t, s, u)
    BY <1>2 DEF FlightInv
  <2> QED
    BY <2>1, <2>2, ApartKept
<1> QED
  BY <1>1, <1>2 DEF FlightInv, FlightStates

LEMMA GotoElsewhere ==
  ASSUME Formed, NEW t \in Threads, NEW place, Goto(t, place), call' = call
  PROVE  /\ Elsewhere(t) /\ pc'[t] = place
         /\ pc' = [pc EXCEPT ![t] = pc'[t]] /\ call' = [call EXCEPT ![t] = call'[t]]
<1>1. /\ pc' = [pc EXCEPT ![t] = pc'[t]] /\ pc'[t] = place
      /\ call' = [call EXCEPT ![t] = call'[t]]
  BY DEF Goto, Formed
<1>2. Elsewhere(t)
  BY <1>1, OthersStay DEF Elsewhere
<1> QED
  BY <1>1, <1>2

\* The call of a thread in a flight, and the flight it is in.
LEMMA InFlight ==
  ASSUME FlightInv, NEW t \in Threads, pc[t] \in FlightPlaces
  PROVE  /\ call[t] \in BackgroundCall /\ call[t].set \in Sets /\ call[t].url \in Urls
         /\ call[t].for = "background" /\ call[t].url \notin DataUrls
         /\ Flight(call[t].set, call[t].url)
<1>1. call[t] \in BackgroundCall /\ call[t].url \notin DataUrls
  BY DEF FlightInv, Formed, WellFormed, FlightPlaces, RequestPlaces
<1>2. call[t].set \in Sets /\ call[t].url \in Urls /\ call[t].for = "background"
  BY <1>1 DEF BackgroundCall
<1> QED
  BY <1>1, <1>2 DEF FlightInv

LEMMA JoinOwnerKept ==
  ASSUME FlightInv, NEW t \in Threads, JoinOwner(t)
  PROVE  FlightInv'
<1>1. PICK v \in Sets, y \in Urls :
        /\ v = call[t].set /\ y = call[t].url /\ y \notin DataUrls /\ Flight(v, y)
        /\ call[t] \in BackgroundCall /\ call[t].for = "background"
  BY InFlight DEF JoinOwner, FlightPlaces
<1>2. /\ pc[t] = "join" /\ inflight[v][y] = None /\ call' = call /\ orphaned' = orphaned
      /\ inflight' = [inflight EXCEPT ![v][y] = "pending"] /\ Goto(t, "request")
  BY <1>1 DEF JoinOwner
<1>3. Formed /\ Elsewhere(t) /\ pc'[t] = "request"
  BY <1>2, GotoElsewhere DEF FlightInv
<1>4. Formed'
  <2>1. WellFormed(t)'
    BY <1>1, <1>2, <1>3 DEF WellFormed, Decoding, RequestPlaces, FlightPlaces, OtherPlaces,
       BackgroundCall, Askers
  <2> QED
    BY <1>2, <1>3, <2>1, GotoElsewhere, FormedMove
<1>5. \A s \in Sets, u \in Urls : s # v \/ u # y => Apart(t, s, u)
  BY <1>1, <1>2, <1>3 DEF Apart, Owns, Removes, Waits, Decoding
<1>6. Owns(t, v, y)' /\ ~Removes(t, v, y)' /\ ~Waits(t, v, y)'
  BY <1>1, <1>2, <1>3 DEF Owns, Removes, Waits
<1>7. None # "pending" /\ None \notin {"skipped", "cached"}
  BY ImagesAssumption DEF ImagesAssumption
<1>8. inflight'[v][y] = "pending" /\ y \notin orphaned'[v]
  BY <1>1, <1>2, <1>7 DEF Flight, FlightInv
<1>9. \A w \in Threads : ~Answers(w, v, y) /\ ~Waits(w, v, y)
  BY <1>1, <1>2, <1>7 DEF Flight, Answers
<1>10. \A w \in Threads \ {t} : ~Owns(w, v, y)' /\ ~Removes(w, v, y)' /\ ~Waits(w, v, y)'
  BY <1>3, <1>9 DEF Elsewhere, Answers
<1>11. Flight(v, y)'
  <2> HIDE DEF Owns, Removes, Waits
  <2> QED
    BY <1>6, <1>8, <1>10 DEF Flight, Answers
<1>12. "pending" \in FlightStates
  BY DEF FlightStates
<1> QED
  BY <1>2, <1>3, <1>4, <1>5, <1>11, <1>12, WriteKept

\* Whoever waits joins a flight that is pending.
LEMMA JoinWaiterKept ==
  ASSUME FlightInv, NEW t \in Threads, JoinWaiter(t)
  PROVE  FlightInv'
<1>1. PICK v \in Sets, y \in Urls :
        /\ v = call[t].set /\ y = call[t].url /\ y \notin DataUrls /\ Flight(v, y)
        /\ call[t] \in BackgroundCall
  BY InFlight DEF JoinWaiter, FlightPlaces
<1>2. /\ pc[t] = "join" /\ call' = call /\ UNCHANGED flightVars
      /\ inflight' = inflight /\ orphaned' = orphaned
      /\ Goto(t, IF inflight[v][y] = "pending" THEN "wait" ELSE "left")
  BY <1>1 DEF JoinWaiter, flightVars
<1>3. /\ Formed /\ Elsewhere(t)
      /\ pc'[t] = IF inflight[v][y] = "pending" THEN "wait" ELSE "left"
  BY <1>2, GotoElsewhere DEF FlightInv
<1>4. Formed'
  <2>1. WellFormed(t)'
    BY <1>1, <1>2, <1>3 DEF WellFormed, Decoding, RequestPlaces, FlightPlaces, OtherPlaces,
       BackgroundCall, Askers
  <2> QED
    BY <1>2, <1>3, <2>1, GotoElsewhere, FormedMove
<1>5. ASSUME NEW s \in Sets, NEW u \in Urls
      PROVE  Flight(s, u)'
  <2>1. \A w \in Threads : /\ Owns(w, s, u)' <=> Owns(w, s, u)
                           /\ Removes(w, s, u)' <=> Removes(w, s, u)
    <3>1. ~Owns(t, s, u) /\ ~Owns(t, s, u)' /\ ~Removes(t, s, u) /\ ~Removes(t, s, u)'
      BY <1>2, <1>3 DEF Owns, Removes, Decoding
    <3> QED
      BY <1>3, <3>1 DEF Elsewhere
  <2>2. \A w \in Threads : Waits(w, s, u)' => Waits(w, s, u) \/ inflight[s][u] = "pending"
    <3>1. Waits(t, s, u)' => inflight[s][u] = "pending"
      BY <1>1, <1>2, <1>3 DEF Waits
    <3> QED
      BY <1>3, <3>1 DEF Elsewhere
  <2>3. Flight(s, u)
    BY DEF FlightInv
  <2> HIDE DEF Owns, Removes, Waits
  <2> QED
    BY <1>2, <2>1, <2>2, <2>3 DEF Flight, Answers
<1> QED
  BY <1>2, <1>4, <1>5 DEF FlightInv, FlightStates

\* The owner answers those who wait and turns to the map.
LEMMA FinishKept ==
  ASSUME FlightInv, NEW t \in Threads, Finish(t)
  PROVE  FlightInv'
<1>1. PICK v \in Sets, y \in Urls :
        /\ v = call[t].set /\ y = call[t].url /\ y \notin DataUrls /\ Flight(v, y)
        /\ call[t] \in BackgroundCall /\ call[t].for = "background"
  BY InFlight DEF Finish, FlightPlaces
<1>2. PICK state \in {"skipped", "cached"} :
        inflight' = [inflight EXCEPT ![v][y] = state]
  BY <1>1 DEF Finish
<1>3. /\ pc[t] = "finish" /\ call' = call /\ orphaned' = orphaned
      /\ pc' = [w \in Threads |-> IF w = t THEN "remove"
                                  ELSE IF w \in Waiters(v, y) THEN "left" ELSE pc[w]]
  BY <1>1 DEF Finish
<1>4. \A w \in Threads : pc'[w] = pc[w] \/ (w # t /\ pc[w] = "wait" /\ pc'[w] = "left")
                           \/ (w = t /\ pc'[w] = "remove")
  BY <1>3 DEF Waiters
<1>5. Formed'
  <2>1. WellFormed(t)'
    BY <1>1, <1>3 DEF WellFormed, Decoding, RequestPlaces, FlightPlaces, OtherPlaces,
       BackgroundCall, Askers
  <2>2. ASSUME NEW w \in Threads, w # t
        PROVE  WellFormed(w)'
    <3>1. WellFormed(w) /\ call'[w] = call[w]
      BY <1>3 DEF FlightInv, Formed
    <3>2. CASE pc'[w] = pc[w]
      BY <3>1, <3>2 DEF WellFormed, Decoding, RequestPlaces, FlightPlaces, OtherPlaces,
         BackgroundCall, Askers
    <3>3. CASE pc'[w] = "left"
      BY <3>3 DEF WellFormed, Decoding, RequestPlaces, FlightPlaces, OtherPlaces
    <3> QED
      BY <1>4, <2>2, <3>2, <3>3
  <2>3. pc' = [w \in Threads |-> pc'[w]] /\ call' = [w \in Threads |-> call'[w]]
    BY <1>3 DEF FlightInv, Formed
  <2> QED
    BY <2>1, <2>2, <2>3 DEF Formed
<1>6. Owns(t, v, y)
  BY <1>1, <1>3 DEF Owns
<1>7. ASSUME NEW s \in Sets, NEW u \in Urls
      PROVE  Flight(s, u)'
  <2>1. Flight(s, u)
    BY DEF FlightInv
  <2>2. \A w \in Threads \ {t} : /\ Owns(w, s, u)' <=> Owns(w, s, u)
                                 /\ Removes(w, s, u)' <=> Removes(w, s, u)
                                 /\ Waits(w, s, u)' => Waits(w, s, u)
    <3> SUFFICES ASSUME NEW w \in Threads \ {t}
                 PROVE  /\ Owns(w, s, u)' <=> Owns(w, s, u)
                        /\ Removes(w, s, u)' <=> Removes(w, s, u)
                        /\ Waits(w, s, u)' => Waits(w, s, u)
      OBVIOUS
    <3>1. call'[w] = call[w] /\ (pc'[w] = pc[w] \/ (pc[w] = "wait" /\ pc'[w] = "left"))
      BY <1>3, <1>4
    <3>2. Owns(w, s, u)' <=> Owns(w, s, u)
      BY <3>1 DEF Owns, Decoding
    <3>3. Removes(w, s, u)' <=> Removes(w, s, u)
      BY <3>1 DEF Removes
    <3>4. Waits(w, s, u)' => Waits(w, s, u)
      BY <3>1 DEF Waits
    <3> QED
      BY <3>2, <3>3, <3>4
  <2>3. CASE s = v /\ u = y
    <3>1. inflight'[s][u] = state /\ u \notin orphaned'[s]
      BY <1>1, <1>2, <1>3, <1>6, <2>3 DEF FlightInv, Flight
    <3>2. ~Owns(t, s, u)' /\ Removes(t, s, u)' /\ ~Waits(t, s, u)'
      BY <1>1, <1>3, <2>3 DEF Owns, Removes, Waits, Decoding
    <3>3. \A w \in Threads \ {t} : ~Waits(w, s, u)'
      BY <1>3, <2>3 DEF Waits, Waiters
    <3>4. \A w \in Threads \ {t} : ~Answers(w, s, u)
      BY <1>1, <1>6, <2>3 DEF Flight, Answers
    <3>5. \A w \in Threads \ {t} : ~Owns(w, s, u)' /\ ~Removes(w, s, u)'
      BY <2>2, <3>4 DEF Answers
    <3> HIDE DEF Owns, Removes, Waits
    <3> QED
      BY <3>1, <3>2, <3>3, <3>5 DEF Flight, Answers
  <2>4. CASE s # v \/ u # y
    <3>1. ~Owns(t, s, u) /\ ~Removes(t, s, u) /\ ~Owns(t, s, u)' /\ ~Removes(t, s, u)'
          /\ ~Waits(t, s, u)'
      BY <1>1, <1>3, <2>4 DEF Owns, Removes, Waits, Decoding
    <3>2. inflight'[s][u] = inflight[s][u] /\ orphaned' = orphaned
      BY <1>2, <1>3, <2>4 DEF FlightInv
    <3> HIDE DEF Owns, Removes, Waits
    <3> QED
      BY <2>1, <2>2, <3>1, <3>2 DEF Flight, Answers
  <2> QED
    BY <2>3, <2>4
<1>8. inflight' \in [Sets -> [Urls -> FlightStates]] /\ orphaned' \in [Sets -> SUBSET Urls]
  BY <1>2, <1>3 DEF FlightInv, FlightStates
<1> QED
  BY <1>5, <1>7, <1>8 DEF FlightInv, FlightStates

LEMMA RemoveFlightKept ==
  ASSUME FlightInv, NEW t \in Threads, RemoveFlight(t)
  PROVE  FlightInv'
<1>1. PICK v \in Sets, y \in Urls :
        /\ v = call[t].set /\ y = call[t].url /\ y \notin DataUrls /\ Flight(v, y)
        /\ call[t] \in BackgroundCall /\ call[t].for = "background"
  BY InFlight DEF RemoveFlight, FlightPlaces
<1>2. /\ pc[t] = "remove" /\ call' = call /\ orphaned' = orphaned
      /\ inflight' = [inflight EXCEPT ![v][y] = None] /\ Goto(t, "left")
  BY <1>1 DEF RemoveFlight
<1>3. Formed /\ Elsewhere(t) /\ pc'[t] = "left"
  BY <1>2, GotoElsewhere DEF FlightInv
<1>4. Formed'
  <2>1. WellFormed(t)'
    BY <1>3 DEF WellFormed, Decoding, RequestPlaces, FlightPlaces, OtherPlaces
  <2> QED
    BY <1>2, <1>3, <2>1, GotoElsewhere, FormedMove
<1>5. \A s \in Sets, u \in Urls : s # v \/ u # y => Apart(t, s, u)
  BY <1>1, <1>2, <1>3 DEF Apart, Owns, Removes, Waits, Decoding
<1>6. Removes(t, v, y) /\ ~Owns(t, v, y)' /\ ~Removes(t, v, y)' /\ ~Waits(t, v, y)'
  BY <1>1, <1>2, <1>3 DEF Owns, Removes, Waits, Decoding
<1>7. None # "pending"
  BY ImagesAssumption DEF ImagesAssumption
<1>8. inflight'[v][y] = None /\ y \notin orphaned'[v]
  BY <1>1, <1>2, <1>6 DEF Flight, FlightInv
<1>9. \A w \in Threads \ {t} : ~Answers(w, v, y) /\ ~Waits(w, v, y)
  BY <1>1, <1>6 DEF Flight, Answers
<1>10. \A w \in Threads \ {t} : ~Owns(w, v, y)' /\ ~Removes(w, v, y)' /\ ~Waits(w, v, y)'
  BY <1>3, <1>9 DEF Elsewhere, Answers
<1>11. Flight(v, y)'
  <2> HIDE DEF Owns, Removes, Waits
  <2> QED
    BY <1>6, <1>7, <1>8, <1>10 DEF Flight, Answers
<1>12. None \in FlightStates
  BY DEF FlightStates
<1> QED
  BY <1>2, <1>3, <1>4, <1>5, <1>11, <1>12, WriteKept

\* A thread gives its permit back and wakes another.
LEMMA BackRoles ==
  ASSUME Formed, NEW t \in Threads,
         NEW place \in {"left", "finish", "picture complete", "panicked"},
         PermitsBack(t, place), call' = call, pc[t] \in Decoding,
         place = "finish" => call[t] \in BackgroundCall /\ call[t].url \notin DataUrls
  PROVE  Formed' /\ Elsewhere(t) /\ pc'[t] = place
<1>1. /\ pc' = [w \in Threads |-> pc'[w]] /\ pc'[t] = place
      /\ \A w \in Threads \ {t} : pc'[w] = pc[w] \/ (pc[w] = "asleep" /\ pc'[w] = "permit")
  <2>1. CASE Goto(t, place)
    BY <2>1 DEF Formed, Goto
  <2>2. ASSUME NEW w \in Asleep, pc' = [pc EXCEPT ![t] = place, ![w] = "permit"]
        PROVE  /\ pc' = [x \in Threads |-> pc'[x]] /\ pc'[t] = place
               /\ \A x \in Threads \ {t} :
                    pc'[x] = pc[x] \/ (pc[x] = "asleep" /\ pc'[x] = "permit")
    <3>1. w \in Threads /\ w # t /\ pc[w] = "asleep"
      BY DEF Asleep, Decoding
    <3>2. pc' = [x \in Threads |-> IF x = w THEN "permit" ELSE IF x = t THEN place ELSE pc[x]]
      BY <2>2, <3>1 DEF Formed
    <3> QED
      BY <3>1, <3>2
  <2> QED
    BY <2>1, <2>2 DEF PermitsBack
<1>2. WellFormed(t)'
  BY <1>1 DEF WellFormed, Decoding, RequestPlaces, FlightPlaces, OtherPlaces, BackgroundCall,
     Askers
<1>3. ASSUME NEW w \in Threads, w # t
      PROVE  /\ WellFormed(w)'
             /\ \A s \in Sets, u \in Urls :
                  /\ Owns(w, s, u)' <=> Owns(w, s, u)
                  /\ Removes(w, s, u)' <=> Removes(w, s, u)
                  /\ Waits(w, s, u)' <=> Waits(w, s, u)
  <2>1. CASE pc'[w] = pc[w]
    BY <2>1 DEF Formed, WellFormed, Owns, Removes, Waits, Decoding, RequestPlaces,
       FlightPlaces, OtherPlaces, BackgroundCall, Askers
  <2>2. CASE pc[w] = "asleep" /\ pc'[w] = "permit"
    BY <2>2 DEF Formed, WellFormed, Owns, Removes, Waits, Decoding, RequestPlaces,
       FlightPlaces, OtherPlaces, BackgroundCall, Askers
  <2> QED
    BY <1>1, <1>3, <2>1, <2>2
<1>4. call' = [w \in Threads |-> call'[w]]
  BY DEF Formed
<1> QED
  BY <1>1, <1>2, <1>3, <1>4 DEF Formed, Elsewhere

LEMMA BackKept ==
  ASSUME FlightInv, NEW t \in Threads,
         NEW place \in {"left", "finish", "picture complete"},
         PermitsBack(t, place), UNCHANGED <<call, flightVars>>, pc[t] \in Decoding,
         place = "finish" <=> call[t].for = "background" /\ call[t].url \notin DataUrls
  PROVE  FlightInv'
<1>1. Formed /\ call' = call
  BY DEF FlightInv
<1>2. place = "finish" => call[t] \in BackgroundCall /\ call[t].url \notin DataUrls
  BY <1>1 DEF Formed, WellFormed
<1>3. Formed' /\ Elsewhere(t) /\ pc'[t] = place
  BY <1>1, <1>2, BackRoles
<1>4. \A s \in Sets, u \in Urls : /\ Owns(t, s, u)' <=> Owns(t, s, u)
                                  /\ Removes(t, s, u)' <=> Removes(t, s, u)
                                  /\ Waits(t, s, u)' => Waits(t, s, u)
  BY <1>1, <1>3 DEF Owns, Removes, Waits, Decoding
<1>5. SameRoles
  BY <1>3, <1>4 DEF SameRoles, Elsewhere
<1> QED
  BY <1>3, <1>5, RolesKept

LEMMA DropPermitKept ==
  ASSUME FlightInv, NEW t \in Threads, DropPermit(t)
  PROVE  FlightInv'
<1>1. PICK place \in {"left", "finish"} :
        /\ PermitsBack(t, place)
        /\ place = "finish" <=> call[t].for = "background" /\ call[t].url \notin DataUrls
  <2>1. CASE call[t].for = "background" /\ call[t].url \notin DataUrls
    BY <2>1 DEF DropPermit, AfterDecode
  <2>2. CASE ~(call[t].for = "background" /\ call[t].url \notin DataUrls)
    BY <2>2 DEF DropPermit, AfterDecode
  <2> QED
    BY <2>1, <2>2
<1>2. pc[t] \in Decoding /\ UNCHANGED <<call, flightVars>>
  BY DEF DropPermit, Decoding
<1> QED
  BY <1>1, <1>2, BackKept

LEMMA PictureReleaseKept ==
  ASSUME FlightInv, NEW t \in Threads, PictureRelease(t)
  PROVE  FlightInv'
<1>1. /\ PermitsBack(t, "picture complete") /\ pc[t] = "picture release"
      /\ UNCHANGED <<call, flightVars>>
  BY DEF PictureRelease
<1>2. pc[t] \in Decoding
  BY <1>1 DEF Decoding
<1>3. call[t].for # "background"
  BY <1>1 DEF FlightInv, Formed, WellFormed, OtherPlaces
<1> QED
  BY <1>1, <1>2, <1>3, BackKept

\* The flight of an owner that panics is orphaned where it is.
LEMMA PanicKept ==
  ASSUME FlightInv, NEW t \in Threads, Panic(t)
  PROVE  FlightInv'
<1>1. Formed /\ call' = call /\ inflight' = inflight
  BY DEF FlightInv, Panic, LeavesFlight
<1>2. Formed' /\ Elsewhere(t) /\ pc'[t] = "panicked"
  <2>1. CASE pc[t] = "request"
    <3>1. Goto(t, "panicked")
      BY <2>1 DEF Panic
    <3>2. Elsewhere(t) /\ pc'[t] = "panicked"
      BY <1>1, <3>1, GotoElsewhere
    <3>3. WellFormed(t)'
      BY <3>2 DEF WellFormed, Decoding, RequestPlaces, FlightPlaces, OtherPlaces
    <3> QED
      BY <1>1, <3>1, <3>2, <3>3, GotoElsewhere, FormedMove
  <2>2. CASE pc[t] # "request"
    <3>1. PermitsBack(t, "panicked") /\ pc[t] \in Decoding
      BY <2>2 DEF Panic, Decoding
    <3> QED
      BY <1>1, <3>1, BackRoles
  <2> QED
    BY <2>1, <2>2
<1>3. pc[t] \in {"request"} \cup Decoding /\ pc[t] \notin {"remove", "wait"}
  BY DEF Panic, Decoding
<1>4. \A s \in Sets, u \in Urls : ~Owns(t, s, u)' /\ ~Removes(t, s, u)' /\ ~Waits(t, s, u)'
                                    /\ ~Removes(t, s, u)
  BY <1>2, <1>3 DEF Owns, Removes, Waits, Decoding
<1>5. CASE call[t].for = "background" /\ call[t].url \notin DataUrls
  <2>1. call[t] \in BackgroundCall
    BY <1>1, <1>3, <1>5 DEF Formed, WellFormed, RequestPlaces
  <2>2. PICK v \in Sets, y \in Urls : v = call[t].set /\ y = call[t].url
    BY <2>1 DEF BackgroundCall
  <2>3. orphaned' = [orphaned EXCEPT ![v] = @ \cup {y}]
    BY <1>5, <2>2 DEF Panic, LeavesFlight
  <2>4. Owns(t, v, y)
    BY <1>3, <1>5, <2>2 DEF Owns
  <2>5. orphaned' \in [Sets -> SUBSET Urls]
    BY <2>2, <2>3 DEF FlightInv
  <2>6. ASSUME NEW s \in Sets, NEW u \in Urls
        PROVE  Flight(s, u)'
    <3>1. Flight(s, u)
      BY DEF FlightInv
    <3>2. CASE s = v /\ u = y
      <4>1. inflight'[s][u] = "pending" /\ u \in orphaned'[s]
        BY <1>1, <2>3, <2>4, <3>1, <3>2 DEF FlightInv, Flight
      <4>2. \A w \in Threads \ {t} : ~Answers(w, s, u)
        BY <2>4, <3>1, <3>2 DEF Flight, Answers
      <4>3. \A w \in Threads : ~Owns(w, s, u)' /\ ~Removes(w, s, u)'
        BY <1>2, <1>4, <4>2 DEF Elsewhere, Answers
      <4> HIDE DEF Owns, Removes, Waits
      <4> QED
        BY <4>1, <4>3 DEF Flight, Answers
    <3>3. CASE s # v \/ u # y
      <4>1. u \in orphaned'[s] <=> u \in orphaned[s]
        BY <2>3, <3>3 DEF FlightInv
      <4>2. Apart(t, s, u)
        BY <1>4, <2>2, <3>3 DEF Apart, Owns
      <4> QED
        BY <1>1, <1>2, <3>1, <4>1, <4>2, ApartKept
    <3> QED
      BY <3>2, <3>3
  <2> QED
    BY <1>1, <1>2, <2>5, <2>6 DEF FlightInv, FlightStates
<1>6. CASE ~(call[t].for = "background" /\ call[t].url \notin DataUrls)
  <2>1. orphaned' = orphaned
    BY <1>6 DEF Panic, LeavesFlight
  <2>2. \A s \in Sets, u \in Urls : ~Owns(t, s, u)
    BY <1>6 DEF Owns
  <2>3. SameRoles
    BY <1>2, <1>4, <2>2 DEF SameRoles, Elsewhere
  <2> QED
    BY <1>1, <1>2, <2>1, <2>3, RolesKept DEF flightVars
<1> QED
  BY <1>5, <1>6

\* The threads of a picture are in no flight.
LEMMA PictureNotifyKept ==
  ASSUME FlightInv, NEW t \in Threads, PictureNotify(t)
  PROVE  FlightInv'
<1>1. /\ call' = call /\ UNCHANGED flightVars /\ pc' = [w \in Threads |-> pc'[w]]
      /\ \A w \in Threads :
           pc'[w] = pc[w] \/ (pc[w] \in {"picture notify", "picture wait"} /\ pc'[w] = "left")
  BY DEF PictureNotify
<1>2. ASSUME NEW w \in Threads
      PROVE  /\ WellFormed(w)'
             /\ \A s \in Sets, u \in Urls :
                  /\ Owns(w, s, u)' <=> Owns(w, s, u)
                  /\ Removes(w, s, u)' <=> Removes(w, s, u)
                  /\ Waits(w, s, u)' => Waits(w, s, u)
  <2>1. CASE pc'[w] = pc[w]
    BY <1>1, <2>1 DEF FlightInv, Formed, WellFormed, Owns, Removes, Waits, Decoding,
       RequestPlaces, FlightPlaces, OtherPlaces, BackgroundCall, Askers
  <2>2. CASE pc[w] \in {"picture notify", "picture wait"} /\ pc'[w] = "left"
    BY <2>2 DEF WellFormed, Owns, Removes, Waits, Decoding, RequestPlaces, FlightPlaces,
       OtherPlaces
  <2> QED
    BY <1>1, <2>1, <2>2
<1>3. Formed'
  BY <1>1, <1>2 DEF FlightInv, Formed
<1>4. SameRoles
  BY <1>2 DEF SameRoles
<1> QED
  BY <1>1, <1>3, <1>4, RolesKept

LEMMA StayKept ==
  ASSUME FlightInv, UNCHANGED <<pc, call, flightVars>>
  PROVE  FlightInv'
<1>1. Formed'
  BY DEF FlightInv, Formed, WellFormed, Decoding, RequestPlaces, FlightPlaces, OtherPlaces,
     BackgroundCall, Askers
<1>2. SameRoles
  BY DEF SameRoles, Owns, Removes, Waits, Decoding
<1> QED
  BY <1>1, <1>2, RolesKept

\* A set that is given up has no call, so nobody in its flights.
LEMMA ReconfigureKept ==
  ASSUME FlightInv, NEW v \in Sets, Reconfigure(v)
  PROVE  FlightInv'
<1>1. /\ pc' = pc /\ call' = call
      /\ inflight' = [inflight EXCEPT ![v] = [u \in Urls |-> None]]
      /\ orphaned' = [orphaned EXCEPT ![v] = {}]
      /\ \A t \in Threads : pc[t] # "idle" => call[t].set # v
  BY DEF Reconfigure, threadVars
<1>2. Formed'
  BY <1>1 DEF FlightInv, Formed, WellFormed, Decoding, RequestPlaces, FlightPlaces,
     OtherPlaces, BackgroundCall, Askers
<1>3. \A t \in Threads, s \in Sets, u \in Urls :
        /\ Owns(t, s, u)' <=> Owns(t, s, u)
        /\ Removes(t, s, u)' <=> Removes(t, s, u)
        /\ Waits(t, s, u)' <=> Waits(t, s, u)
  BY <1>1 DEF Owns, Removes, Waits, Decoding
<1>4. \A t \in Threads, u \in Urls : ~Owns(t, v, u) /\ ~Removes(t, v, u) /\ ~Waits(t, v, u)
  BY <1>1 DEF Owns, Removes, Waits, Decoding
<1>5. ASSUME NEW s \in Sets, NEW u \in Urls
      PROVE  Flight(s, u)'
  <2>1. CASE s = v
    <3>1. inflight'[s][u] = None /\ u \notin orphaned'[s] /\ None # "pending"
      BY <1>1, <2>1, ImagesAssumption DEF FlightInv, ImagesAssumption
    <3>2. \A t \in Threads : ~Owns(t, s, u)' /\ ~Removes(t, s, u)' /\ ~Waits(t, s, u)'
      BY <1>3, <1>4, <2>1
    <3> HIDE DEF Owns, Removes, Waits
    <3> QED
      BY <3>1, <3>2 DEF Flight, Answers
  <2>2. CASE s # v
    <3>1. inflight'[s] = inflight[s] /\ orphaned'[s] = orphaned[s] /\ Flight(s, u)
      BY <1>1, <2>2 DEF FlightInv
    <3>2. \A t \in Threads : /\ Owns(t, s, u)' <=> Owns(t, s, u)
                             /\ Removes(t, s, u)' <=> Removes(t, s, u)
                             /\ Waits(t, s, u)' <=> Waits(t, s, u)
      BY <1>3
    <3> HIDE DEF Owns, Removes, Waits
    <3> QED
      BY <3>1, <3>2 DEF Flight, Answers
  <2> QED
    BY <2>1, <2>2
<1>6. inflight' \in [Sets -> [Urls -> FlightStates]]
  BY <1>1 DEF FlightInv, FlightStates
<1>7. orphaned' \in [Sets -> SUBSET Urls]
  BY <1>1 DEF FlightInv
<1> QED
  BY <1>2, <1>5, <1>6, <1>7 DEF FlightInv, FlightStates

-----------------------------------------------------------------------------
LEMMA StepKept ==
  ASSUME FlightInv, NEW t \in Threads, Step(t)
  PROVE  FlightInv'
<1>1. Formed
  BY DEF FlightInv
<1>2. CASE PassOver(t) \/ TurnAway(t) \/ Ask(t) \/ Look(t) \/ AdmitPayload(t) \/ Request(t)
  BY <1>1, <1>2, MovesKept, PassOverMoves, TurnAwayMoves, AskMoves, LookMoves,
     AdmitPayloadMoves, RequestMoves
<1>3. CASE Acquire(t) \/ ParseSource(t) \/ ReadRoom(t) \/ DecodeRaster(t)
  BY <1>1, <1>3, MovesKept, AcquireMoves, ParseSourceMoves, ReadRoomMoves, DecodeRasterMoves
<1>4. CASE \/ LookForPixels(t) \/ DrawPixels(t) \/ LookForScene(t) \/ LookForSceneAgain(t)
           \/ BuildScene(t)
  BY <1>1, <1>4, MovesKept, LookForPixelsMoves, DrawPixelsMoves, LookForSceneMoves,
     LookForSceneAgainMoves, BuildSceneMoves
<1>5. CASE Return(t)
  BY <1>1, <1>5, MovesKept, ForgetMoves DEF Return
<1> QED
  BY <1>2, <1>3, <1>4, <1>5, JoinOwnerKept, JoinWaiterKept, FinishKept, RemoveFlightKept,
     DropPermitKept DEF Step

LEMMA NextKept ==
  ASSUME FlightInv, Next
  PROVE  FlightInv'
<1>1. Formed
  BY DEF FlightInv
<1>2. ASSUME NEW t \in Threads, NEW s \in Sets, NEW u \in Urls, Preload(t, s, u)
      PROVE  FlightInv'
  <2> DEFINE request == [set |-> s, for |-> "background", asker |-> t, url |-> u,
                         tried |-> FALSE]
  <2>1. request \in BackgroundCall
    BY DEF BackgroundCall, Askers
  <2>2. Call(t, "css", "ask", request)
    BY <1>2 DEF Preload
  <2> HIDE DEF request
  <2> QED
    BY <1>1, <2>1, <2>2, CallMoves, MovesKept
<1>3. ASSUME NEW t \in Threads, NEW s \in Sets, NEW u \in SvgUrls, NEW size \in Sizes,
             PaintPixels(t, s, u, size) \/ PaintVector(t, s, u, size)
      PROVE  FlightInv'
  <2>1. CASE PaintPixels(t, s, u, size)
    <3> DEFINE request == [set |-> s, for |-> "pixels", asker |-> t, url |-> u, size |-> size]
    <3>1. request.for # "background"
      OBVIOUS
    <3>2. Call(t, "paint", "pixels", request)
      BY <2>1 DEF PaintPixels
    <3> HIDE DEF request
    <3> QED
      BY <1>1, <3>1, <3>2, CallMoves, MovesKept
  <2>2. CASE PaintVector(t, s, u, size)
    <3> DEFINE request == [set |-> s, for |-> "vector", asker |-> t, url |-> u, size |-> size]
    <3>1. request.for # "background"
      OBVIOUS
    <3>2. Call(t, "paint", "vector", request)
      BY <2>2 DEF PaintVector
    <3> HIDE DEF request
    <3> QED
      BY <1>1, <3>1, <3>2, CallMoves, MovesKept
  <2> QED
    BY <1>3, <2>1, <2>2
<1>4. ASSUME NEW t \in Threads, Abort(t) \/ NewRender(t)
      PROVE  FlightInv'
  BY <1>4, StayKept DEF Abort, NewRender, threadVars
<1> QED
  BY <1>2, <1>3, <1>4, StepKept, PanicKept, ReconfigureKept DEF Next

LEMMA PictureStepKept ==
  ASSUME FlightInv, NEW t \in Threads, PictureStep(t)
  PROVE  FlightInv'
<1>1. Formed
  BY DEF FlightInv
<1>2. CASE LockState(t) \/ PictureKnown(t) \/ PictureNew(t) \/ PictureRegister(t)
  BY <1>1, <1>2, MovesKept, LockStateMoves, PictureKnownMoves, PictureNewMoves,
     PictureRegisterMoves
<1>3. CASE PictureRoom(t) \/ PictureDecode(t) \/ PictureComplete(t)
  BY <1>1, <1>3, MovesKept, PictureRoomMoves, PictureDecodeMoves, PictureCompleteMoves
<1>4. CASE ReturnUrl(t)
  BY <1>1, <1>4, MovesKept, ForgetMoves DEF ReturnUrl
<1> QED
  BY <1>2, <1>3, <1>4, PictureReleaseKept, PictureNotifyKept DEF PictureStep

LEMMA FlightStep == FlightInv /\ [PNext]_allVars => FlightInv'
<1> SUFFICES ASSUME FlightInv, [PNext]_allVars
             PROVE  FlightInv'
  OBVIOUS
<1>1. Formed
  BY DEF FlightInv
<1>2. ASSUME NEW t \in Threads, NEW s \in Sets, NEW u \in Urls, Url(t, s, u)
      PROVE  FlightInv'
  <2> DEFINE request == [set |-> s, for |-> "background", asker |-> s, url |-> u,
                         tried |-> FALSE]
  <2>1. request \in BackgroundCall
    BY DEF BackgroundCall, Askers
  <2>2. Call(t, "url", "lock", request)
    BY <1>2 DEF Url
  <2> HIDE DEF request
  <2> QED
    BY <1>1, <2>1, <2>2, CallMoves, MovesKept
<1>3. ASSUME NEW t \in Threads, NEW s \in Sets, NEW p \in Pictures, Data(t, s, p)
      PROVE  FlightInv'
  <2> DEFINE request == [set |-> s, for |-> "picture", asker |-> s, picture |-> p]
  <2>1. request.for # "background"
    OBVIOUS
  <2>2. Call(t, "data", "picture", request)
    BY <1>3 DEF Data
  <2> HIDE DEF request
  <2> QED
    BY <1>1, <2>1, <2>2, CallMoves, MovesKept
<1>4. ASSUME NEW s \in Sets, DropPictures(s)
      PROVE  FlightInv'
  BY <1>4, StayKept DEF DropPictures, threadVars
<1>5. CASE UNCHANGED allVars
  BY <1>5, StayKept DEF allVars, vars, threadVars
<1> QED
  BY <1>2, <1>3, <1>4, <1>5, NextKept, PictureStepKept DEF PNext

LEMMA FlightInit == PInit => FlightInv
<1> SUFFICES ASSUME PInit
             PROVE  FlightInv
  OBVIOUS
<1>1. /\ pc = [t \in Threads |-> "idle"] /\ call = [t \in Threads |-> None]
      /\ inflight = [s \in Sets |-> [u \in Urls |-> None]]
      /\ orphaned = [s \in Sets |-> {}]
  BY DEF PInit, Init
<1>2. Formed
  BY <1>1 DEF Formed, WellFormed, Decoding, RequestPlaces, FlightPlaces, OtherPlaces
<1>3. \A t \in Threads, s \in Sets, u \in Urls :
        ~Owns(t, s, u) /\ ~Removes(t, s, u) /\ ~Waits(t, s, u)
  BY <1>1 DEF Owns, Removes, Waits, Decoding
<1>4. \A s \in Sets, u \in Urls : inflight[s][u] # "pending" /\ u \notin orphaned[s]
  BY <1>1, ImagesAssumption DEF ImagesAssumption
<1>5. \A s \in Sets, u \in Urls : Flight(s, u)
  <2> HIDE DEF Owns, Removes, Waits
  <2> QED
    BY <1>3, <1>4 DEF Flight, Answers
<1> QED
  BY <1>1, <1>2, <1>5 DEF FlightInv, FlightStates

LEMMA FlightInvImplies == FlightInv => OneFlight
<1> SUFFICES ASSUME FlightInv, NEW s \in Sets, NEW u \in Urls
             PROVE  LET owners == {t \in Threads : Owns(t, s, u)} IN
                    /\ inflight[s][u] = "pending" <=> owners # {} \/ u \in orphaned[s]
                    /\ u \in orphaned[s] => owners = {}
                    /\ Cardinality(owners) <= 1
                    /\ Waiters(s, u) # {} => inflight[s][u] = "pending"
  BY DEF OneFlight
<1> DEFINE owners == {t \in Threads : Owns(t, s, u)}
<1>1. Flight(s, u)
  BY DEF FlightInv
<1>2. inflight[s][u] = "pending" <=> owners # {} \/ u \in orphaned[s]
  BY <1>1 DEF Flight
<1>3. u \in orphaned[s] => owners = {}
  BY <1>1 DEF Flight
<1>4. Cardinality(owners) <= 1
  <2>1. CASE owners = {}
    BY <2>1, FS_EmptySet
  <2>2. CASE owners # {}
    <3>1. PICK t \in owners : TRUE
      BY <2>2
    <3>2. owners = {t}
      BY <1>1, <3>1 DEF Flight, Answers
    <3> QED
      BY <3>2, FS_Singleton
  <2> QED
    BY <2>1, <2>2
<1>5. Waiters(s, u) # {} => inflight[s][u] = "pending"
  BY <1>1 DEF Flight, Waits, Waiters
<1> QED
  BY <1>2, <1>3, <1>4, <1>5

\* At every moment at most one request runs for a URL of a set, and whoever
\* waits waits for a flight that is pending: its owner is at work, or panicked
\* (join_background_inflight, finish_background_inflight).
THEOREM OneFlightAlways == PSpec => []OneFlight
BY FlightInit, FlightStep, FlightInvImplies, PTL DEF PSpec

----------------------------------------------------------------------------
(* What is kept of a sequence, and its bytes. *)

LEMMA TotalOfOneMore ==
  ASSUME NEW E, NEW kept \in Seq(E), Sized(kept), NEW e \in E, e.bytes \in Nat
  PROVE  /\ Append(kept, e) \in Seq(E) /\ Sized(Append(kept, e))
         /\ Total(Append(kept, e)) = Total(kept) + e.bytes
PROOF
  <1>1. <<e>> \in Seq(E) /\ Sized(<<e>>) /\ Append(kept, e) = kept \o <<e>>
    BY DEF Sized
  <1>2. Sized(kept \o <<e>>) /\ Total(kept \o <<e>>) = Total(kept) + Total(<<e>>)
    BY <1>1, TotalOfConcat
  <1>3. Total(<<e>>) = e.bytes
    <2> DEFINE w == Weight(<<e>>)
    <2>one. DOMAIN <<e>> = {1} /\ <<e>>[1] = e
      OBVIOUS
    <2>1. DOMAIN <<e>> = {1} /\ IsFiniteSet({1}) /\ w[1] = e.bytes
      BY <2>one, FS_Singleton DEF Weight
    <2>2. Weights(w, {1}) /\ Total(<<e>>) = SumFunctionOnSet(w, {1})
      BY <1>1, <2>1, TotalAddsUp
    <2> HIDE DEF w
    <2>3. SumFunctionOnSet(w, {1}) = w[1] + SumFunctionOnSet(w, {1} \ {1})
      BY <2>1, <2>2, SumElement
    <2>4. {1} \ {1} = {}
      OBVIOUS
    <2>5. SumFunctionOnSet(w, {1} \ {1}) = 0
      BY <2>4, SumEmpty
    <2>6. QED
      BY <2>1, <2>2, <2>3, <2>5
  <1>4. QED
    BY <1>1, <1>2, <1>3

\* Entries with a number of bytes each.
Weighs(E) == \A e \in E : e.bytes \in Nat

LEMMA EntriesAreSized ==
  ASSUME NEW E, Weighs(E), NEW kept \in Seq(E)
  PROVE  Sized(kept) /\ Total(kept) \in Nat /\ Bytes(kept) = Total(kept)
PROOF
  <1>1. \A i \in DOMAIN kept : kept[i] \in E
    BY LenProperties, ElementOfSeq
  <1>2. Sized(kept)
    BY <1>1 DEF Sized, Weighs
  <1>3. Bytes(kept) = Total(kept)
    BY DEF Bytes, Total
  <1>4. QED
    BY <1>2, <1>3, TotalAddsUp

LEMMA BytesOfOneMore ==
  ASSUME NEW E, Weighs(E), NEW kept \in Seq(E), NEW e \in E
  PROVE  Append(kept, e) \in Seq(E) /\ Bytes(Append(kept, e)) = Bytes(kept) + e.bytes
PROOF
  <1>1. Sized(kept) /\ e.bytes \in Nat /\ Bytes(kept) = Total(kept)
    BY EntriesAreSized DEF Weighs
  <1>2. /\ Append(kept, e) \in Seq(E)
        /\ Total(Append(kept, e)) = Total(kept) + e.bytes
    BY <1>1, TotalOfOneMore
  <1>3. Bytes(Append(kept, e)) = Total(Append(kept, e))
    BY <1>2, EntriesAreSized
  <1>4. QED
    BY <1>1, <1>2, <1>3

LEMMA BytesOfNone == Bytes(<<>>) = 0
  BY TotalOfNone DEF Bytes, Total

\* The two parts of a sequence have its bytes between them.
LEMMA WithoutSplits ==
  ASSUME NEW E, Weighs(E), NEW kept \in Seq(E), NEW gone, NEW rest,
         \A i \in 1..Len(kept) : kept[i] \in gone <=> kept[i] \notin rest
  PROVE  /\ Bytes(Without(kept, gone)) + Bytes(Without(kept, rest)) = Bytes(kept)
         /\ Bytes(Without(kept, gone)) \in Nat /\ Bytes(Without(kept, rest)) \in Nat
PROOF
  <1> DEFINE f == Upto(kept, gone)
             g == Upto(kept, rest)
             part(n) == SubSeq(kept, 1, n)
             Good(n) == /\ f[n] \in Seq(E) /\ g[n] \in Seq(E)
                        /\ Bytes(f[n]) + Bytes(g[n]) = Bytes(part(n))
             Goods == {n \in Nat : n <= Len(kept) => Good(n)}
  <1>1. /\ Len(kept) \in Nat
        /\ f[0] = <<>> /\ Without(kept, gone) = f[Len(kept)]
        /\ g[0] = <<>> /\ Without(kept, rest) = g[Len(kept)]
        /\ \A n \in 1..Len(kept) :
             /\ f[n] = IF kept[n] \in gone THEN f[n - 1] ELSE Append(f[n - 1], kept[n])
             /\ g[n] = IF kept[n] \in rest THEN g[n - 1] ELSE Append(g[n - 1], kept[n])
    BY LenProperties, UptoStep
  <1> HIDE DEF f, g
  <1>2. 0 \in Goods
    <2>1. part(0) = <<>> /\ <<>> \in Seq(E)
      OBVIOUS
    <2>2. Bytes(f[0]) = 0 /\ Bytes(g[0]) = 0 /\ Bytes(part(0)) = 0
      BY <1>1, <2>1, BytesOfNone
    <2>3. f[0] \in Seq(E) /\ g[0] \in Seq(E)
      BY <1>1, <2>1
    <2>4. Good(0)
      BY <2>2, <2>3
    <2> HIDE DEF Good
    <2>5. QED
      BY <2>4
  <1>3. ASSUME NEW n \in Nat, n \in Goods
        PROVE  n + 1 \in Goods
    <2>1. CASE n + 1 <= Len(kept)
      <3> DEFINE e == kept[n + 1]
      <3>1. n + 1 \in 1..Len(kept) /\ (n + 1) - 1 = n /\ n <= Len(kept)
        BY <1>1, <2>1
      <3>2. Good(n) /\ e \in E /\ (e \in gone <=> e \notin rest)
        BY <1>3, <3>1, ElementOfSeq
      <3>3. /\ f[n + 1] = IF e \in gone THEN f[n] ELSE Append(f[n], e)
            /\ g[n + 1] = IF e \in rest THEN g[n] ELSE Append(g[n], e)
        BY <1>1, <3>1
      <3>4. part(n) \in Seq(E) /\ part(n + 1) = Append(part(n), e)
        BY <1>1, <3>1
      <3> HIDE DEF e, part
      <3>5. e.bytes \in Nat
        BY <3>2 DEF Weighs
      <3>6. /\ Append(f[n], e) \in Seq(E) /\ Bytes(Append(f[n], e)) = Bytes(f[n]) + e.bytes
            /\ Append(g[n], e) \in Seq(E) /\ Bytes(Append(g[n], e)) = Bytes(g[n]) + e.bytes
            /\ Bytes(part(n + 1)) = Bytes(part(n)) + e.bytes
        BY <3>2, <3>4, BytesOfOneMore
      <3>7. Bytes(f[n]) \in Nat /\ Bytes(g[n]) \in Nat /\ Bytes(part(n)) \in Nat
        BY <3>2, <3>4, EntriesAreSized
      <3>8. Good(n + 1)
        <4>1. CASE e \in gone
          BY <3>2, <3>3, <3>5, <3>6, <3>7, <4>1
        <4>2. CASE e \notin gone
          BY <3>2, <3>3, <3>5, <3>6, <3>7, <4>2
        <4>3. QED
          BY <4>1, <4>2
      <3>9. QED
        BY <3>8
    <2>2. CASE ~(n + 1 <= Len(kept))
      BY <2>2
    <2>3. QED
      BY <2>1, <2>2
  <1>4. Len(kept) \in Goods
    <2> HIDE DEF Goods
    <2>1. QED
      BY <1>1, <1>2, <1>3, Naturally
  <1>5. Good(Len(kept)) /\ part(Len(kept)) = kept
    BY <1>1, <1>4
  <1>6. QED
    BY <1>1, <1>5, EntriesAreSized

\* What stays of a sequence is no more than it was.
LEMMA WithoutLessens ==
  ASSUME NEW E, Weighs(E), NEW kept \in Seq(E), NEW gone
  PROVE  /\ Without(kept, gone) \in Seq(E) /\ Bytes(Without(kept, gone)) \in Nat
         /\ Bytes(Without(kept, gone)) <= Bytes(kept)
PROOF
  <1> DEFINE rest == {kept[i] : i \in 1..Len(kept)} \ gone
             a == Bytes(Without(kept, gone))
             b == Bytes(Without(kept, rest))
  <1>1. a + b = Bytes(kept) /\ a \in Nat /\ b \in Nat
    <2>1. \A i \in 1..Len(kept) : kept[i] \in gone <=> kept[i] \notin rest
      OBVIOUS
    <2> HIDE DEF rest
    <2>2. QED
      BY <2>1, WithoutSplits
  <1> HIDE DEF a, b
  <1>2. a <= Bytes(kept)
    BY <1>1
  <1>3. QED
    BY <1>1, <1>2, WithoutKeeps DEF a

\* Nor is what stays when the oldest are dropped.
LEMMA DropsLessens ==
  ASSUME NEW E, Weighs(E), NEW kept \in Seq(E), NEW k \in Nat, k <= Len(kept)
  PROVE  /\ Drops(kept, k) \in Seq(E) /\ Bytes(Drops(kept, k)) \in Nat
         /\ Bytes(Drops(kept, k)) <= Bytes(kept)
         /\ Len(Drops(kept, k)) = Len(kept) - k
PROOF
  <1> DEFINE head == SubSeq(kept, 1, k)
             tail == Drops(kept, k)
             n == Len(kept)
  <1>range. n \in Nat /\ k \in 0..n /\ \A i \in 1..n : kept[i] \in E
    BY LenProperties, ElementOfSeq
  <1>head. head \in Seq(E)
    <2>1. 1 \in Int /\ k \in Int /\ \A i \in 1..k : kept[i] \in E
      BY <1>range
    <2>2. QED
      BY <2>1, SubSeqProperties
  <1>tail. tail \in Seq(E) /\ Len(tail) = n - k
    <2>1. k + 1 \in Int /\ n \in Int /\ (IF k + 1 <= n THEN n - (k + 1) + 1 ELSE 0) = n - k
      BY <1>range
    <2>2. \A i \in (k + 1)..n : kept[i] \in E
      BY <1>range
    <2>3. QED
      BY <2>1, <2>2, SubSeqProperties DEF Drops
  <1>whole. head \o tail = kept
    <2>1. 1 \in 1..(n + 1) /\ k \in (1 - 1)..n /\ n \in k..n
      BY <1>range
    <2>2. head \o tail = SubSeq(kept, 1, n)
      BY <2>1, ConcatAdjacentSubSeq DEF Drops
    <2>3. QED
      BY <2>2, SubSeqFull
  <1>1. /\ head \in Seq(E) /\ tail \in Seq(E) /\ kept = head \o tail
        /\ Len(tail) = Len(kept) - k
    BY <1>head, <1>tail, <1>whole
  <1> HIDE DEF head, tail
  <1>2. /\ Sized(head) /\ Sized(tail) /\ Bytes(kept) = Total(kept)
        /\ Total(head) \in Nat /\ Total(tail) \in Nat /\ Bytes(tail) = Total(tail)
    BY <1>1, EntriesAreSized
  <1>3. Total(kept) = Total(head) + Total(tail)
    BY <1>1, <1>2, TotalOfConcat
  <1>4. Bytes(tail) \in Nat /\ Bytes(tail) <= Bytes(kept)
    BY <1>2, <1>3
  <1>5. QED
    BY <1>1, <1>4 DEF tail

----------------------------------------------------------------------------
(* What each call is for, and so where it can be. *)

\* Where a call that decodes can be, and where every call ends.
Shared == {"permit", "asleep", "release", "left", "panicked"}

BackgroundPlaces ==
  {"lock", "ask", "look", "payload", "join", "request", "wait", "finish", "remove",
   "parse", "room", "raster"} \cup Shared
PixelsPlaces == {"pixels", "again pixels", "pixels room", "draw"} \cup Shared
VectorPlaces == {"vector", "again vector", "build"} \cup Shared
PicturePlaces ==
  {"picture", "picture register", "picture wait", "picture room", "picture decode",
   "picture release", "picture complete", "picture notify", "permit", "asleep", "left"}

Belongs(c, place) ==
  \/ c = None /\ place = "idle"
  \/ c \in BackgroundCall /\ place \in BackgroundPlaces
  \/ c \in PaintCall /\ c.for = "pixels" /\ place \in PixelsPlaces
  \/ c \in PaintCall /\ c.for = "vector" /\ place \in VectorPlaces
  \/ c \in PictureCall /\ c.asker = c.set /\ place \in PicturePlaces

Calls ==
  /\ pc = [t \in Threads |-> pc[t]]
  /\ call = [t \in Threads |-> call[t]]
  /\ \A t \in Threads : Belongs(call[t], pc[t])

LEMMA CallFields ==
  ASSUME NEW c
  PROVE  /\ c \in BackgroundCall =>
              /\ c.set \in Sets /\ c.for = "background" /\ c.asker \in Askers
              /\ c.url \in Urls /\ c.tried \in BOOLEAN
         /\ c \in PaintCall =>
              /\ c.set \in Sets /\ c.for \in {"pixels", "vector"} /\ c.asker \in Threads
              /\ c.url \in SvgUrls /\ c.url \in Urls /\ c.size \in Sizes
         /\ c \in PictureCall =>
              /\ c.set \in Sets /\ c.for = "picture" /\ c.asker \in Sets
              /\ c.picture \in Pictures
         /\ c \in BackgroundCall \cup PaintCall \cup PictureCall => c # None
BY ImagesAssumption, PicturesAssumption
   DEF BackgroundCall, PaintCall, PictureCall, ImagesAssumption, PicturesAssumption, Askers

\* A thread goes where a call like its own can be.
LEMMA GotoCalls ==
  ASSUME Calls, NEW t \in Threads, NEW place, Goto(t, place), call' = call,
         Belongs(call[t], place)
  PROVE  Calls'
<1>1. pc' = [w \in Threads |-> IF w = t THEN place ELSE pc[w]]
  BY DEF Calls, Goto
<1>2. \A w \in Threads : Belongs(call[w], pc'[w])
  BY <1>1 DEF Calls
<1> HIDE DEF Belongs
<1> QED
  BY <1>1, <1>2 DEF Calls

Awake(c) == Belongs(c, "asleep") => Belongs(c, "permit")

LEMMA Woken == ASSUME NEW c PROVE Awake(c)
BY DEF Awake, Belongs, BackgroundPlaces, PixelsPlaces, VectorPlaces, PicturePlaces, Shared

LEMMA BackCalls ==
  ASSUME Calls, NEW t \in Threads, NEW place, PermitsBack(t, place), call' = call,
         Belongs(call[t], place), pc[t] # "asleep"
  PROVE  Calls'
<1>1. CASE Goto(t, place)
  BY <1>1, GotoCalls
<1>2. ASSUME NEW w \in Asleep, pc' = [pc EXCEPT ![t] = place, ![w] = "permit"]
      PROVE  Calls'
  <2>1. w \in Threads /\ w # t /\ pc[w] = "asleep"
    BY DEF Asleep
  <2>2. pc' = [x \in Threads |-> IF x = w THEN "permit" ELSE IF x = t THEN place ELSE pc[x]]
    BY <1>2, <2>1 DEF Calls
  <2>3. Belongs(call[w], "permit")
    BY <2>1, Woken DEF Calls, Awake
  <2>4. \A x \in Threads : Belongs(call[x], pc'[x])
    BY <2>2, <2>3 DEF Calls
  <2> HIDE DEF Belongs
  <2> QED
    BY <2>2, <2>4 DEF Calls
<1> QED
  BY <1>1, <1>2 DEF PermitsBack

\* A call starts.
LEMMA CallCalls ==
  ASSUME Calls, NEW t \in Threads, NEW what, NEW place, NEW request,
         Call(t, what, place, request), Belongs(request, place)
  PROVE  Calls'
<1>1. /\ pc' = [w \in Threads |-> IF w = t THEN place ELSE pc[w]]
      /\ call' = [w \in Threads |-> IF w = t THEN request ELSE call[w]]
  BY DEF Calls, Call, Goto
<1>2. \A w \in Threads : Belongs(call'[w], pc'[w])
  BY <1>1 DEF Calls
<1> HIDE DEF Belongs
<1> QED
  BY <1>1, <1>2 DEF Calls

LEMMA ForgetCalls ==
  ASSUME Calls, NEW t \in Threads, Forget(t)
  PROVE  Calls'
<1>1. /\ pc' = [w \in Threads |-> IF w = t THEN "idle" ELSE pc[w]]
      /\ call' = [w \in Threads |-> IF w = t THEN None ELSE call[w]]
  BY DEF Calls, Forget
<1>2. \A w \in Threads : Belongs(call'[w], pc'[w])
  BY <1>1 DEF Calls, Belongs
<1> HIDE DEF Belongs
<1> QED
  BY <1>1, <1>2 DEF Calls

\* The places of a call, by where it is.
LEMMA Callers ==
  ASSUME Calls, NEW t \in Threads
  PROVE  /\ pc[t] \in BackgroundPlaces \ Shared => call[t] \in BackgroundCall
         /\ pc[t] \in PixelsPlaces \ Shared => call[t] \in PaintCall /\ call[t].for = "pixels"
         /\ pc[t] \in VectorPlaces \ Shared => call[t] \in PaintCall /\ call[t].for = "vector"
         /\ pc[t] \in PicturePlaces \ Shared =>
              call[t] \in PictureCall /\ call[t].asker = call[t].set
BY DEF Calls, Belongs, BackgroundPlaces, PixelsPlaces, VectorPlaces, PicturePlaces, Shared

\* A thread that goes on inside its kind of call.
LEMMA BackgroundGoes ==
  ASSUME Calls, NEW t \in Threads, NEW place, Goto(t, place), call' = call,
         call[t] \in BackgroundCall, place \in BackgroundPlaces
  PROVE  Calls'
BY GotoCalls DEF Belongs

LEMMA PixelsGo ==
  ASSUME Calls, NEW t \in Threads, NEW place, Goto(t, place), call' = call,
         call[t] \in PaintCall, call[t].for = "pixels", place \in PixelsPlaces
  PROVE  Calls'
BY GotoCalls DEF Belongs

LEMMA VectorGoes ==
  ASSUME Calls, NEW t \in Threads, NEW place, Goto(t, place), call' = call,
         call[t] \in PaintCall, call[t].for = "vector", place \in VectorPlaces
  PROVE  Calls'
BY GotoCalls DEF Belongs

LEMMA PictureGoes ==
  ASSUME Calls, NEW t \in Threads, NEW place, Goto(t, place), call' = call,
         call[t] \in PictureCall, call[t].asker = call[t].set, place \in PicturePlaces
  PROVE  Calls'
BY GotoCalls DEF Belongs

LEMMA StepCalls ==
  ASSUME Calls, NEW t \in Threads, Step(t)
  PROVE  Calls'
<1>1. CASE \/ PassOver(t) \/ TurnAway(t) \/ Look(t) \/ AdmitPayload(t) \/ JoinOwner(t)
           \/ JoinWaiter(t) \/ Request(t) \/ RemoveFlight(t)
  <2>1. /\ pc[t] \in BackgroundPlaces \ Shared /\ call' = call
        /\ \E place \in BackgroundPlaces : Goto(t, place)
    BY <1>1 DEF PassOver, TurnAway, Look, AdmitPayload, JoinOwner, JoinWaiter, Request,
       RemoveFlight, BackgroundPlaces, Shared
  <2> QED
    BY <2>1, Callers, BackgroundGoes
<1>2. CASE ParseSource(t) \/ DecodeRaster(t)
  <2>1. /\ pc[t] \in BackgroundPlaces \ Shared /\ call' = call
        /\ \E place \in BackgroundPlaces : Goto(t, place)
    BY <1>2 DEF ParseSource, DecodeRaster, BackgroundPlaces, Shared
  <2> QED
    BY <2>1, Callers, BackgroundGoes
<1>3. CASE Ask(t)
  <2>1. call[t] \in BackgroundCall
    BY <1>3, Callers DEF Ask, BackgroundPlaces, Shared
  <2>2. /\ pc' = [w \in Threads |-> IF w = t THEN "look" ELSE pc[w]]
        /\ call' = [w \in Threads |-> IF w = t THEN [call[t] EXCEPT !.tried = TRUE] ELSE call[w]]
    BY <1>3 DEF Ask, Goto, Calls
  <2>3. [call[t] EXCEPT !.tried = TRUE] \in BackgroundCall
    BY <2>1 DEF BackgroundCall
  <2>4. \A w \in Threads : Belongs(call'[w], pc'[w])
    BY <2>2, <2>3 DEF Calls, Belongs, BackgroundPlaces
  <2> HIDE DEF Belongs
  <2> QED
    BY <2>2, <2>4 DEF Calls
<1>4. CASE Finish(t)
  <2>1. /\ pc[t] = "finish" /\ call' = call
        /\ pc' = [w \in Threads |-> pc'[w]]
        /\ \A w \in Threads : \/ pc'[w] = pc[w]
                              \/ pc[w] \in {"finish", "wait"} /\ pc'[w] \in {"remove", "left"}
    BY <1>4 DEF Finish, Waiters
  <2>2. \A w \in Threads : Belongs(call[w], pc'[w])
    <3>1. ASSUME NEW w \in Threads,
                 pc[w] \in {"finish", "wait"}, pc'[w] \in {"remove", "left"}
          PROVE  Belongs(call[w], pc'[w])
      BY <3>1, Callers DEF Belongs, BackgroundPlaces, Shared
    <3> QED
      BY <2>1, <3>1 DEF Calls
  <2> HIDE DEF Belongs
  <2> QED
    BY <2>1, <2>2 DEF Calls
<1>5. CASE Acquire(t)
  <2>1. /\ pc[t] = "permit" /\ call' = call /\ Belongs(call[t], "permit")
        /\ Goto(t, "asleep") \/ Goto(t, Granted(t))
    BY <1>5 DEF Acquire, Calls
  <2>2. Belongs(call[t], "asleep")
    BY <2>1 DEF Belongs, BackgroundPlaces, PixelsPlaces, VectorPlaces, PicturePlaces, Shared
  <2>3. Belongs(call[t], Granted(t))
    <3>1. CASE call[t] \in BackgroundCall
      BY <3>1, CallFields DEF Belongs, Granted, BackgroundPlaces
    <3>2. CASE call[t] \in PaintCall /\ call[t].for = "pixels"
      BY <3>2 DEF Belongs, Granted, PixelsPlaces
    <3>3. CASE call[t] \in PaintCall /\ call[t].for = "vector"
      BY <3>3 DEF Belongs, Granted, VectorPlaces
    <3>4. CASE call[t] \in PictureCall /\ call[t].asker = call[t].set
      BY <3>4, CallFields DEF Belongs, Granted, PicturePlaces
    <3> QED
      BY <2>1, <3>1, <3>2, <3>3, <3>4 DEF Belongs
  <2> QED
    BY <2>1, <2>2, <2>3, GotoCalls
<1>6. CASE DropPermit(t)
  <2> DEFINE place == IF call[t].for = "background" THEN AfterDecode(t) ELSE "left"
  <2>1. /\ pc[t] = "release" /\ call' = call /\ Belongs(call[t], "release")
        /\ PermitsBack(t, place)
    BY <1>6 DEF DropPermit, Calls
  <2>2. Belongs(call[t], place)
    BY <2>1, CallFields DEF Belongs, AfterDecode, BackgroundPlaces, PixelsPlaces, VectorPlaces,
       PicturePlaces, Shared
  <2> HIDE DEF place
  <2> QED
    BY <2>1, <2>2, BackCalls
<1>7. CASE ReadRoom(t)
  <2>1. CASE pc[t] = "room"
    <3>1. call[t] \in BackgroundCall /\ Goto(t, "raster") /\ call' = call
      BY <1>7, <2>1, Callers DEF ReadRoom, BackgroundPlaces, Shared
    <3> QED
      BY <3>1, BackgroundGoes DEF BackgroundPlaces
  <2>2. CASE pc[t] = "pixels room"
    <3>1. /\ call[t] \in PaintCall /\ call[t].for = "pixels"
          /\ Goto(t, "draw") /\ call' = call
      BY <1>7, <2>2, Callers DEF ReadRoom, PixelsPlaces, Shared
    <3> QED
      BY <3>1, PixelsGo DEF PixelsPlaces
  <2> QED
    BY <1>7, <2>1, <2>2 DEF ReadRoom
<1>8. CASE LookForPixels(t) \/ DrawPixels(t)
  <2>1. /\ pc[t] \in PixelsPlaces \ Shared /\ call' = call
        /\ \E place \in PixelsPlaces : Goto(t, place)
    BY <1>8 DEF LookForPixels, DrawPixels, PixelsPlaces, Shared
  <2> QED
    BY <2>1, Callers, PixelsGo
<1>9. CASE LookForScene(t) \/ LookForSceneAgain(t) \/ BuildScene(t)
  <2>1. /\ pc[t] \in VectorPlaces \ Shared /\ call' = call
        /\ \E place \in VectorPlaces : Goto(t, place)
    BY <1>9 DEF LookForScene, LookForSceneAgain, BuildScene, VectorPlaces, Shared
  <2> QED
    BY <2>1, Callers, VectorGoes
<1>10. CASE Return(t)
  BY <1>10, ForgetCalls DEF Return
<1> QED
  BY <1>1, <1>2, <1>3, <1>4, <1>5, <1>6, <1>7, <1>8, <1>9, <1>10 DEF Step

LEMMA NextCalls ==
  ASSUME Calls, Next
  PROVE  Calls'
<1>1. ASSUME NEW t \in Threads, NEW s \in Sets, NEW u \in Urls, Preload(t, s, u)
      PROVE  Calls'
  <2> DEFINE request == [set |-> s, for |-> "background", asker |-> t, url |-> u,
                         tried |-> FALSE]
  <2>1. Belongs(request, "ask")
    BY DEF Belongs, BackgroundCall, BackgroundPlaces
  <2>2. Call(t, "css", "ask", request)
    BY <1>1 DEF Preload
  <2> HIDE DEF request
  <2> QED
    BY <2>1, <2>2, CallCalls
<1>2. ASSUME NEW t \in Threads, NEW s \in Sets, NEW u \in SvgUrls, NEW size \in Sizes,
             PaintPixels(t, s, u, size)
      PROVE  Calls'
  <2> DEFINE request == [set |-> s, for |-> "pixels", asker |-> t, url |-> u, size |-> size]
  <2>1. Belongs(request, "pixels")
    BY DEF Belongs, PaintCall, PixelsPlaces
  <2>2. Call(t, "paint", "pixels", request)
    BY <1>2 DEF PaintPixels
  <2> HIDE DEF request
  <2> QED
    BY <2>1, <2>2, CallCalls
<1>3. ASSUME NEW t \in Threads, NEW s \in Sets, NEW u \in SvgUrls, NEW size \in Sizes,
             PaintVector(t, s, u, size)
      PROVE  Calls'
  <2> DEFINE request == [set |-> s, for |-> "vector", asker |-> t, url |-> u, size |-> size]
  <2>1. Belongs(request, "vector")
    BY DEF Belongs, PaintCall, VectorPlaces
  <2>2. Call(t, "paint", "vector", request)
    BY <1>3 DEF PaintVector
  <2> HIDE DEF request
  <2> QED
    BY <2>1, <2>2, CallCalls
<1>4. ASSUME NEW t \in Threads, Abort(t) \/ NewRender(t)
      PROVE  Calls'
  BY <1>4 DEF Abort, NewRender, threadVars, Calls
<1>5. ASSUME NEW t \in Threads, Panic(t)
      PROVE  Calls'
  <2>1. /\ pc[t] \in {"request", "parse", "raster", "draw", "build"} /\ call' = call
        /\ Goto(t, "panicked") \/ PermitsBack(t, "panicked")
    BY <1>5 DEF Panic
  <2>2. Belongs(call[t], "panicked")
    BY <2>1, Callers DEF Belongs, BackgroundPlaces, PixelsPlaces, VectorPlaces, Shared
  <2> QED
    BY <2>1, <2>2, GotoCalls, BackCalls
<1>6. ASSUME NEW s \in Sets, Reconfigure(s)
      PROVE  Calls'
  BY <1>6 DEF Reconfigure, threadVars, Calls
<1> QED
  BY <1>1, <1>2, <1>3, <1>4, <1>5, <1>6, StepCalls DEF Next

LEMMA PictureStepCalls ==
  ASSUME Calls, NEW t \in Threads, PictureStep(t)
  PROVE  Calls'
<1>1. CASE LockState(t)
  <2>1. call[t] \in BackgroundCall /\ Goto(t, "ask") /\ call' = call
    BY <1>1, Callers DEF LockState, BackgroundPlaces, Shared
  <2> QED
    BY <2>1, BackgroundGoes DEF BackgroundPlaces
<1>2. CASE ReturnUrl(t)
  BY <1>2, ForgetCalls DEF ReturnUrl
<1>3. CASE \/ PictureKnown(t) \/ PictureNew(t) \/ PictureRegister(t) \/ PictureRoom(t)
           \/ PictureDecode(t) \/ PictureComplete(t)
  <2>1. /\ pc[t] \in PicturePlaces \ Shared /\ call' = call
        /\ \E place \in PicturePlaces : Goto(t, place)
    BY <1>3 DEF PictureKnown, PictureNew, PictureRegister, PictureRoom, PictureDecode,
       PictureComplete, PicturePlaces, Shared
  <2> QED
    BY <2>1, Callers, PictureGoes
<1>4. CASE PictureRelease(t)
  <2>1. /\ pc[t] = "picture release" /\ call' = call
        /\ PermitsBack(t, "picture complete")
    BY <1>4 DEF PictureRelease
  <2>2. Belongs(call[t], "picture complete")
    BY <2>1, Callers DEF Belongs, PicturePlaces, Shared
  <2> QED
    BY <2>1, <2>2, BackCalls
<1>5. CASE PictureNotify(t)
  <2>1. /\ call' = call /\ pc' = [w \in Threads |-> pc'[w]]
        /\ \A w \in Threads :
             pc'[w] = pc[w] \/ (pc[w] \in {"picture notify", "picture wait"} /\ pc'[w] = "left")
    BY <1>5 DEF PictureNotify
  <2>2. \A w \in Threads : Belongs(call[w], pc'[w])
    <3>1. ASSUME NEW w \in Threads, pc[w] \in {"picture notify", "picture wait"},
                 pc'[w] = "left"
          PROVE  Belongs(call[w], pc'[w])
      BY <3>1, Callers DEF Belongs, PicturePlaces, Shared
    <3> QED
      BY <2>1, <3>1 DEF Calls
  <2> HIDE DEF Belongs
  <2> QED
    BY <2>1, <2>2 DEF Calls
<1> QED
  BY <1>1, <1>2, <1>3, <1>4, <1>5 DEF PictureStep

LEMMA CallsStep == Calls /\ [PNext]_allVars => Calls'
<1> SUFFICES ASSUME Calls, [PNext]_allVars
             PROVE  Calls'
  OBVIOUS
<1>1. ASSUME NEW t \in Threads, NEW s \in Sets, NEW u \in Urls, Url(t, s, u)
      PROVE  Calls'
  <2> DEFINE request == [set |-> s, for |-> "background", asker |-> s, url |-> u,
                         tried |-> FALSE]
  <2>1. Belongs(request, "lock")
    BY DEF Belongs, BackgroundCall, BackgroundPlaces
  <2>2. Call(t, "url", "lock", request)
    BY <1>1 DEF Url
  <2> HIDE DEF request
  <2> QED
    BY <2>1, <2>2, CallCalls
<1>2. ASSUME NEW t \in Threads, NEW s \in Sets, NEW p \in Pictures, Data(t, s, p)
      PROVE  Calls'
  <2> DEFINE request == [set |-> s, for |-> "picture", asker |-> s, picture |-> p]
  <2>1. Belongs(request, "picture")
    BY DEF Belongs, PictureCall, PicturePlaces
  <2>2. Call(t, "data", "picture", request)
    BY <1>2 DEF Data
  <2> HIDE DEF request
  <2> QED
    BY <2>1, <2>2, CallCalls
<1>3. ASSUME NEW s \in Sets, DropPictures(s)
      PROVE  Calls'
  BY <1>3 DEF DropPictures, threadVars, Calls
<1>4. CASE UNCHANGED allVars
  BY <1>4 DEF allVars, vars, threadVars, Calls
<1> QED
  BY <1>1, <1>2, <1>3, <1>4, NextCalls, PictureStepCalls DEF PNext

LEMMA CallsInit == PInit => Calls
BY DEF PInit, Init, Calls, Belongs

----------------------------------------------------------------------------
(* The data: pictures: who works on which, and what their leases take. *)

LEMMA SumOfAll == ASSUME NEW f PROVE Sum(f) = SumFunctionOnSet(f, DOMAIN f)
BY Zenon DEF Sum, FoldFunction, SumFunctionOnSet, FoldFunctionOnSet, MapThenFoldSet

\* Where the owner of a picture's flight is.
WorkPlaces ==
  {"permit", "asleep", "picture room", "picture decode", "picture release",
   "picture complete"}
LeasePlaces == {"picture release", "picture complete"}

Works(t) == call[t] \in PictureCall /\ pc[t] \in WorkPlaces

LeaseOf(e) == IF e = None THEN 0 ELSE KeyBytes + e.pixels

\* The leases of a set, in its memo and in the hands of its owners.
MemoLeases(s) == [p \in Pictures |-> LeaseOf(memo[s][p])]
HandLeases(s) == [t \in Threads |-> IF Works(t) /\ call[t].set = s THEN leased[t] ELSE 0]

Registered(s) == {p \in Pictures : memo[s][p] # None}

PicInv ==
  /\ memo \in [Sets -> [Pictures -> Entry \cup {None}]]
  /\ leased \in [Threads -> Nat]
  /\ inline \in [Sets -> Nat]
  /\ budget \in [Sets -> [backgrounds : Nat, pictures : Nat]]
  /\ \A s \in Sets, p \in Pictures :
       /\ \A t \in Threads : Works(t) /\ call[t].set = s /\ call[t].picture = p
                               <=> memo[s][p] # None /\ memo[s][p].owner = t
       /\ memo[s][p] # None /\ memo[s][p].owner # None => memo[s][p].pixels = 0
  /\ \A t \in Threads : leased[t] # 0 => Works(t) /\ pc[t] \in LeasePlaces
  /\ \A s \in Sets :
       /\ budget[s].pictures = Cardinality(Registered(s))
       /\ inline[s] = SumFunctionOnSet(MemoLeases(s), Pictures)
                        + SumFunctionOnSet(HandLeases(s), Threads)

\* A thread whose part in pictures does not change.
Aside(t) ==
  /\ Works(t)' <=> Works(t)
  /\ Works(t) => call'[t] = call[t]
  /\ Works(t) /\ pc[t] \in LeasePlaces => pc'[t] \in LeasePlaces

LEMMA AsideKept ==
  ASSUME PicInv, \A t \in Threads : Aside(t), UNCHANGED <<memo, leased, inline>>,
         budget' \in [Sets -> [backgrounds : Nat, pictures : Nat]],
         \A s \in Sets : budget'[s].pictures = budget[s].pictures
  PROVE  PicInv'
<1>1. ASSUME NEW s \in Sets, NEW p \in Pictures, NEW t \in Threads
      PROVE  Works(t)' /\ call'[t].set = s /\ call'[t].picture = p
               <=> memo'[s][p] # None /\ memo'[s][p].owner = t
  <2>1. Works(t) /\ call[t].set = s /\ call[t].picture = p
          <=> memo[s][p] # None /\ memo[s][p].owner = t
    BY DEF PicInv
  <2>2. (Works(t)' <=> Works(t)) /\ (Works(t) => call'[t] = call[t])
    BY DEF Aside
  <2> HIDE DEF Works
  <2> QED
    BY <2>1, <2>2
<1>2. ASSUME NEW t \in Threads, leased'[t] # 0
      PROVE  Works(t)' /\ pc'[t] \in LeasePlaces
  <2>1. Works(t) /\ pc[t] \in LeasePlaces
    BY <1>2 DEF PicInv
  <2> HIDE DEF Works
  <2> QED
    BY <2>1 DEF Aside
<1>3. ASSUME NEW s \in Sets
      PROVE  HandLeases(s)' = HandLeases(s) /\ MemoLeases(s)' = MemoLeases(s)
               /\ Registered(s)' = Registered(s)
  <2>1. \A t \in Threads : (Works(t)' /\ call'[t].set = s) <=> (Works(t) /\ call[t].set = s)
    <3> HIDE DEF Works
    <3> QED
      BY DEF Aside
  <2>2. HandLeases(s)' = [t \in Threads |-> IF (Works(t) /\ call[t].set = s)'
                                             THEN leased'[t] ELSE 0]
    BY DEF HandLeases
  <2> HIDE DEF Works
  <2>3. HandLeases(s)' = HandLeases(s)
    BY <2>1, <2>2 DEF HandLeases
  <2> QED
    BY <2>3 DEF MemoLeases, LeaseOf, Registered
<1>4. ASSUME NEW s \in Sets
      PROVE  /\ budget'[s].pictures = Cardinality(Registered(s)')
             /\ inline'[s] = SumFunctionOnSet(MemoLeases(s)', Pictures)
                              + SumFunctionOnSet(HandLeases(s)', Threads)
  BY <1>3 DEF PicInv
<1> HIDE DEF Works
<1>5. /\ memo' \in [Sets -> [Pictures -> Entry \cup {None}]]
      /\ leased' \in [Threads -> Nat]
      /\ inline' \in [Sets -> Nat]
  BY DEF PicInv
<1>6. \A s \in Sets, p \in Pictures :
        memo'[s][p] # None /\ memo'[s][p].owner # None => memo'[s][p].pixels = 0
  BY DEF PicInv
<1> QED
  BY <1>1, <1>2, <1>4, <1>5, <1>6 DEF PicInv

\* Other calls are aside, whatever their threads do.
LEMMA OtherAside ==
  ASSUME NEW t \in Threads, call[t] \notin PictureCall, call'[t] \notin PictureCall
  PROVE  Aside(t)
BY DEF Aside, Works

LEMMA StillAside ==
  ASSUME NEW t \in Threads, pc'[t] = pc[t], call'[t] = call[t]
  PROVE  Aside(t)
BY DEF Aside, Works, PictureCall, WorkPlaces, LeasePlaces

LEMMA MoveAside ==
  ASSUME NEW t \in Threads, call'[t] = call[t],
         pc'[t] \in WorkPlaces <=> pc[t] \in WorkPlaces,
         pc[t] \in LeasePlaces => pc'[t] \in LeasePlaces
  PROVE  Aside(t)
BY DEF Aside, Works, PictureCall, WorkPlaces, LeasePlaces

LEMMA Unrelated ==
  ASSUME NEW c
  PROVE  /\ c \in BackgroundCall \cup PaintCall => c \notin PictureCall
         /\ None \notin PictureCall
BY CallFields

\* One thread moves, and is aside.
LEMMA GotoAside ==
  ASSUME Calls, NEW t \in Threads, NEW place, Goto(t, place), call' = call, Aside(t)
  PROVE  \A w \in Threads : Aside(w)
<1>1. \A w \in Threads \ {t} : pc'[w] = pc[w] /\ call'[w] = call[w]
  BY DEF Calls, Goto
<1> HIDE DEF Aside
<1> QED
  BY <1>1, StillAside

LEMMA BackAside ==
  ASSUME Calls, NEW t \in Threads, NEW place, PermitsBack(t, place), call' = call,
         pc[t] # "asleep",
         \/ call[t] \notin PictureCall
         \/ pc[t] \in LeasePlaces /\ place \in LeasePlaces
  PROVE  \A w \in Threads : Aside(w)
<1>1. ASSUME NEW w \in Threads
      PROVE  \/ pc'[w] = pc[w]
             \/ pc[w] = "asleep" /\ pc'[w] = "permit"
             \/ w = t /\ pc'[w] = place
  BY DEF Calls, PermitsBack, Goto, Asleep
<1>2. ASSUME NEW w \in Threads
      PROVE  Aside(w)
  <2>1. CASE pc'[w] = pc[w]
    BY <2>1, StillAside
  <2>2. CASE pc[w] = "asleep" /\ pc'[w] = "permit"
    BY <2>2, MoveAside DEF WorkPlaces, LeasePlaces
  <2>3. CASE w = t /\ pc'[w] = place
    <3>1. CASE call[t] \notin PictureCall
      BY <2>3, <3>1, OtherAside
    <3>2. CASE pc[t] \in LeasePlaces /\ place \in LeasePlaces
      BY <2>3, <3>2, MoveAside DEF WorkPlaces, LeasePlaces
    <3> QED
      BY <3>1, <3>2
  <2> QED
    BY <1>1, <2>1, <2>2, <2>3
<1> QED
  BY <1>2

\* What the sums over leases need.
LEMMA LeaseTypes ==
  ASSUME PicInv, NEW s \in Sets
  PROVE  /\ IsFiniteSet(Pictures) /\ IsFiniteSet(Threads)
         /\ Weights(MemoLeases(s), Pictures) /\ Weights(HandLeases(s), Threads)
         /\ SumFunctionOnSet(MemoLeases(s), Pictures) \in Nat
         /\ SumFunctionOnSet(HandLeases(s), Threads) \in Nat
<1>1. IsFiniteSet(Pictures) /\ IsFiniteSet(Threads) /\ KeyBytes \in Nat
  BY PicturesAssumption, ImagesAssumption DEF PicturesAssumption, ImagesAssumption
<1>2. ASSUME NEW p \in Pictures
      PROVE  MemoLeases(s)[p] \in Nat
  <2>1. memo[s][p] \in Entry \cup {None}
    BY DEF PicInv
  <2> QED
    BY <1>1, <2>1 DEF MemoLeases, LeaseOf, Entry
<1>3. \A t \in Threads : HandLeases(s)[t] \in Nat
  BY DEF HandLeases, PicInv
<1>4. Weights(MemoLeases(s), Pictures) /\ Weights(HandLeases(s), Threads)
  BY <1>2, <1>3 DEF Weights
<1> QED
  BY <1>1, <1>4, SumElement

\* A picture in the memo is charged for its key at least, so with no lease
\* there is none.
LEMMA NoLeaseNoPicture ==
  ASSUME PicInv, NEW s \in Sets, inline[s] = 0
  PROVE  budget[s].pictures = 0 /\ Registered(s) = {}
<1>1. SumFunctionOnSet(MemoLeases(s), Pictures) = 0
  <2>1. inline[s] = SumFunctionOnSet(MemoLeases(s), Pictures)
                      + SumFunctionOnSet(HandLeases(s), Threads)
    BY DEF PicInv
  <2> QED
    BY <2>1, LeaseTypes
<1>2. ASSUME NEW p \in Pictures
      PROVE  memo[s][p] = None
  <2>1. /\ SumFunctionOnSet(MemoLeases(s), Pictures \ {p}) \in Nat
        /\ 0 = MemoLeases(s)[p] + SumFunctionOnSet(MemoLeases(s), Pictures \ {p})
        /\ MemoLeases(s)[p] \in Nat
    BY <1>1, LeaseTypes, SumElement DEF Weights
  <2>2. MemoLeases(s)[p] = 0
    BY <2>1
  <2>3. KeyBytes \in Nat \ {0} /\ memo[s][p] \in Entry \cup {None}
    BY PicturesAssumption DEF PicturesAssumption, PicInv
  <2> QED
    BY <2>2, <2>3 DEF MemoLeases, LeaseOf, Entry
<1>3. Registered(s) = {}
  BY <1>2 DEF Registered
<1>4. budget[s].pictures = Cardinality(Registered(s))
  BY DEF PicInv
<1> QED
  BY <1>3, <1>4, FS_EmptySet

LEMMA ForgetAside ==
  ASSUME Calls, NEW t \in Threads, pc[t] \in {"left", "panicked"}, Forget(t)
  PROVE  \A w \in Threads : Aside(w)
<1>1. /\ \A w \in Threads \ {t} : pc'[w] = pc[w] /\ call'[w] = call[w]
      /\ pc'[t] = "idle"
  BY DEF Calls, Forget
<1>2. Aside(t)
  BY <1>1 DEF Aside, Works, WorkPlaces
<1> HIDE DEF Aside
<1> QED
  BY <1>1, <1>2, StillAside

LEMMA CallAside ==
  ASSUME Calls, NEW t \in Threads, NEW what, NEW place, NEW request,
         Call(t, what, place, request), place \notin WorkPlaces
  PROVE  \A w \in Threads : Aside(w)
<1>1. /\ \A w \in Threads \ {t} : pc'[w] = pc[w] /\ call'[w] = call[w]
      /\ pc'[t] = place /\ pc[t] = "idle"
  BY DEF Calls, Call, Goto
<1>2. Aside(t)
  BY <1>1 DEF Aside, Works, WorkPlaces
<1> HIDE DEF Aside
<1> QED
  BY <1>1, <1>2, StillAside

LEMMA StepAside ==
  ASSUME Calls, NEW t \in Threads, Step(t)
  PROVE  \A w \in Threads : Aside(w)
<1>1. CASE \/ PassOver(t) \/ TurnAway(t) \/ Look(t) \/ AdmitPayload(t) \/ JoinOwner(t)
           \/ JoinWaiter(t) \/ Request(t) \/ RemoveFlight(t)
  <2>1. /\ pc[t] \in BackgroundPlaces \ Shared /\ call' = call
        /\ \E place : Goto(t, place)
    BY <1>1 DEF PassOver, TurnAway, Look, AdmitPayload, JoinOwner, JoinWaiter, Request,
       RemoveFlight, BackgroundPlaces, Shared
  <2>2. call[t] \notin PictureCall /\ call'[t] \notin PictureCall
    BY <2>1, Callers, Unrelated
  <2> QED
    BY <2>1, <2>2, OtherAside, GotoAside
<1>2. CASE \/ ParseSource(t) \/ DecodeRaster(t) \/ LookForPixels(t) \/ DrawPixels(t)
           \/ LookForScene(t) \/ LookForSceneAgain(t) \/ BuildScene(t) \/ ReadRoom(t)
  <2>1. /\ pc[t] \in (BackgroundPlaces \cup PixelsPlaces \cup VectorPlaces) \ Shared
        /\ call' = call /\ \E place : Goto(t, place)
    BY <1>2 DEF ParseSource, DecodeRaster, LookForPixels, DrawPixels, LookForScene,
       LookForSceneAgain, BuildScene, ReadRoom, BackgroundPlaces, PixelsPlaces, VectorPlaces,
       Shared
  <2>2. call[t] \notin PictureCall /\ call'[t] \notin PictureCall
    BY <2>1, Callers, Unrelated
  <2> QED
    BY <2>1, <2>2, OtherAside, GotoAside
<1>3. CASE Ask(t)
  <2>1. /\ \A w \in Threads \ {t} : pc'[w] = pc[w] /\ call'[w] = call[w]
        /\ pc'[t] = "look" /\ pc[t] = "ask"
    BY <1>3 DEF Ask, Calls, Goto
  <2>2. Aside(t)
    BY <2>1 DEF Aside, Works, WorkPlaces
  <2> HIDE DEF Aside
  <2> QED
    BY <2>1, <2>2, StillAside
<1>4. CASE Finish(t)
  <2>1. ASSUME NEW w \in Threads
        PROVE  /\ call'[w] = call[w]
               /\ \/ pc'[w] = pc[w]
                  \/ pc[w] \in {"finish", "wait"} /\ pc'[w] \in {"remove", "left"}
    BY <1>4 DEF Finish, Waiters
  <2>2. ASSUME NEW w \in Threads
        PROVE  Aside(w)
    <3>1. CASE pc'[w] = pc[w]
      BY <2>1, <3>1, StillAside
    <3>2. CASE pc[w] \in {"finish", "wait"} /\ pc'[w] \in {"remove", "left"}
      BY <2>1, <3>2, MoveAside DEF WorkPlaces, LeasePlaces
    <3> QED
      BY <2>1, <3>1, <3>2
  <2> QED
    BY <2>2
<1>5. CASE Acquire(t)
  <2>1. /\ pc[t] = "permit" /\ call' = call
        /\ Goto(t, "asleep") \/ Goto(t, Granted(t))
    BY <1>5 DEF Acquire
  <2>2. CASE call[t] \notin PictureCall
    BY <2>1, <2>2, OtherAside, GotoAside
  <2>3. CASE call[t] \in PictureCall
    <3>1. Granted(t) = "picture room"
      BY <2>3, CallFields DEF Granted
    <3>2. pc'[t] \in {"asleep", "picture room"}
      BY <2>1, <3>1 DEF Goto, Calls
    <3>3. Aside(t)
      BY <2>1, <3>2, MoveAside DEF WorkPlaces, LeasePlaces
    <3> QED
      BY <2>1, <3>3, GotoAside
  <2> QED
    BY <2>2, <2>3
<1>6. CASE DropPermit(t)
  <2>1. /\ pc[t] = "release" /\ call' = call
        /\ \E place : PermitsBack(t, place)
    BY <1>6 DEF DropPermit
  <2>2. call[t] \notin PictureCall
    BY <2>1, Unrelated DEF Calls, Belongs, PicturePlaces
  <2> QED
    BY <2>1, <2>2, BackAside
<1>7. CASE Return(t)
  BY <1>7, ForgetAside DEF Return
<1> QED
  BY <1>1, <1>2, <1>3, <1>4, <1>5, <1>6, <1>7 DEF Step

\* The steps of BackgroundImages leave the pictures alone, but for the budget.
LEMMA NextPictures ==
  ASSUME Calls, PicInv, Next, UNCHANGED pictureVars
  PROVE  PicInv'
<1>1. UNCHANGED <<memo, leased>>
  BY DEF pictureVars
<1>2. ASSUME \A w \in Threads : Aside(w), UNCHANGED <<inline, budget>>
      PROVE  PicInv'
  <2>1. /\ budget' \in [Sets -> [backgrounds : Nat, pictures : Nat]]
        /\ \A s \in Sets : budget'[s].pictures = budget[s].pictures
    BY <1>2 DEF PicInv
  <2> HIDE DEF Aside
  <2> QED
    BY <1>1, <1>2, <2>1, AsideKept
<1>3. ASSUME NEW t \in Threads, NEW what, NEW place, NEW request,
             Call(t, what, place, request), place \notin WorkPlaces
      PROVE  PicInv'
  <2>1. \A w \in Threads : Aside(w)
    BY <1>3, CallAside
  <2> QED
    BY <1>2, <1>3, <2>1 DEF Call
<1>4. ASSUME NEW t \in Threads, NEW s \in Sets, NEW u \in Urls, Preload(t, s, u)
      PROVE  PicInv'
  <2> DEFINE request == [set |-> s, for |-> "background", asker |-> t, url |-> u,
                         tried |-> FALSE]
  <2>1. Call(t, "css", "ask", request) /\ "ask" \notin WorkPlaces
    BY <1>4 DEF Preload, WorkPlaces
  <2> HIDE DEF request
  <2> QED
    BY <1>3, <2>1
<1>5. ASSUME NEW t \in Threads, NEW s \in Sets, NEW u \in SvgUrls, NEW size \in Sizes,
             PaintPixels(t, s, u, size) \/ PaintVector(t, s, u, size)
      PROVE  PicInv'
  <2> DEFINE pixels == [set |-> s, for |-> "pixels", asker |-> t, url |-> u, size |-> size]
             vector == [set |-> s, for |-> "vector", asker |-> t, url |-> u, size |-> size]
  <2>1. Call(t, "paint", "pixels", pixels) \/ Call(t, "paint", "vector", vector)
    BY <1>5 DEF PaintPixels, PaintVector
  <2>2. "pixels" \notin WorkPlaces /\ "vector" \notin WorkPlaces
    BY DEF WorkPlaces
  <2> HIDE DEF pixels, vector
  <2> QED
    BY <1>3, <2>1, <2>2
<1>6. ASSUME NEW t \in Threads, Abort(t) \/ NewRender(t)
      PROVE  PicInv'
  <2>1. \A w \in Threads : Aside(w)
    BY <1>6, StillAside DEF Abort, NewRender, threadVars
  <2> QED
    BY <1>2, <1>6, <2>1 DEF Abort, NewRender
<1>7. ASSUME NEW t \in Threads, Step(t)
      PROVE  PicInv'
  <2>1. \A w \in Threads : Aside(w)
    BY <1>7, StepAside
  <2>2. CASE ~AdmitPayload(t)
    <3>1. UNCHANGED <<inline, budget>>
      BY <1>7, <2>2 DEF Step, PassOver, TurnAway, Ask, Look, JoinOwner, JoinWaiter, Request,
         Finish, RemoveFlight, Acquire, DropPermit, ParseSource, ReadRoom, DecodeRaster,
         LookForPixels, DrawPixels, LookForScene, LookForSceneAgain, BuildScene, Return
    <3> QED
      BY <1>2, <2>1, <3>1
  <2>3. CASE AdmitPayload(t)
    <3>1. call[t].set \in Sets /\ inline' = inline
      BY <2>3, Callers, CallFields DEF AdmitPayload, BackgroundPlaces, Shared
    <3> DEFINE v == call[t].set
               more == [budget[v] EXCEPT !.backgrounds = @ + 1]
    <3>2. budget' = budget \/ budget' = [budget EXCEPT ![v] = more]
      BY <2>3 DEF AdmitPayload
    <3>types. budget \in [Sets -> [backgrounds : Nat, pictures : Nat]] /\ v \in Sets
      BY <3>1 DEF PicInv
    <3>kept. more \in [backgrounds : Nat, pictures : Nat] /\ more.pictures = budget[v].pictures
      BY <3>types
    <3> HIDE DEF v, more
    <3>3. /\ budget' \in [Sets -> [backgrounds : Nat, pictures : Nat]]
          /\ \A s \in Sets : budget'[s].pictures = budget[s].pictures
      BY <3>2, <3>types, <3>kept
    <3> HIDE DEF Aside
    <3> QED
      BY <1>1, <2>1, <3>1, <3>3, AsideKept
  <2> QED
    BY <2>2, <2>3
<1>8. ASSUME NEW t \in Threads, Panic(t)
      PROVE  PicInv'
  <2>1. /\ pc[t] \in {"request", "parse", "raster", "draw", "build"} /\ call' = call
        /\ Goto(t, "panicked") \/ PermitsBack(t, "panicked")
        /\ UNCHANGED <<inline, budget>>
    BY <1>8 DEF Panic
  <2>2. call[t] \notin PictureCall
    BY <2>1, Callers, Unrelated DEF BackgroundPlaces, PixelsPlaces, VectorPlaces, Shared
  <2>3. \A w \in Threads : Aside(w)
    BY <2>1, <2>2, OtherAside, GotoAside, BackAside
  <2> QED
    BY <1>2, <2>1, <2>3
<1>9. ASSUME NEW s \in Sets, Reconfigure(s)
      PROVE  PicInv'
  <2>1. \A w \in Threads : Aside(w)
    BY <1>9, StillAside DEF Reconfigure, threadVars
  <2>2. inline' = inline /\ inline[s] = 0
        /\ budget' = [budget EXCEPT ![s] = [backgrounds |-> 0, pictures |-> 0]]
    BY <1>9 DEF Reconfigure
  <2>3. budget[s].pictures = 0
    BY <1>9, <2>2, NoLeaseNoPicture
  <2>4. /\ budget' \in [Sets -> [backgrounds : Nat, pictures : Nat]]
        /\ \A v \in Sets : budget'[v].pictures = budget[v].pictures
    BY <2>2, <2>3 DEF PicInv
  <2> HIDE DEF Aside
  <2> QED
    BY <1>1, <2>1, <2>2, <2>4, AsideKept
<1> QED
  BY <1>4, <1>5, <1>6, <1>7, <1>8, <1>9 DEF Next

\* The key is registered: its owner starts to work on it.
LEMMA RegisterPictures ==
  ASSUME Calls, PicInv, NEW t \in Threads, PictureRegister(t)
  PROVE  PicInv'
<1> DEFINE s == call[t].set
           p == call[t].picture
           new == [owner |-> t, pixels |-> 0]
<1>1. /\ call[t] \in PictureCall /\ call' = call /\ leased' = leased
      /\ pc[t] = "picture register" /\ memo[s][p] = None
      /\ s \in Sets /\ p \in Pictures
  BY Callers, CallFields DEF PictureRegister, PicturePlaces, Shared, Unknown, Known
<1>2. CASE Goto(t, "left") /\ UNCHANGED <<memo, inline, budget>>
  <2>1. pc'[t] = "left"
    BY <1>2 DEF Goto, Calls
  <2>2. Aside(t)
    BY <1>1, <2>1, MoveAside DEF WorkPlaces, LeasePlaces
  <2>3. \A w \in Threads : Aside(w)
    BY <1>1, <1>2, <2>2, GotoAside
  <2>4. /\ budget' \in [Sets -> [backgrounds : Nat, pictures : Nat]]
        /\ \A v \in Sets : budget'[v].pictures = budget[v].pictures
    BY <1>2 DEF PicInv
  <2> HIDE DEF Aside
  <2> QED
    BY <1>1, <1>2, <2>3, <2>4, AsideKept
<1>3. CASE /\ memo' = [memo EXCEPT ![s][p] = new]
           /\ inline' = [inline EXCEPT ![s] = @ + KeyBytes]
           /\ budget' = [budget EXCEPT ![s].pictures = @ + 1]
           /\ Goto(t, "permit")
  <2>1. /\ pc'[t] = "permit"
        /\ \A w \in Threads \ {t} : pc'[w] = pc[w]
    BY <1>3 DEF Goto, Calls
  <2>2. new \in Entry /\ KeyBytes \in Nat /\ None \notin Entry /\ None \notin Threads
    BY PicturesAssumption DEF PicturesAssumption, Entry
  <2>3. /\ memo' \in [Sets -> [Pictures -> Entry \cup {None}]]
        /\ memo'[s][p] = new
        /\ \A v \in Sets, q \in Pictures : v # s \/ q # p => memo'[v][q] = memo[v][q]
    <3>1. memo \in [Sets -> [Pictures -> Entry \cup {None}]]
      BY DEF PicInv
    <3> HIDE DEF s, p, new
    <3> QED
      BY <1>1, <1>3, <2>2, <3>1
  <2>4. Works(t)' /\ ~Works(t) /\ leased[t] = 0
    BY <1>1, <2>1 DEF Works, WorkPlaces, PicInv
  <2>5. \A w \in Threads \ {t} : Works(w)' <=> Works(w)
    BY <1>1, <2>1 DEF Works
  <2>6. ASSUME NEW v \in Sets, NEW q \in Pictures
        PROVE  /\ \A w \in Threads : Works(w)' /\ call'[w].set = v /\ call'[w].picture = q
                                       <=> memo'[v][q] # None /\ memo'[v][q].owner = w
               /\ memo'[v][q] # None /\ memo'[v][q].owner # None => memo'[v][q].pixels = 0
    <3>1. /\ \A w \in Threads : Works(w) /\ call[w].set = v /\ call[w].picture = q
                                  <=> memo[v][q] # None /\ memo[v][q].owner = w
          /\ memo[v][q] # None /\ memo[v][q].owner # None => memo[v][q].pixels = 0
      BY DEF PicInv
    <3>2. CASE v = s /\ q = p
      <4>1. memo'[v][q] = new /\ new # None /\ new.owner = t /\ new.pixels = 0
        BY <2>2, <2>3, <3>2
      <4>2. \A w \in Threads \ {t} : ~(Works(w)' /\ call'[w].set = v /\ call'[w].picture = q)
        BY <1>1, <2>5, <3>1, <3>2
      <4>3. Works(t)' /\ call'[t].set = v /\ call'[t].picture = q
        BY <1>1, <2>4, <3>2
      <4> HIDE DEF Works, new
      <4> QED
        BY <4>1, <4>2, <4>3
    <3>3. CASE v # s \/ q # p
      <4>1. memo'[v][q] = memo[v][q]
        BY <2>3, <3>3
      <4>2. /\ ~(Works(t)' /\ call'[t].set = v /\ call'[t].picture = q)
            /\ ~(Works(t) /\ call[t].set = v /\ call[t].picture = q)
        BY <1>1, <2>4, <3>3
      <4> HIDE DEF Works
      <4> QED
        BY <1>1, <2>5, <3>1, <4>1, <4>2
    <3> QED
      BY <3>2, <3>3
  <2>7. ASSUME NEW w \in Threads, leased'[w] # 0
        PROVE  Works(w)' /\ pc'[w] \in LeasePlaces
    <3>1. w # t /\ Works(w) /\ pc[w] \in LeasePlaces
      BY <1>1, <2>4, <2>7 DEF PicInv
    <3> HIDE DEF Works
    <3> QED
      BY <2>1, <2>5, <3>1
  <2>8. ASSUME NEW v \in Sets
        PROVE  HandLeases(v)' = HandLeases(v)
    <3>1. \A w \in Threads : (IF (Works(w) /\ call[w].set = v)' THEN leased'[w] ELSE 0)
                               = (IF Works(w) /\ call[w].set = v THEN leased[w] ELSE 0)
      <4> HIDE DEF Works
      <4> QED
        BY <1>1, <2>4, <2>5
    <3> HIDE DEF Works
    <3> QED
      BY <3>1 DEF HandLeases
  <2>9. /\ inline' \in [Sets -> Nat] /\ inline'[s] = inline[s] + KeyBytes
        /\ \A v \in Sets \ {s} : inline'[v] = inline[v]
    <3>1. inline \in [Sets -> Nat] /\ s \in Sets
      BY <1>1 DEF PicInv
    <3> HIDE DEF s
    <3> QED
      BY <1>3, <2>2, <3>1
  <2>10. /\ budget' \in [Sets -> [backgrounds : Nat, pictures : Nat]]
         /\ budget'[s].pictures = budget[s].pictures + 1
         /\ \A v \in Sets \ {s} : budget'[v].pictures = budget[v].pictures
    <3>1. budget \in [Sets -> [backgrounds : Nat, pictures : Nat]] /\ s \in Sets
      BY <1>1 DEF PicInv
    <3> DEFINE more == [budget[s] EXCEPT !.pictures = @ + 1]
    <3>2. /\ more \in [backgrounds : Nat, pictures : Nat]
          /\ more.pictures = budget[s].pictures + 1
      BY <3>1
    <3>3. budget' = [budget EXCEPT ![s] = more]
      BY <1>3
    <3> HIDE DEF s, more
    <3> QED
      BY <3>1, <3>2, <3>3
  <2>11. ASSUME NEW v \in Sets
         PROVE  /\ budget'[v].pictures = Cardinality(Registered(v)')
                /\ inline'[v] = SumFunctionOnSet(MemoLeases(v)', Pictures)
                                  + SumFunctionOnSet(HandLeases(v)', Threads)
    <3>1. /\ budget[v].pictures = Cardinality(Registered(v))
          /\ inline[v] = SumFunctionOnSet(MemoLeases(v), Pictures)
                           + SumFunctionOnSet(HandLeases(v), Threads)
      BY DEF PicInv
    <3>2. CASE v # s
      <4>1. Registered(v)' = Registered(v) /\ MemoLeases(v)' = MemoLeases(v)
        BY <2>3, <3>2 DEF Registered, MemoLeases
      <4> QED
        BY <2>8, <2>9, <2>10, <3>1, <3>2, <4>1
    <3>3. CASE v = s
      <4>1. Registered(v)' = Registered(v) \cup {p} /\ p \notin Registered(v)
        <5>1. \A q \in Pictures : memo'[v][q] # None <=> q = p \/ memo[v][q] # None
          BY <1>1, <2>2, <2>3, <3>3
        <5>2. memo[v][p] = None /\ p \in Pictures
          BY <1>1, <3>3
        <5> HIDE DEF p
        <5> QED
          BY <5>1, <5>2 DEF Registered
      <4>2. IsFiniteSet(Registered(v))
        BY LeaseTypes, FS_Subset DEF Registered
      <4>3. Cardinality(Registered(v)') = Cardinality(Registered(v)) + 1
        BY <4>1, <4>2, FS_AddElement
      <4>4. budget'[v].pictures = Cardinality(Registered(v)')
        BY <2>10, <3>1, <3>3, <4>3
      <4> DEFINE a == MemoLeases(v)
                 b == MemoLeases(v)'
      <4>5. /\ a[p] = 0 /\ b[p] = KeyBytes /\ \A q \in Pictures \ {p} : b[q] = a[q]
        <5>1. \A q \in Pictures : a[q] = LeaseOf(memo[v][q]) /\ b[q] = LeaseOf(memo'[v][q])
          BY DEF MemoLeases, LeaseOf
        <5>2. LeaseOf(memo[v][p]) = 0 /\ LeaseOf(memo'[v][p]) = KeyBytes
          <6>1. memo[v][p] = None /\ memo'[v][p] = new
            BY <1>1, <2>3, <3>3
          <6>2. new # None /\ new.pixels = 0
            BY <2>2
          <6> HIDE DEF new
          <6> QED
            BY <2>2, <6>1, <6>2 DEF LeaseOf
        <5>3. \A q \in Pictures \ {p} : memo'[v][q] = memo[v][q]
          BY <2>3
        <5> HIDE DEF a, b
        <5> QED
          BY <1>1, <5>1, <5>2, <5>3
      <4>6. IsFiniteSet(Pictures) /\ Weights(a, Pictures)
        BY LeaseTypes
      <4>7. Weights(b, Pictures)
        BY <2>2, <4>5, <4>6 DEF Weights
      <4> HIDE DEF a, b, p
      <4>8. SumFunctionOnSet(b, Pictures) + a[p] = SumFunctionOnSet(a, Pictures) + b[p]
        BY <1>1, <4>5, <4>6, <4>7, SumChange
      <4>9. /\ SumFunctionOnSet(b, Pictures) \in Nat /\ SumFunctionOnSet(a, Pictures) \in Nat
        BY <4>6, <4>7, SumElement
      <4>10. SumFunctionOnSet(b, Pictures) = SumFunctionOnSet(a, Pictures) + KeyBytes
        BY <2>2, <4>5, <4>8, <4>9
      <4> DEFINE h == SumFunctionOnSet(HandLeases(v), Threads)
      <4>11. h \in Nat /\ inline[v] = SumFunctionOnSet(a, Pictures) + h
        BY <3>1, LeaseTypes DEF a
      <4>12. inline'[v] = inline[v] + KeyBytes /\ h = SumFunctionOnSet(HandLeases(v)', Threads)
        BY <2>8, <2>9, <3>3
      <4> HIDE DEF h
      <4>13. inline'[v] = SumFunctionOnSet(b, Pictures) + h
        BY <2>2, <4>9, <4>10, <4>11, <4>12
      <4> QED
        BY <4>4, <4>12, <4>13 DEF b
    <3> QED
      BY <3>2, <3>3
  <2> HIDE DEF Works
  <2>12. leased' \in [Threads -> Nat]
    BY <1>1 DEF PicInv
  <2> QED
    BY <2>3, <2>6, <2>7, <2>9, <2>10, <2>11, <2>12 DEF PicInv
<1> QED
  BY <1>2, <1>3 DEF PictureRegister

\* A sum of leases with the lease of one more thread, or of one less.
LEMMA HandChange ==
  ASSUME NEW t \in Threads, NEW a, NEW b, Weights(a, Threads), Weights(b, Threads),
         \A w \in Threads \ {t} : b[w] = a[w]
  PROVE  /\ SumFunctionOnSet(b, Threads) + a[t] = SumFunctionOnSet(a, Threads) + b[t]
         /\ SumFunctionOnSet(a, Threads) \in Nat /\ SumFunctionOnSet(b, Threads) \in Nat
<1>1. IsFiniteSet(Threads)
  BY ImagesAssumption DEF ImagesAssumption
<1> QED
  BY <1>1, SumChange, SumElement

LEMMA DecodePictures ==
  ASSUME Calls, PicInv, NEW t \in Threads, PictureDecode(t)
  PROVE  PicInv'
<1> DEFINE s == call[t].set
<1>1. /\ call[t] \in PictureCall /\ call' = call /\ UNCHANGED <<memo, budget>>
      /\ pc[t] = "picture decode" /\ Goto(t, "picture release") /\ s \in Sets
  BY Callers, CallFields DEF PictureDecode, PicturePlaces, Shared
<1>2. /\ pc'[t] = "picture release"
      /\ \A w \in Threads \ {t} : pc'[w] = pc[w]
  BY <1>1 DEF Goto, Calls
<1>3. Aside(t)
  BY <1>1, <1>2, MoveAside DEF WorkPlaces, LeasePlaces
<1>4. \A w \in Threads : Aside(w)
  BY <1>1, <1>3, GotoAside
<1>5. CASE UNCHANGED <<inline, leased>>
  <2>1. /\ budget' \in [Sets -> [backgrounds : Nat, pictures : Nat]]
        /\ \A v \in Sets : budget'[v].pictures = budget[v].pictures
    BY <1>1 DEF PicInv
  <2> HIDE DEF Aside
  <2> QED
    BY <1>1, <1>4, <1>5, <2>1, AsideKept
<1>6. ASSUME NEW bytes \in PictureBytes,
             inline' = [inline EXCEPT ![s] = @ + bytes],
             leased' = [leased EXCEPT ![t] = bytes]
      PROVE  PicInv'
  <2>1. bytes \in Nat
    BY PicturesAssumption DEF PicturesAssumption
  <2>2. Works(t) /\ leased[t] = 0 /\ Works(t)'
    BY <1>1, <1>2 DEF Works, WorkPlaces, LeasePlaces, PicInv
  <2>3. \A w \in Threads : (Works(w)' <=> Works(w)) /\ call'[w] = call[w]
    <3> HIDE DEF Works
    <3> QED
      BY <1>1, <1>4 DEF Aside
  <2>4. /\ leased' \in [Threads -> Nat] /\ leased'[t] = bytes
        /\ \A w \in Threads \ {t} : leased'[w] = leased[w]
    BY <1>6, <2>1 DEF PicInv
  <2>5. /\ inline' \in [Sets -> Nat] /\ inline'[s] = inline[s] + bytes
        /\ \A v \in Sets \ {s} : inline'[v] = inline[v]
    <3>1. inline \in [Sets -> Nat] /\ s \in Sets
      BY <1>1 DEF PicInv
    <3> HIDE DEF s
    <3> QED
      BY <1>6, <2>1, <3>1
  <2>6. ASSUME NEW w \in Threads, leased'[w] # 0
        PROVE  Works(w)' /\ pc'[w] \in LeasePlaces
    <3>1. CASE w = t
      BY <1>2, <2>2, <3>1 DEF LeasePlaces
    <3>2. CASE w # t
      <4>1. Works(w) /\ pc[w] \in LeasePlaces
        BY <2>4, <2>6, <3>2 DEF PicInv
      <4> HIDE DEF Works
      <4> QED
        BY <1>2, <2>3, <3>2, <4>1
    <3> QED
      BY <3>1, <3>2
  <2>7. ASSUME NEW v \in Sets, NEW q \in Pictures
        PROVE  /\ \A w \in Threads : Works(w)' /\ call'[w].set = v /\ call'[w].picture = q
                                       <=> memo'[v][q] # None /\ memo'[v][q].owner = w
               /\ memo'[v][q] # None /\ memo'[v][q].owner # None => memo'[v][q].pixels = 0
    <3>1. /\ \A w \in Threads : Works(w) /\ call[w].set = v /\ call[w].picture = q
                                  <=> memo[v][q] # None /\ memo[v][q].owner = w
          /\ memo[v][q] # None /\ memo[v][q].owner # None => memo[v][q].pixels = 0
      BY DEF PicInv
    <3> HIDE DEF Works
    <3> QED
      BY <1>1, <2>3, <3>1
  <2>8. ASSUME NEW v \in Sets
        PROVE  /\ budget'[v].pictures = Cardinality(Registered(v)')
               /\ inline'[v] = SumFunctionOnSet(MemoLeases(v)', Pictures)
                                 + SumFunctionOnSet(HandLeases(v)', Threads)
    <3>1. /\ budget[v].pictures = Cardinality(Registered(v))
          /\ inline[v] = SumFunctionOnSet(MemoLeases(v), Pictures)
                           + SumFunctionOnSet(HandLeases(v), Threads)
          /\ inline[v] \in Nat
      BY DEF PicInv
    <3>2. Registered(v)' = Registered(v) /\ MemoLeases(v)' = MemoLeases(v)
      BY <1>1 DEF Registered, MemoLeases, LeaseOf
    <3> DEFINE a == HandLeases(v)
               b == HandLeases(v)'
               m == SumFunctionOnSet(MemoLeases(v), Pictures)
    <3>3. \A w \in Threads :
            /\ a[w] = IF Works(w) /\ call[w].set = v THEN leased[w] ELSE 0
            /\ b[w] = IF Works(w)' /\ call'[w].set = v THEN leased'[w] ELSE 0
      <4> HIDE DEF Works
      <4> QED
        BY DEF HandLeases
    <3>4. Weights(a, Threads) /\ m \in Nat
      BY LeaseTypes
    <3>5. Weights(b, Threads)
      <4> HIDE DEF b, Works
      <4> QED
        BY <2>4, <3>3 DEF Weights
    <3>6. /\ \A w \in Threads \ {t} : b[w] = a[w]
          /\ a[t] = 0 /\ b[t] = IF s = v THEN bytes ELSE 0
      <4> HIDE DEF a, b, Works
      <4> QED
        BY <1>1, <2>2, <2>3, <2>4, <3>3
    <3> DEFINE x == SumFunctionOnSet(a, Threads)
               y == SumFunctionOnSet(b, Threads)
    <3>7. y = x + b[t] /\ x \in Nat /\ y \in Nat
      <4> HIDE DEF a, b
      <4>1. y + a[t] = x + b[t] /\ x \in Nat /\ y \in Nat
        BY <3>4, <3>5, <3>6, HandChange
      <4>2. y + 0 = x + b[t]
        BY <3>6, <4>1
      <4> QED
        BY <4>1, <4>2
    <3>8. inline[v] = m + x
      BY <3>1
    <3>9. inline'[v] = m + y
      <4> HIDE DEF a, b, x, y, m, s
      <4> QED
        BY <2>1, <2>5, <3>1, <3>4, <3>6, <3>7, <3>8
    <3> QED
      BY <1>1, <3>1, <3>2, <3>9
  <2>9. /\ memo' \in [Sets -> [Pictures -> Entry \cup {None}]]
        /\ budget' \in [Sets -> [backgrounds : Nat, pictures : Nat]]
    BY <1>1 DEF PicInv
  <2> HIDE DEF Works
  <2> QED
    BY <2>4, <2>5, <2>6, <2>7, <2>8, <2>9 DEF PicInv
<1> QED
  BY <1>5, <1>6 DEF PictureDecode

\* The pixels change hands: from the owner's lease to the memo.
LEMMA CompletePictures ==
  ASSUME Calls, PicInv, NEW t \in Threads, PictureComplete(t)
  PROVE  PicInv'
<1> DEFINE s == call[t].set
           p == call[t].picture
           new == [owner |-> None, pixels |-> leased[t]]
<1>1. /\ call[t] \in PictureCall /\ call' = call /\ UNCHANGED <<inline, budget>>
      /\ pc[t] = "picture complete" /\ Goto(t, "picture notify")
      /\ s \in Sets /\ p \in Pictures
      /\ memo' = [memo EXCEPT ![s][p] = new]
      /\ leased' = [leased EXCEPT ![t] = 0]
  BY Callers, CallFields DEF PictureComplete, PicturePlaces, Shared
<1>2. /\ pc'[t] = "picture notify"
      /\ \A w \in Threads \ {t} : pc'[w] = pc[w]
  BY <1>1 DEF Goto, Calls
<1>3. /\ leased[t] \in Nat /\ leased' \in [Threads -> Nat] /\ leased'[t] = 0
      /\ \A w \in Threads \ {t} : leased'[w] = leased[w]
  <2>1. leased \in [Threads -> Nat]
    BY DEF PicInv
  <2>2. leased' = [leased EXCEPT ![t] = 0]
    BY <1>1
  <2> QED
    BY <2>1, <2>2
<1>4. /\ KeyBytes \in Nat /\ None \notin Entry /\ None \notin Threads
      /\ new \in Entry /\ new # None
  BY <1>3, PicturesAssumption DEF PicturesAssumption, Entry
<1>5. Works(t) /\ ~Works(t)' /\ \A w \in Threads \ {t} : Works(w)' <=> Works(w)
  BY <1>1, <1>2 DEF Works, WorkPlaces
<1>6. memo[s][p] # None /\ memo[s][p].owner = t /\ memo[s][p].pixels = 0
  <2>1. \A v \in Sets, q \in Pictures :
          /\ \A w \in Threads : Works(w) /\ call[w].set = v /\ call[w].picture = q
                                <=> memo[v][q] # None /\ memo[v][q].owner = w
          /\ memo[v][q] # None /\ memo[v][q].owner # None => memo[v][q].pixels = 0
    BY DEF PicInv
  <2>2. call[t].set = s /\ call[t].picture = p /\ s \in Sets /\ p \in Pictures
    BY <1>1
  <2> HIDE DEF s, p, Works
  <2>3. memo[s][p] # None /\ memo[s][p].owner = t
    BY <1>5, <2>1, <2>2
  <2>4. t # None
    BY <1>4
  <2> QED
    BY <2>1, <2>2, <2>3, <2>4
<1>7. /\ memo' \in [Sets -> [Pictures -> Entry \cup {None}]]
      /\ memo'[s][p] = new
      /\ \A v \in Sets, q \in Pictures : v # s \/ q # p => memo'[v][q] = memo[v][q]
  <2>1. memo \in [Sets -> [Pictures -> Entry \cup {None}]]
    BY DEF PicInv
  <2> HIDE DEF s, p, new
  <2> QED
    BY <1>1, <1>4, <2>1
<1>8. ASSUME NEW w \in Threads, leased'[w] # 0
      PROVE  Works(w)' /\ pc'[w] \in LeasePlaces
  <2>1. w # t /\ Works(w) /\ pc[w] \in LeasePlaces
    BY <1>3, <1>8 DEF PicInv
  <2> HIDE DEF Works
  <2> QED
    BY <1>2, <1>5, <2>1
<1>9. ASSUME NEW v \in Sets, NEW q \in Pictures
      PROVE  /\ \A w \in Threads : Works(w)' /\ call'[w].set = v /\ call'[w].picture = q
                                     <=> memo'[v][q] # None /\ memo'[v][q].owner = w
             /\ memo'[v][q] # None /\ memo'[v][q].owner # None => memo'[v][q].pixels = 0
  <2>1. /\ \A w \in Threads : Works(w) /\ call[w].set = v /\ call[w].picture = q
                                <=> memo[v][q] # None /\ memo[v][q].owner = w
        /\ memo[v][q] # None /\ memo[v][q].owner # None => memo[v][q].pixels = 0
    BY DEF PicInv
  <2>2. CASE v = s /\ q = p
    <3>1. memo'[v][q] = new /\ new.owner = None
      BY <1>7, <2>2
    <3>2. \A w \in Threads : w # None
      BY <1>4
    <3>3. \A w \in Threads \ {t} : ~(Works(w) /\ call[w].set = v /\ call[w].picture = q)
      BY <1>6, <2>1, <2>2
    <3> HIDE DEF Works, new
    <3> QED
      BY <1>1, <1>5, <3>1, <3>2, <3>3
  <2>3. CASE v # s \/ q # p
    <3>1. memo'[v][q] = memo[v][q]
      BY <1>7, <2>3
    <3>2. ~(Works(t) /\ call[t].set = v /\ call[t].picture = q) /\ ~Works(t)'
      BY <1>5, <2>3
    <3> HIDE DEF Works
    <3> QED
      BY <1>1, <1>5, <2>1, <3>1, <3>2
  <2> QED
    BY <2>2, <2>3
<1>10. ASSUME NEW v \in Sets
       PROVE  /\ budget'[v].pictures = Cardinality(Registered(v)')
              /\ inline'[v] = SumFunctionOnSet(MemoLeases(v)', Pictures)
                                + SumFunctionOnSet(HandLeases(v)', Threads)
  <2>1. /\ budget[v].pictures = Cardinality(Registered(v))
        /\ inline[v] = SumFunctionOnSet(MemoLeases(v), Pictures)
                         + SumFunctionOnSet(HandLeases(v), Threads)
    BY DEF PicInv
  <2>2. Registered(v)' = Registered(v)
    BY <1>4, <1>6, <1>7 DEF Registered
  <2> DEFINE a == HandLeases(v)
             b == HandLeases(v)'
             c == MemoLeases(v)
             d == MemoLeases(v)'
  <2>3. \A w \in Threads :
          /\ a[w] = IF Works(w) /\ call[w].set = v THEN leased[w] ELSE 0
          /\ b[w] = IF Works(w)' /\ call'[w].set = v THEN leased'[w] ELSE 0
    <3> HIDE DEF Works
    <3> QED
      BY DEF HandLeases
  <2>4. \A q \in Pictures : c[q] = LeaseOf(memo[v][q]) /\ d[q] = LeaseOf(memo'[v][q])
    BY DEF MemoLeases, LeaseOf
  <2>5. Weights(a, Threads) /\ Weights(c, Pictures) /\ IsFiniteSet(Pictures)
    BY LeaseTypes
  <2> HIDE DEF a, b, c, d, Works
  <2>6. /\ \A w \in Threads \ {t} : b[w] = a[w]
        /\ a[t] = (IF v = s THEN leased[t] ELSE 0) /\ b[t] = 0
    BY <1>1, <1>3, <1>5, <2>3
  <2>7. Weights(b, Threads)
    BY <2>5, <2>6 DEF Weights
  <2>8. /\ \A q \in Pictures : v # s \/ q # p => d[q] = c[q]
        /\ v = s => c[p] = KeyBytes /\ d[p] = KeyBytes + leased[t]
    <3>1. LeaseOf(new) = KeyBytes + leased[t] /\ LeaseOf(memo[s][p]) = KeyBytes
      <4>1. LeaseOf(new) = KeyBytes + leased[t]
        BY <1>4 DEF LeaseOf
      <4>2. LeaseOf(memo[s][p]) = KeyBytes + 0
        BY <1>6 DEF LeaseOf
      <4> QED
        BY <1>4, <4>1, <4>2
    <3>2. v = s => c[p] = LeaseOf(memo[s][p]) /\ d[p] = LeaseOf(new)
      <4>1. p \in Pictures /\ memo'[s][p] = new
        BY <1>1, <1>7
      <4> HIDE DEF p, s, new, LeaseOf
      <4> QED
        BY <2>4, <4>1
    <3>3. \A q \in Pictures : v # s \/ q # p => LeaseOf(memo'[v][q]) = LeaseOf(memo[v][q])
      BY <1>7
    <3> HIDE DEF new, s, p, LeaseOf
    <3> QED
      BY <2>4, <3>1, <3>2, <3>3
  <2>9. Weights(d, Pictures)
    <3>1. ASSUME NEW q \in Pictures
          PROVE  d[q] \in Nat
      <4>1. CASE v = s /\ q = p
        <5>1. d[q] = KeyBytes + leased[t]
          BY <2>8, <4>1
        <5> QED
          BY <1>3, <1>4, <5>1
      <4>2. CASE v # s \/ q # p
        BY <2>5, <2>8, <4>2 DEF Weights
      <4> QED
        BY <4>1, <4>2
    <3> QED
      BY <3>1 DEF Weights
  <2> DEFINE A == SumFunctionOnSet(a, Threads)
             B == SumFunctionOnSet(b, Threads)
             C == SumFunctionOnSet(c, Pictures)
             D == SumFunctionOnSet(d, Pictures)
  <2>10. B + a[t] = A + b[t] /\ A \in Nat /\ B \in Nat
    BY <2>5, <2>6, <2>7, HandChange
  <2>11. C \in Nat /\ D \in Nat
    BY <2>5, <2>9, SumElement
  <2>12. inline'[v] = D + B
    <3>1. inline'[v] = C + A
      BY <1>1, <2>1 DEF a, c
    <3>2. CASE v = s
      <4>1. D + c[p] = C + d[p]
        <5>1. \A q \in Pictures \ {p} : d[q] = c[q]
          BY <2>8
        <5>2. p \in Pictures
          BY <1>1
        <5> HIDE DEF p
        <5> QED
          BY <2>5, <2>9, <5>1, <5>2, SumChange
      <4>2. B + leased[t] = A + 0 /\ D + KeyBytes = C + (KeyBytes + leased[t])
        BY <2>6, <2>8, <2>10, <3>2, <4>1
      <4> HIDE DEF A, B, C, D
      <4> QED
        BY <1>3, <1>4, <2>10, <2>11, <3>1, <4>2
    <3>3. CASE v # s
      <4>1. \A q \in Pictures : d[q] = c[q]
        BY <2>8, <3>3
      <4>2. D = C
        BY <2>5, <4>1, SumSame
      <4>3. B + 0 = A + 0
        BY <2>6, <2>10, <3>3
      <4> HIDE DEF A, B, C, D
      <4> QED
        BY <2>10, <2>11, <3>1, <4>2, <4>3
    <3> QED
      BY <3>2, <3>3
  <2> QED
    BY <1>1, <2>1, <2>2, <2>12 DEF b, d
<1>11. /\ inline' \in [Sets -> Nat]
       /\ budget' \in [Sets -> [backgrounds : Nat, pictures : Nat]]
  BY <1>1 DEF PicInv
<1> HIDE DEF Works
<1> QED
  BY <1>3, <1>7, <1>8, <1>9, <1>10, <1>11 DEF PicInv

\* Leases, as the sums above say it.
LEMMA LeasesAreSums ==
  ASSUME PicInv, NEW s \in Sets
  PROVE  Leases(s) = SumFunctionOnSet(MemoLeases(s), Pictures)
<1> DEFINE f == [p \in Pictures |->
                   IF memo[s][p] = None THEN 0 ELSE KeyBytes + memo[s][p].pixels]
<1>1. Leases(s) = Sum(f)
  BY DEF Leases
<1>2. f = MemoLeases(s) /\ DOMAIN f = Pictures
  BY DEF MemoLeases, LeaseOf
<1> HIDE DEF f
<1> QED
  BY <1>1, <1>2, SumOfAll

\* No thread works for a source that is dropped, so its memo has every lease.
LEMMA DropAllPictures ==
  ASSUME Calls, PicInv, NEW s \in Sets, DropPictures(s)
  PROVE  /\ PicInv'
         /\ inline[s] = Leases(s) /\ inline' = [inline EXCEPT ![s] = 0]
<1>1. /\ pc' = pc /\ call' = call /\ leased' = leased
      /\ memo' = [memo EXCEPT ![s] = [p \in Pictures |-> None]]
      /\ inline' = [inline EXCEPT ![s] = @ - Leases(s)]
      /\ budget' = [budget EXCEPT ![s].pictures = 0]
      /\ \A t \in Threads : pc[t] # "idle" => call[t].asker # s
  BY DEF DropPictures, threadVars
<1>2. \A w \in Threads : (Works(w)' <=> Works(w)) /\ call'[w] = call[w]
  BY <1>1 DEF Works
<1>3. \A w \in Threads : ~(Works(w) /\ call[w].set = s)
  <2>1. ASSUME NEW w \in Threads, Works(w)
        PROVE  call[w].asker = call[w].set /\ pc[w] # "idle"
    BY <2>1, Unrelated DEF Works, WorkPlaces, Calls, Belongs
  <2> HIDE DEF Works
  <2> QED
    BY <1>1, <2>1
<1>4. SumFunctionOnSet(HandLeases(s), Threads) = 0
  <2>1. \A w \in Threads : HandLeases(s)[w] = 0
    <3> HIDE DEF Works
    <3> QED
      BY <1>3 DEF HandLeases
  <2> QED
    BY <2>1, LeaseTypes, SumOfNothing
<1>5. inline[s] = Leases(s) /\ inline[s] \in Nat
  <2>1. /\ inline[s] = SumFunctionOnSet(MemoLeases(s), Pictures)
                         + SumFunctionOnSet(HandLeases(s), Threads)
        /\ inline[s] \in Nat
    BY DEF PicInv
  <2>2. SumFunctionOnSet(MemoLeases(s), Pictures) \in Nat
    BY LeaseTypes
  <2> QED
    BY <1>4, <2>1, <2>2, LeasesAreSums
<1>6. /\ inline' = [inline EXCEPT ![s] = 0] /\ inline' \in [Sets -> Nat]
      /\ inline'[s] = 0 /\ \A v \in Sets \ {s} : inline'[v] = inline[v]
  <2> DEFINE rest == inline[s] - Leases(s)
  <2>1. rest = 0 /\ inline \in [Sets -> Nat]
    BY <1>5 DEF PicInv
  <2>2. inline' = [inline EXCEPT ![s] = rest]
    BY <1>1
  <2> HIDE DEF rest
  <2> QED
    BY <2>1, <2>2
<1>7. /\ memo' \in [Sets -> [Pictures -> Entry \cup {None}]]
      /\ \A p \in Pictures : memo'[s][p] = None
      /\ \A v \in Sets \ {s} : memo'[v] = memo[v]
  BY <1>1 DEF PicInv
<1>8. /\ budget' \in [Sets -> [backgrounds : Nat, pictures : Nat]]
      /\ budget'[s].pictures = 0
      /\ \A v \in Sets \ {s} : budget'[v] = budget[v]
  <2> DEFINE less == [budget[s] EXCEPT !.pictures = 0]
  <2>1. budget \in [Sets -> [backgrounds : Nat, pictures : Nat]]
    BY DEF PicInv
  <2>2. less \in [backgrounds : Nat, pictures : Nat] /\ less.pictures = 0
    BY <2>1
  <2>3. budget' = [budget EXCEPT ![s] = less]
    BY <1>1
  <2> HIDE DEF less
  <2> QED
    BY <2>1, <2>2, <2>3
<1>9. ASSUME NEW v \in Sets, NEW q \in Pictures
      PROVE  /\ \A w \in Threads : Works(w)' /\ call'[w].set = v /\ call'[w].picture = q
                                     <=> memo'[v][q] # None /\ memo'[v][q].owner = w
             /\ memo'[v][q] # None /\ memo'[v][q].owner # None => memo'[v][q].pixels = 0
  <2>1. /\ \A w \in Threads : Works(w) /\ call[w].set = v /\ call[w].picture = q
                                <=> memo[v][q] # None /\ memo[v][q].owner = w
        /\ memo[v][q] # None /\ memo[v][q].owner # None => memo[v][q].pixels = 0
    BY DEF PicInv
  <2> HIDE DEF Works
  <2>2. CASE v = s
    BY <1>2, <1>3, <1>7, <2>2
  <2>3. CASE v # s
    BY <1>2, <1>7, <2>1, <2>3
  <2> QED
    BY <2>2, <2>3
<1>10. ASSUME NEW v \in Sets
       PROVE  HandLeases(v)' = HandLeases(v)
  <2>1. \A w \in Threads : (IF (Works(w) /\ call[w].set = v)' THEN leased'[w] ELSE 0)
                             = (IF Works(w) /\ call[w].set = v THEN leased[w] ELSE 0)
    <3> HIDE DEF Works
    <3> QED
      BY <1>1, <1>2
  <2> HIDE DEF Works
  <2> QED
    BY <2>1 DEF HandLeases
<1>11. ASSUME NEW v \in Sets
       PROVE  /\ budget'[v].pictures = Cardinality(Registered(v)')
              /\ inline'[v] = SumFunctionOnSet(MemoLeases(v)', Pictures)
                                + SumFunctionOnSet(HandLeases(v)', Threads)
  <2>1. /\ budget[v].pictures = Cardinality(Registered(v))
        /\ inline[v] = SumFunctionOnSet(MemoLeases(v), Pictures)
                         + SumFunctionOnSet(HandLeases(v), Threads)
    BY DEF PicInv
  <2>2. CASE v # s
    <3>1. Registered(v)' = Registered(v) /\ MemoLeases(v)' = MemoLeases(v)
      BY <1>7, <2>2 DEF Registered, MemoLeases, LeaseOf
    <3> QED
      BY <1>6, <1>8, <1>10, <2>1, <2>2, <3>1
  <2>3. CASE v = s
    <3>1. Registered(v)' = {}
      BY <1>7, <2>3 DEF Registered
    <3>2. SumFunctionOnSet(MemoLeases(v)', Pictures) = 0
      <4>1. \A q \in Pictures : (MemoLeases(v)')[q] = 0
        BY <1>7, <2>3 DEF MemoLeases, LeaseOf
      <4>2. IsFiniteSet(Pictures)
        BY LeaseTypes
      <4> QED
        BY <4>1, <4>2, SumOfNothing
    <3>3. SumFunctionOnSet(HandLeases(v)', Threads) = 0
      BY <1>4, <1>10, <2>3
    <3>4. inline'[v] = 0 /\ budget'[v].pictures = 0
      BY <1>6, <1>8, <2>3
    <3> QED
      BY <3>1, <3>2, <3>3, <3>4, FS_EmptySet
  <2> QED
    BY <2>2, <2>3
<1>12. /\ \A t \in Threads : leased'[t] # 0 => Works(t)' /\ pc'[t] \in LeasePlaces
       /\ leased' \in [Threads -> Nat]
  <2>1. \A t \in Threads : leased[t] # 0 => Works(t) /\ pc[t] \in LeasePlaces
    BY DEF PicInv
  <2>2. leased' \in [Threads -> Nat]
    BY <1>1 DEF PicInv
  <2> HIDE DEF Works
  <2> QED
    BY <1>1, <1>2, <2>1, <2>2
<1> HIDE DEF Works
<1>13. PicInv'
  BY <1>6, <1>7, <1>8, <1>9, <1>11, <1>12 DEF PicInv
<1> QED
  BY <1>5, <1>6, <1>13

LEMMA PictureStepPictures ==
  ASSUME Calls, PicInv, NEW t \in Threads, PictureStep(t)
  PROVE  PicInv'
<1>1. ASSUME \A w \in Threads : Aside(w), UNCHANGED <<memo, leased, inline, budget>>
      PROVE  PicInv'
  <2>1. /\ budget' \in [Sets -> [backgrounds : Nat, pictures : Nat]]
        /\ \A s \in Sets : budget'[s].pictures = budget[s].pictures
    BY <1>1 DEF PicInv
  <2> HIDE DEF Aside
  <2> QED
    BY <1>1, <2>1, AsideKept
<1>2. CASE LockState(t) \/ PictureKnown(t) \/ PictureNew(t)
  <2>1. /\ pc[t] \in {"lock", "picture", "picture register"} /\ call' = call
        /\ \E place \in {"ask", "left", "picture wait", "picture register"} : Goto(t, place)
        /\ UNCHANGED <<memo, leased, inline, budget>>
    BY <1>2 DEF LockState, PictureKnown, PictureNew, pictureVars
  <2>2. pc'[t] \in {"ask", "left", "picture wait", "picture register"}
    BY <2>1 DEF Goto, Calls
  <2>3. Aside(t)
    BY <2>1, <2>2, MoveAside DEF WorkPlaces, LeasePlaces
  <2>4. \A w \in Threads : Aside(w)
    BY <2>1, <2>3, GotoAside
  <2> QED
    BY <1>1, <2>1, <2>4
<1>3. CASE PictureRoom(t)
  <2>1. /\ pc[t] = "picture room" /\ call' = call /\ Goto(t, "picture decode")
        /\ UNCHANGED <<memo, leased, inline, budget>>
    BY <1>3 DEF PictureRoom, pictureVars
  <2>2. pc'[t] = "picture decode"
    BY <2>1 DEF Goto, Calls
  <2>3. Aside(t)
    BY <2>1, <2>2, MoveAside DEF WorkPlaces, LeasePlaces
  <2>4. \A w \in Threads : Aside(w)
    BY <2>1, <2>3, GotoAside
  <2> QED
    BY <1>1, <2>1, <2>4
<1>4. CASE PictureRelease(t)
  <2>1. /\ pc[t] = "picture release" /\ call' = call /\ PermitsBack(t, "picture complete")
        /\ UNCHANGED <<memo, leased, inline, budget>>
    BY <1>4 DEF PictureRelease, pictureVars
  <2>2. \A w \in Threads : Aside(w)
    BY <2>1, BackAside DEF LeasePlaces
  <2> QED
    BY <1>1, <2>1, <2>2
<1>5. CASE PictureNotify(t)
  <2>1. /\ UNCHANGED <<memo, leased, inline, budget>>
        /\ \A w \in Threads :
             /\ call'[w] = call[w]
             /\ pc'[w] = pc[w] \/ (pc[w] \in {"picture notify", "picture wait"} /\ pc'[w] = "left")
    BY <1>5 DEF PictureNotify, pictureVars
  <2>2. ASSUME NEW w \in Threads
        PROVE  Aside(w)
    <3>1. CASE pc'[w] = pc[w]
      BY <2>1, <3>1, StillAside
    <3>2. CASE pc[w] \in {"picture notify", "picture wait"} /\ pc'[w] = "left"
      BY <2>1, <3>2, MoveAside DEF WorkPlaces, LeasePlaces
    <3> QED
      BY <2>1, <3>1, <3>2
  <2> QED
    BY <1>1, <2>1, <2>2
<1>6. CASE ReturnUrl(t)
  <2>1. \A w \in Threads : Aside(w)
    BY <1>6, ForgetAside DEF ReturnUrl
  <2> QED
    BY <1>1, <1>6, <2>1 DEF ReturnUrl
<1> QED
  BY <1>2, <1>3, <1>4, <1>5, <1>6, RegisterPictures, DecodePictures, CompletePictures
     DEF PictureStep

LEMMA PicturesStep == Calls /\ PicInv /\ [PNext]_allVars => PicInv'
<1> SUFFICES ASSUME Calls, PicInv, [PNext]_allVars
             PROVE  PicInv'
  OBVIOUS
<1>1. ASSUME \A w \in Threads : Aside(w), UNCHANGED <<memo, leased, inline, budget>>
      PROVE  PicInv'
  <2>1. /\ budget' \in [Sets -> [backgrounds : Nat, pictures : Nat]]
        /\ \A s \in Sets : budget'[s].pictures = budget[s].pictures
    BY <1>1 DEF PicInv
  <2> HIDE DEF Aside
  <2> QED
    BY <1>1, <2>1, AsideKept
<1>2. ASSUME NEW t \in Threads, NEW s \in Sets, NEW u \in Urls, Url(t, s, u)
      PROVE  PicInv'
  <2> DEFINE request == [set |-> s, for |-> "background", asker |-> s, url |-> u,
                         tried |-> FALSE]
  <2>1. Call(t, "url", "lock", request) /\ "lock" \notin WorkPlaces
    BY <1>2 DEF Url, WorkPlaces
  <2> HIDE DEF request
  <2>2. \A w \in Threads : Aside(w)
    BY <2>1, CallAside
  <2> QED
    BY <1>1, <1>2, <2>1, <2>2 DEF Url, Call, pictureVars
<1>3. ASSUME NEW t \in Threads, NEW s \in Sets, NEW p \in Pictures, Data(t, s, p)
      PROVE  PicInv'
  <2> DEFINE request == [set |-> s, for |-> "picture", asker |-> s, picture |-> p]
  <2>1. Call(t, "data", "picture", request) /\ "picture" \notin WorkPlaces
    BY <1>3 DEF Data, WorkPlaces
  <2> HIDE DEF request
  <2>2. \A w \in Threads : Aside(w)
    BY <2>1, CallAside
  <2> QED
    BY <1>1, <1>3, <2>1, <2>2 DEF Data, Call, pictureVars
<1>4. CASE UNCHANGED allVars
  <2>1. UNCHANGED <<pc, call, memo, leased, inline, budget>>
    BY <1>4 DEF allVars, vars, threadVars, pictureVars
  <2>2. \A w \in Threads : Aside(w)
    BY <2>1, StillAside
  <2> QED
    BY <1>1, <2>1, <2>2
<1> QED
  BY <1>2, <1>3, <1>4, NextPictures, PictureStepPictures, DropAllPictures DEF PNext

LEMMA PicturesInit == PInit => PicInv
<1> SUFFICES ASSUME PInit
             PROVE  PicInv
  OBVIOUS
<1>1. /\ memo = [s \in Sets |-> [p \in Pictures |-> None]]
      /\ leased = [t \in Threads |-> 0] /\ inline = [s \in Sets |-> 0]
      /\ budget = [s \in Sets |-> [backgrounds |-> 0, pictures |-> 0]]
      /\ \A t \in Threads : pc[t] = "idle"
  BY DEF PInit, Init
<1>2. \A t \in Threads : ~Works(t)
  BY <1>1 DEF Works, WorkPlaces
<1> HIDE DEF Works
<1>3. ASSUME NEW s \in Sets
      PROVE  /\ budget[s].pictures = Cardinality(Registered(s))
             /\ inline[s] = SumFunctionOnSet(MemoLeases(s), Pictures)
                              + SumFunctionOnSet(HandLeases(s), Threads)
  <2>1. Registered(s) = {}
    BY <1>1 DEF Registered
  <2>2. /\ \A p \in Pictures : MemoLeases(s)[p] = 0
        /\ \A t \in Threads : HandLeases(s)[t] = 0
    BY <1>1, <1>2 DEF MemoLeases, LeaseOf, HandLeases
  <2>3. IsFiniteSet(Pictures) /\ IsFiniteSet(Threads)
    BY PicturesAssumption, ImagesAssumption DEF PicturesAssumption, ImagesAssumption
  <2>4. /\ SumFunctionOnSet(MemoLeases(s), Pictures) = 0
        /\ SumFunctionOnSet(HandLeases(s), Threads) = 0
    BY <2>2, <2>3, SumOfNothing
  <2>5. inline[s] = 0 /\ budget[s].pictures = 0
    BY <1>1
  <2> QED
    BY <2>1, <2>4, <2>5, FS_EmptySet
<1> QED
  BY <1>1, <1>2, <1>3 DEF PicInv

LEMMA PicturesImplied == Calls /\ PicInv => PictureChargedOnce
<1> SUFFICES ASSUME Calls, PicInv
             PROVE  PictureChargedOnce
  OBVIOUS
<1>1. ASSUME NEW s \in Sets
      PROVE  budget[s].pictures = Cardinality({p \in Pictures : memo[s][p] # None})
  BY DEF PicInv, Registered
<1>2. ASSUME NEW s \in Sets, NEW p \in Pictures, NEW t \in Threads
      PROVE  Working(t, s, p) <=> memo[s][p] # None /\ memo[s][p].owner = t
  <2>1. Works(t) /\ call[t].set = s /\ call[t].picture = p
          <=> memo[s][p] # None /\ memo[s][p].owner = t
    BY DEF PicInv
  <2>2. call[t] # None /\ call[t].for = "picture" /\ pc[t] \in WorkPlaces <=> Works(t)
    BY CallFields DEF Works, Calls, Belongs
  <2> HIDE DEF Works
  <2> QED
    BY <2>1, <2>2 DEF Working, WorkPlaces
<1> QED
  BY <1>1, <1>2 DEF PictureChargedOnce

\* For every number of sets, pictures and threads: a data: picture is charged to
\* its page once, and whoever works on it is the one owner its memo names
\* (svg_images.rs data_with, complete_data).
THEOREM PictureAlwaysChargedOnce == PSpec => []PictureChargedOnce
BY CallsInit, CallsStep, PicturesInit, PicturesStep, PicturesImplied, PTL DEF PSpec

----------------------------------------------------------------------------
(* The accounts of the cache: what is kept, of each set and of all of them. *)

SceneEntries == [url : Urls, size : Sizes, bytes : Nat]

Costs(kept) == [u \in Urls |-> EntryBytes(kept[u])]

Taken == [s \in Sets |-> decoded[s] + sceneBytes[s] + inline[s]]

AccInv ==
  /\ entries \in [Sets -> [Urls -> CachedImages \cup {None}]]
  /\ scenes \in [Sets -> Seq(SceneEntries)]
  /\ decoded \in [Sets -> Nat] /\ sceneBytes \in [Sets -> Nat] /\ inline \in [Sets -> Nat]
  /\ \A s \in Sets :
       /\ decoded[s] = SumFunctionOnSet(Costs(entries[s]), Urls)
       /\ sceneBytes[s] = Bytes(scenes[s])
       /\ decoded[s] + sceneBytes[s] + inline[s] <= SetLimit
  /\ retained = SumFunctionOnSet(Taken, Sets) /\ retained <= ProcessLimit

LEMMA Weighed == Weighs(SceneEntries) /\ Weighs(Rasters)
BY DEF Weighs, SceneEntries, Rasters

LEMMA Limits ==
  /\ IsFiniteSet(Sets) /\ IsFiniteSet(Urls)
  /\ SetLimit \in Nat /\ ProcessLimit \in Nat /\ SourceBytes \in Nat
  /\ MaxRasterSizes \in Nat \ {0} /\ ImageBytes \subseteq Nat /\ SceneBytes \subseteq Nat
  /\ SvgUrls \subseteq Urls /\ None \notin CachedImages
BY ImagesAssumption DEF ImagesAssumption

\* What an entry costs.
LEMMA EntryCosts ==
  ASSUME NEW e \in CachedImages \cup {None}
  PROVE  /\ RasterBytes(e) \in Nat /\ SourceCost(e) \in Nat /\ EntryBytes(e) \in Nat
         /\ EntryBytes(e) = SourceCost(e) + RasterBytes(e)
         /\ e = None => EntryBytes(e) = 0
<1>1. RasterBytes(e) \in Nat
  <2>1. CASE e = None
    BY <2>1 DEF RasterBytes
  <2>2. CASE e # None
    <3>1. e.rasters \in Seq(Rasters)
      BY <2>2 DEF CachedImages
    <3>2. Bytes(e.rasters) \in Nat
      BY <3>1, Weighed, EntriesAreSized
    <3> QED
      BY <2>2, <3>2 DEF RasterBytes
  <2> QED
    BY <2>1, <2>2
<1>2. SourceCost(e) \in Nat
  BY Limits DEF SourceCost
<1>3. EntryBytes(e) = SourceCost(e) + RasterBytes(e)
  BY DEF EntryBytes
<1>4. e = None => RasterBytes(e) = 0 /\ SourceCost(e) = 0
  BY DEF RasterBytes, SourceCost
<1> QED
  BY <1>1, <1>2, <1>3, <1>4

LEMMA NewCosts ==
  ASSUME NEW svg \in BOOLEAN, NEW kept \in Seq(Rasters)
  PROVE  LET e == [svg |-> svg, rasters |-> kept] IN
         /\ e \in CachedImages /\ e # None
         /\ EntryBytes(e) = (IF svg THEN SourceBytes ELSE 0) + Bytes(kept)
<1> DEFINE e == [svg |-> svg, rasters |-> kept]
<1>1. e \in CachedImages /\ e # None
  BY Limits DEF CachedImages
<1>2. SourceCost(e) = (IF svg THEN SourceBytes ELSE 0) /\ RasterBytes(e) = Bytes(kept)
  BY <1>1 DEF SourceCost, RasterBytes
<1> HIDE DEF e
<1>3. EntryBytes(e) = (IF svg THEN SourceBytes ELSE 0) + Bytes(kept)
  BY <1>2 DEF EntryBytes
<1> QED
  BY <1>1, <1>3 DEF e

LEMMA CostWeights ==
  ASSUME NEW kept \in [Urls -> CachedImages \cup {None}]
  PROVE  /\ Weights(Costs(kept), Urls) /\ SumFunctionOnSet(Costs(kept), Urls) \in Nat
         /\ \A u \in Urls : EntryBytes(kept[u]) <= SumFunctionOnSet(Costs(kept), Urls)
<1>1. \A u \in Urls : Costs(kept)[u] = EntryBytes(kept[u]) /\ EntryBytes(kept[u]) \in Nat
  BY EntryCosts DEF Costs
<1>2. Weights(Costs(kept), Urls)
  BY <1>1 DEF Weights
<1>3. /\ SumFunctionOnSet(Costs(kept), Urls) \in Nat
      /\ \A u \in Urls :
           /\ SumFunctionOnSet(Costs(kept), Urls \ {u}) \in Nat
           /\ SumFunctionOnSet(Costs(kept), Urls) =
                Costs(kept)[u] + SumFunctionOnSet(Costs(kept), Urls \ {u})
  BY <1>2, Limits, SumElement
<1>4. ASSUME NEW u \in Urls
      PROVE  EntryBytes(kept[u]) <= SumFunctionOnSet(Costs(kept), Urls)
  <2> DEFINE a == EntryBytes(kept[u])
             b == SumFunctionOnSet(Costs(kept), Urls \ {u})
             c == SumFunctionOnSet(Costs(kept), Urls)
  <2>1. a \in Nat /\ b \in Nat /\ c = a + b
    BY <1>1, <1>3
  <2> HIDE DEF a, b, c
  <2>2. a <= c
    BY <2>1
  <2> QED
    BY <2>2 DEF a, c
<1> QED
  BY <1>2, <1>3, <1>4

\* One entry of a set is replaced.
LEMMA CostChange ==
  ASSUME NEW kept \in [Urls -> CachedImages \cup {None}], NEW u \in Urls,
         NEW e \in CachedImages
  PROVE  LET new == [kept EXCEPT ![u] = e] IN
         /\ new \in [Urls -> CachedImages \cup {None}]
         /\ SumFunctionOnSet(Costs(new), Urls) =
              SumFunctionOnSet(Costs(kept), Urls) - EntryBytes(kept[u]) + EntryBytes(e)
<1> DEFINE new == [kept EXCEPT ![u] = e]
           a == Costs(kept)
           b == Costs(new)
<1>1. new \in [Urls -> CachedImages \cup {None}]
  OBVIOUS
<1>2. /\ a[u] = EntryBytes(kept[u]) /\ b[u] = EntryBytes(e)
      /\ \A y \in Urls \ {u} : b[y] = a[y]
  BY DEF Costs
<1>3. /\ Weights(a, Urls) /\ SumFunctionOnSet(a, Urls) \in Nat
      /\ Weights(b, Urls) /\ SumFunctionOnSet(b, Urls) \in Nat
  <2> HIDE DEF new
  <2> QED
    BY <1>1, CostWeights
<1>4. EntryBytes(kept[u]) \in Nat /\ EntryBytes(e) \in Nat
  BY EntryCosts
<1> HIDE DEF a, b
<1>5. SumFunctionOnSet(b, Urls) + a[u] = SumFunctionOnSet(a, Urls) + b[u]
  BY <1>2, <1>3, Limits, SumChange
<1>6. SumFunctionOnSet(b, Urls) = SumFunctionOnSet(a, Urls) - EntryBytes(kept[u]) + EntryBytes(e)
  BY <1>2, <1>3, <1>4, <1>5
<1> QED
  BY <1>1, <1>6 DEF a, b

LEMMA ThreeNats ==
  ASSUME NEW x \in Nat, NEW y \in Nat, NEW z \in Nat PROVE x + y + z \in Nat
OBVIOUS

LEMMA SameSum ==
  ASSUME NEW x \in Int, NEW y \in Nat, NEW z \in Nat, y + z = x + z
  PROVE  x = y
OBVIOUS

LEMMA Itself ==
  ASSUME NEW S, NEW T, NEW f \in [S -> T], NEW s \in S
  PROVE  f = [f EXCEPT ![s] = f[s]]
OBVIOUS

\* What a set keeps becomes this, ...
Becomes(s, es, d, sc, b, i) ==
  /\ entries' = [entries EXCEPT ![s] = es] /\ decoded' = [decoded EXCEPT ![s] = d]
  /\ scenes' = [scenes EXCEPT ![s] = sc] /\ sceneBytes' = [sceneBytes EXCEPT ![s] = b]
  /\ inline' = [inline EXCEPT ![s] = i]

\* ... counted as what it is, within the limit of the set and that of the
\* process, with `retained' changed by as much.
Counted(s, es, d, sc, b, i) ==
  /\ d = SumFunctionOnSet(Costs(es), Urls) /\ b = Bytes(sc) /\ d + b + i <= SetLimit
  /\ retained' + (decoded[s] + sceneBytes[s] + inline[s]) = retained + (d + b + i)
  /\ retained' \in Int /\ retained' <= ProcessLimit

LEMMA SetKept ==
  ASSUME AccInv, NEW s \in Sets, NEW es \in [Urls -> CachedImages \cup {None}],
         NEW d \in Nat, NEW sc \in Seq(SceneEntries), NEW b \in Nat, NEW i \in Nat,
         Becomes(s, es, d, sc, b, i), Counted(s, es, d, sc, b, i)
  PROVE  AccInv'
<1>0. /\ entries' = [entries EXCEPT ![s] = es] /\ decoded' = [decoded EXCEPT ![s] = d]
      /\ scenes' = [scenes EXCEPT ![s] = sc] /\ sceneBytes' = [sceneBytes EXCEPT ![s] = b]
      /\ inline' = [inline EXCEPT ![s] = i]
      /\ d = SumFunctionOnSet(Costs(es), Urls) /\ b = Bytes(sc) /\ d + b + i <= SetLimit
      /\ retained' + (decoded[s] + sceneBytes[s] + inline[s]) = retained + (d + b + i)
      /\ retained' \in Int /\ retained' <= ProcessLimit
  BY DEF Becomes, Counted
<1>1. /\ entries' \in [Sets -> [Urls -> CachedImages \cup {None}]]
      /\ scenes' \in [Sets -> Seq(SceneEntries)]
      /\ decoded' \in [Sets -> Nat] /\ sceneBytes' \in [Sets -> Nat] /\ inline' \in [Sets -> Nat]
  BY <1>0 DEF AccInv
<1>2. /\ entries'[s] = es /\ scenes'[s] = sc
      /\ decoded'[s] = d /\ sceneBytes'[s] = b /\ inline'[s] = i
  BY <1>0 DEF AccInv
<1>3. \A v \in Sets \ {s} :
        /\ entries'[v] = entries[v] /\ scenes'[v] = scenes[v]
        /\ decoded'[v] = decoded[v] /\ sceneBytes'[v] = sceneBytes[v] /\ inline'[v] = inline[v]
  BY <1>0 DEF AccInv
<1>4. ASSUME NEW v \in Sets
      PROVE  /\ decoded'[v] = SumFunctionOnSet(Costs(entries'[v]), Urls)
             /\ sceneBytes'[v] = Bytes(scenes'[v])
             /\ decoded'[v] + sceneBytes'[v] + inline'[v] <= SetLimit
  <2>1. CASE v = s
    BY <1>0, <1>2, <2>1
  <2>2. CASE v # s
    <3>1. /\ decoded[v] = SumFunctionOnSet(Costs(entries[v]), Urls)
          /\ sceneBytes[v] = Bytes(scenes[v])
          /\ decoded[v] + sceneBytes[v] + inline[v] <= SetLimit
      BY DEF AccInv
    <3> QED
      BY <1>3, <2>2, <3>1
  <2> QED
    BY <2>1, <2>2
<1>5. retained' = SumFunctionOnSet(Taken', Sets)
  <2> DEFINE f == Taken
             g == Taken'
             before == decoded[s] + sceneBytes[s] + inline[s]
             after == d + b + i
             x == SumFunctionOnSet(f, Sets)
             y == SumFunctionOnSet(g, Sets)
  <2>1. /\ \A v \in Sets : f[v] = decoded[v] + sceneBytes[v] + inline[v]
        /\ \A v \in Sets : g[v] = decoded'[v] + sceneBytes'[v] + inline'[v]
    BY DEF Taken
  <2>2. ASSUME NEW v \in Sets PROVE f[v] \in Nat /\ g[v] \in Nat
    <3>1. /\ decoded[v] \in Nat /\ sceneBytes[v] \in Nat /\ inline[v] \in Nat
          /\ decoded'[v] \in Nat /\ sceneBytes'[v] \in Nat /\ inline'[v] \in Nat
      BY <1>1 DEF AccInv
    <3>2. /\ decoded[v] + sceneBytes[v] + inline[v] \in Nat
          /\ decoded'[v] + sceneBytes'[v] + inline'[v] \in Nat
      BY <3>1, ThreeNats
    <3> HIDE DEF f, g
    <3> QED
      BY <2>1, <3>2
  <2>3. f[s] = before /\ g[s] = after
    BY <1>2, <2>1
  <2>4. ASSUME NEW v \in Sets \ {s} PROVE g[v] = f[v]
    <3>1. /\ f[v] = decoded[v] + sceneBytes[v] + inline[v]
          /\ g[v] = decoded'[v] + sceneBytes'[v] + inline'[v]
      BY <2>1
    <3>2. /\ decoded'[v] = decoded[v] /\ sceneBytes'[v] = sceneBytes[v]
          /\ inline'[v] = inline[v]
      BY <1>3
    <3> HIDE DEF f, g
    <3> QED
      BY <3>1, <3>2
  <2>5. retained = x
    BY DEF AccInv
  <2>6. retained' + before = retained + after
    BY <1>0
  <2> HIDE DEF f, g, before, after
  <2>7. Weights(f, Sets) /\ Weights(g, Sets)
    BY <2>2 DEF Weights
  <2>8. y + f[s] = x + g[s]
    BY <2>4, <2>7, Limits, SumChange
  <2>9. x \in Nat /\ y \in Nat
    BY <2>7, Limits, SumElement
  <2>10. before \in Nat /\ after \in Nat
    BY <2>2, <2>3
  <2>11. y + before = x + after /\ retained' + before = x + after
    BY <2>3, <2>5, <2>6, <2>8
  <2> HIDE DEF x, y
  <2>12. retained' = y
    <3> DEFINE r == retained'
    <3>1. r \in Int /\ y + before = r + before
      BY <1>0, <2>11
    <3> HIDE DEF r
    <3>2. r = y
      BY <2>9, <2>10, <3>1, SameSum
    <3> QED
      BY <3>2 DEF r
  <2> QED
    BY <2>12 DEF g, y
<1> QED
  BY <1>0, <1>1, <1>4, <1>5 DEF AccInv

LEMMA Least ==
  ASSUME NEW S \in SUBSET Nat, S # {}
  PROVE  Min(S) \in S /\ Min(S) \in Nat
<1>1. \E n \in S : \A m \in S : n <= m
  BY LeastNatural
<1> QED
  BY <1>1 DEF Min

LEMMA RetainedNat == AccInv => retained \in Nat
<1> SUFFICES ASSUME AccInv PROVE retained \in Nat
  OBVIOUS
<1> DEFINE f == Taken
<1>1. ASSUME NEW s \in Sets PROVE f[s] \in Nat
  <2>1. decoded[s] \in Nat /\ sceneBytes[s] \in Nat /\ inline[s] \in Nat
    BY DEF AccInv
  <2>2. decoded[s] + sceneBytes[s] + inline[s] \in Nat
    BY <2>1, ThreeNats
  <2> QED
    BY <2>2 DEF Taken
<1>2. retained = SumFunctionOnSet(f, Sets)
  BY DEF AccInv
<1> HIDE DEF f
<1>3. Weights(f, Sets)
  BY <1>1 DEF Weights
<1> QED
  BY <1>2, <1>3, Limits, SumElement

\* The facts about one set that the steps on its cache use.
LEMMA OfSet ==
  ASSUME AccInv, NEW s \in Sets
  PROVE  /\ entries[s] \in [Urls -> CachedImages \cup {None}]
         /\ scenes[s] \in Seq(SceneEntries)
         /\ decoded[s] \in Nat /\ sceneBytes[s] \in Nat /\ inline[s] \in Nat
         /\ decoded[s] = SumFunctionOnSet(Costs(entries[s]), Urls)
         /\ sceneBytes[s] = Bytes(scenes[s])
         /\ decoded[s] + sceneBytes[s] + inline[s] <= SetLimit
         /\ retained \in Nat /\ retained <= ProcessLimit
BY RetainedNat DEF AccInv

LEMMA RastersOf ==
  ASSUME AccInv, NEW s \in Sets, NEW u \in Urls, NEW svg \in BOOLEAN,
         NEW size \in Sizes \cup {"natural"}, NEW bytes \in Nat
  PROVE  WithRaster(s, u, svg, size, bytes) \in Seq(Rasters)
<1> DEFINE old == IF entries[s][u] # None /\ svg THEN entries[s][u].rasters ELSE <<>>
           others == Without(old, {e \in Range(old) : e.size = size})
           one == [size |-> size, bytes |-> bytes]
           all == Append(others, one)
           k == Monus(Len(all), MaxRasterSizes)
<1>1. old \in Seq(Rasters)
  <2>1. entries[s][u] \in CachedImages \cup {None}
    BY OfSet
  <2>2. entries[s][u] # None => entries[s][u].rasters \in Seq(Rasters)
    BY <2>1 DEF CachedImages
  <2>3. <<>> \in Seq(Rasters)
    OBVIOUS
  <2> QED
    BY <2>2, <2>3
<1>2. one \in Rasters
  BY DEF Rasters
<1>3. WithRaster(s, u, svg, size, bytes) = Drops(all, k)
  BY DEF WithRaster
<1> HIDE DEF old, one
<1>4. others \in Seq(Rasters)
  BY <1>1, WithoutKeeps
<1> HIDE DEF others
<1>5. all \in Seq(Rasters)
  BY <1>2, <1>4
<1> HIDE DEF all
<1>6. Len(all) \in Nat
  BY <1>5, LenProperties
<1>7. k \in Nat /\ k <= Len(all)
  BY <1>6, Limits DEF Monus
<1> HIDE DEF k
<1>8. Drops(all, k) \in Seq(Rasters)
  BY <1>5, <1>7, Weighed, DropsLessens
<1> QED
  BY <1>3, <1>8

\* Room in the set and in the process is room for what it says.
LEMMA RoomInSet ==
  ASSUME NEW next \in Nat, NEW b \in Nat, NEW i \in Nat, NEW d \in Nat, NEW limit \in Nat,
         d + b + i <= limit, next <= Monus(Monus(limit, b), i)
  PROVE  next + b + i <= limit
<1>1. b <= limit /\ i <= limit - b
  OBVIOUS
<1>2. Monus(limit, b) = limit - b /\ Monus(limit - b, i) = limit - b - i
  BY <1>1 DEF Monus
<1> QED
  BY <1>1, <1>2

LEMMA RoomInProcess ==
  ASSUME NEW next \in Nat, NEW d \in Nat, NEW r \in Nat, NEW limit \in Nat, r <= limit,
         next <= d \/ r + (next - d) <= limit
  PROVE  r + next - d <= limit /\ r + next - d \in Int
OBVIOUS

LEMMA SwapSum ==
  ASSUME NEW next \in Nat, NEW d \in Nat, NEW b \in Nat, NEW i \in Nat, NEW r \in Nat
  PROVE  (r + next - d) + (d + b + i) = r + (next + b + i)
OBVIOUS

\* A raster is cached.
LEMMA RasterKept ==
  ASSUME AccInv, NEW s \in Sets, NEW u \in Urls, NEW svg \in BOOLEAN,
         NEW size \in Sizes \cup {"natural"}, NEW bytes \in Nat,
         Admitted(s, u, svg, size, bytes), CacheRaster(s, u, svg, size, bytes),
         inline' = inline
  PROVE  AccInv' /\ \E e \in CachedImages : entries' = [entries EXCEPT ![s][u] = e]
<1> DEFINE rasters == WithRaster(s, u, svg, size, bytes)
           k == Min(Victims(s, u, svg, rasters))
           kept == Drops(rasters, k)
           next == Holding(s, u, svg, kept)
           e == [svg |-> svg, rasters |-> kept]
           es == [entries[s] EXCEPT ![u] = e]
<1>1. rasters \in Seq(Rasters) /\ Len(rasters) \in Nat
  BY RastersOf, LenProperties
<1>2. /\ entries' = [entries EXCEPT ![s][u] = e]
      /\ decoded' = [decoded EXCEPT ![s] = next] /\ retained' = retained + next - decoded[s]
      /\ scenes' = scenes /\ sceneBytes' = sceneBytes
  BY DEF CacheRaster
<1>3. /\ k \in 0..(Len(rasters) - 1) /\ Fits(s, next) /\ Reserves(s, next)
  <2>1. Victims(s, u, svg, rasters) # {}
    BY DEF Admitted
  <2> HIDE DEF rasters
  <2>2. Victims(s, u, svg, rasters) \in SUBSET Nat
    BY <1>1 DEF Victims
  <2>3. k \in Victims(s, u, svg, rasters)
    BY <2>1, <2>2, Least
  <2> HIDE DEF k
  <2> QED
    BY <2>3 DEF Victims
<1> HIDE DEF rasters, k
<1>4. kept \in Seq(Rasters) /\ Bytes(kept) \in Nat
  BY <1>1, <1>3, Weighed, DropsLessens
<1> HIDE DEF kept
<1>5. e \in CachedImages /\ EntryBytes(e) = (IF svg THEN SourceBytes ELSE 0) + Bytes(kept)
  BY <1>4, NewCosts
<1> HIDE DEF e
<1>6. /\ es \in [Urls -> CachedImages \cup {None}]
      /\ SumFunctionOnSet(Costs(es), Urls) = decoded[s] - EntryBytes(entries[s][u]) + EntryBytes(e)
  BY <1>5, OfSet, CostChange
<1>7. next = SumFunctionOnSet(Costs(es), Urls)
  <2>1. entries[s][u] \in CachedImages \cup {None}
    BY OfSet
  <2> DEFINE old == entries[s][u]
             a == RasterBytes(old)
             b == SourceCost(old)
             c == (IF svg THEN SourceBytes ELSE 0)
             n == Bytes(kept)
             d == decoded[s]
             sum == SumFunctionOnSet(Costs(es), Urls)
  <2>2. a \in Nat /\ b \in Nat /\ EntryBytes(old) = b + a
    BY <2>1, EntryCosts
  <2>3. c \in Nat /\ n \in Nat /\ d \in Nat
    BY <1>4, Limits, OfSet
  <2>4. sum = d - EntryBytes(old) + (c + n)
    BY <1>5, <1>6
  <2>5. next = d - a - b + c + n
    BY DEF Holding
  <2> HIDE DEF a, b, c, n, d, sum, next, old
  <2>6. sum = d - (b + a) + (c + n)
    BY <2>2, <2>4
  <2>7. next = sum
    BY <2>2, <2>3, <2>5, <2>6
  <2> QED
    BY <2>7 DEF sum
<1>8. next \in Nat
  BY <1>6, <1>7, CostWeights
<1> HIDE DEF next
<1> DEFINE d == decoded[s]
           b == sceneBytes[s]
           i == inline[s]
<1>9. /\ d \in Nat /\ b \in Nat /\ i \in Nat /\ d + b + i <= SetLimit
      /\ b = Bytes(scenes[s]) /\ scenes[s] \in Seq(SceneEntries)
      /\ retained \in Nat /\ retained <= ProcessLimit
  BY OfSet
<1>10. /\ next <= Monus(Monus(SetLimit, b), i)
       /\ next <= d \/ retained + (next - d) <= ProcessLimit
  BY <1>3 DEF Fits, Reserves
<1>11. /\ entries' = [entries EXCEPT ![s] = es]
       /\ scenes' = [scenes EXCEPT ![s] = scenes[s]]
       /\ sceneBytes' = [sceneBytes EXCEPT ![s] = b] /\ inline' = [inline EXCEPT ![s] = i]
  <2>1. /\ scenes = [scenes EXCEPT ![s] = scenes[s]]
        /\ sceneBytes = [sceneBytes EXCEPT ![s] = b] /\ inline = [inline EXCEPT ![s] = i]
    BY DEF AccInv
  <2>2. entries' = [entries EXCEPT ![s] = es]
    BY <1>2 DEF AccInv
  <2> QED
    BY <1>2, <2>1, <2>2
<1>12. decoded' = [decoded EXCEPT ![s] = next] /\ retained' = retained + next - d
  BY <1>2
<1> HIDE DEF es
<1>13. next + b + i <= SetLimit
  <2> HIDE DEF d, b, i
  <2> QED
    BY <1>8, <1>9, <1>10, Limits, RoomInSet
<1>14. /\ retained' \in Int /\ retained' <= ProcessLimit
       /\ retained' + (d + b + i) = retained + (next + b + i)
  <2> HIDE DEF d, b, i
  <2>1. retained + next - d <= ProcessLimit /\ retained + next - d \in Int
    BY <1>8, <1>9, <1>10, Limits, RoomInProcess
  <2>2. (retained + next - d) + (d + b + i) = retained + (next + b + i)
    BY <1>8, <1>9, SwapSum
  <2> QED
    BY <1>12, <2>1, <2>2
<1>15. Becomes(s, es, next, scenes[s], b, i) /\ Counted(s, es, next, scenes[s], b, i)
  BY <1>7, <1>9, <1>11, <1>12, <1>13, <1>14 DEF Becomes, Counted
<1>16. AccInv'
  <2> HIDE DEF d, b, i
  <2> QED
    BY <1>6, <1>8, <1>9, <1>15, SetKept
<1> QED
  BY <1>2, <1>5, <1>16

\* What is kept of the scenes changes, and nothing else of the set.
LEMMA ScenesKept ==
  ASSUME AccInv, NEW s \in Sets, NEW sc \in Seq(SceneEntries),
         scenes' = [scenes EXCEPT ![s] = sc], sceneBytes' = [sceneBytes EXCEPT ![s] = Bytes(sc)],
         UNCHANGED <<entries, decoded, inline>>,
         decoded[s] + Bytes(sc) + inline[s] <= SetLimit,
         retained' = retained - (sceneBytes[s] - Bytes(sc)), retained' <= ProcessLimit
  PROVE  AccInv'
<1> DEFINE es == entries[s]
           d == decoded[s]
           b == sceneBytes[s]
           i == inline[s]
           n == Bytes(sc)
<1>1. /\ es \in [Urls -> CachedImages \cup {None}] /\ d = SumFunctionOnSet(Costs(es), Urls)
      /\ d \in Nat /\ b \in Nat /\ i \in Nat /\ retained \in Nat
  BY OfSet
<1>2. n \in Nat
  BY Weighed, EntriesAreSized
<1>3. /\ entries' = [entries EXCEPT ![s] = es] /\ decoded' = [decoded EXCEPT ![s] = d]
      /\ inline' = [inline EXCEPT ![s] = i]
  BY DEF AccInv
<1>4. retained' = retained - (b - n) /\ d + n + i <= SetLimit
      /\ sceneBytes' = [sceneBytes EXCEPT ![s] = n]
  OBVIOUS
<1>5. retained' \in Int /\ retained' + (d + b + i) = retained + (d + n + i)
  <2> HIDE DEF d, b, i, n
  <2> DEFINE r == retained'
  <2>1. r = retained - (b - n)
    BY <1>4
  <2> HIDE DEF r
  <2>2. r \in Int /\ r + (d + b + i) = retained + (d + n + i)
    BY <1>1, <1>2, <2>1
  <2> QED
    BY <2>2 DEF r
<1>6. n = Bytes(sc)
  OBVIOUS
<1>7. Becomes(s, es, d, sc, n, i)
  BY <1>3, <1>4 DEF Becomes
<1>8. Counted(s, es, d, sc, n, i)
  BY <1>1, <1>4, <1>5 DEF Counted
<1> HIDE DEF es, n, d, b, i
<1> QED
  BY <1>1, <1>2, <1>7, <1>8, SetKept

\* A source takes its place and the scenes of its URL go.
LEMMA SourceKept ==
  ASSUME AccInv, NEW t \in Threads, CacheSource(t), inline' = inline,
         call[t].set \in Sets, call[t].url \in Urls
  PROVE  /\ AccInv'
         /\ \/ warned' = warned \cup {t} /\ UNCHANGED entries
            \/ \E e \in CachedImages : entries' = [entries EXCEPT ![call[t].set][call[t].url] = e]
<1> DEFINE s == call[t].set
           u == call[t].url
           next == decoded[s] - RasterBytes(entries[s][u]) - SourceCost(entries[s][u]) + SourceBytes
           sc == ScenesWithout(s, u)
           gone == Bytes(ScenesOf(s, u))
           e == [svg |-> TRUE, rasters |-> <<>>]
           es == [entries[s] EXCEPT ![u] = e]
<1>0. s \in Sets /\ u \in Urls
  OBVIOUS
<1>1. CASE ~(Fits(s, next) /\ Reserves(s, next))
  <2>1. UNCHANGED <<entries, decoded, scenes, sceneBytes, retained>> /\ warned' = warned \cup {t}
    BY <1>1 DEF CacheSource, keptVars, Warn
  <2>2. Taken' = Taken
    BY <2>1 DEF Taken
  <2> QED
    BY <2>1, <2>2 DEF AccInv
<1>2. CASE Fits(s, next) /\ Reserves(s, next)
  <2>1. /\ entries' = [entries EXCEPT ![s][u] = e]
        /\ decoded' = [decoded EXCEPT ![s] = next]
        /\ retained' = retained + next - decoded[s] - gone
        /\ scenes' = [scenes EXCEPT ![s] = sc]
        /\ sceneBytes' = [sceneBytes EXCEPT ![s] = @ - gone]
    BY <1>2 DEF CacheSource, Invalidated
  <2> HIDE DEF s, u
  <2>2. /\ e \in CachedImages /\ EntryBytes(e) = SourceBytes
    <3> DEFINE svg == TRUE
               none == <<>>
    <3>1. svg \in BOOLEAN /\ none \in Seq(Rasters) /\ e = [svg |-> svg, rasters |-> none]
          /\ svg = TRUE
      OBVIOUS
    <3>2. Bytes(none) = 0
      BY BytesOfNone
    <3> HIDE DEF svg, none, e
    <3>3. /\ e \in CachedImages
          /\ EntryBytes(e) = (IF svg THEN SourceBytes ELSE 0) + Bytes(none)
      BY <3>1, NewCosts
    <3> QED
      BY <3>3, <3>1, <3>2, Limits
  <2> HIDE DEF e
  <2>3. /\ es \in [Urls -> CachedImages \cup {None}]
        /\ SumFunctionOnSet(Costs(es), Urls) = decoded[s] - EntryBytes(entries[s][u]) + SourceBytes
    BY <1>0, <2>2, OfSet, CostChange
  <2>4. next = SumFunctionOnSet(Costs(es), Urls)
    <3> DEFINE old == entries[s][u]
               a == RasterBytes(old)
               c == SourceCost(old)
               d == decoded[s]
               sum == SumFunctionOnSet(Costs(es), Urls)
    <3>1. old \in CachedImages \cup {None} /\ d \in Nat
      BY <1>0, OfSet
    <3>2. a \in Nat /\ c \in Nat /\ EntryBytes(old) = c + a
      BY <3>1, EntryCosts
    <3>3. sum = d - EntryBytes(old) + SourceBytes
      BY <2>3
    <3>4. next = d - a - c + SourceBytes
      OBVIOUS
    <3> HIDE DEF a, c, d, sum, next, old
    <3>5. sum = d - (c + a) + SourceBytes
      BY <3>2, <3>3
    <3>6. next = sum
      BY <3>1, <3>2, <3>4, <3>5, Limits
    <3> QED
      BY <3>6 DEF sum
  <2>5. next \in Nat
    BY <2>3, <2>4, CostWeights
  <2>6. /\ sc \in Seq(SceneEntries) /\ Bytes(sc) \in Nat /\ gone \in Nat
        /\ Bytes(sc) + gone = Bytes(scenes[s])
    <3> DEFINE kept == scenes[s]
               mine == {x \in Range(kept) : x.url = u}
               others == {x \in Range(kept) : x.url # u}
    <3>1. kept \in Seq(SceneEntries)
      BY <1>0, OfSet
    <3>2. sc = Without(kept, mine) /\ gone = Bytes(Without(kept, others))
      BY DEF ScenesWithout, ScenesOf
    <3>3. \A j \in 1..Len(kept) : kept[j] \in mine <=> kept[j] \notin others
      <4>1. ASSUME NEW j \in 1..Len(kept) PROVE kept[j] \in Range(kept)
        <5>1. j \in DOMAIN kept
          BY <3>1, LenProperties
        <5> QED
          BY <5>1 DEF Range
      <4> QED
        BY <4>1
    <3> HIDE DEF kept, mine, others, sc, gone
    <3>4. /\ Bytes(Without(kept, mine)) + Bytes(Without(kept, others)) = Bytes(kept)
          /\ Bytes(Without(kept, mine)) \in Nat /\ Bytes(Without(kept, others)) \in Nat
          /\ Without(kept, mine) \in Seq(SceneEntries)
      BY <3>1, <3>3, Weighed, WithoutSplits, WithoutKeeps
    <3> QED
      BY <3>2, <3>4 DEF kept
  <2> HIDE DEF next, sc, gone
  <2> DEFINE d == decoded[s]
             b == sceneBytes[s]
             i == inline[s]
             n == Bytes(sc)
  <2>7. /\ d \in Nat /\ b \in Nat /\ i \in Nat /\ d + b + i <= SetLimit
        /\ b = n + gone /\ retained \in Nat /\ retained <= ProcessLimit
    BY <1>0, <2>6, OfSet
  <2>8. /\ next <= Monus(Monus(SetLimit, b), i)
        /\ next <= d \/ retained + (next - d) <= ProcessLimit
    BY <1>2 DEF Fits, Reserves
  <2>9. /\ entries' = [entries EXCEPT ![s] = es]
        /\ sceneBytes' = [sceneBytes EXCEPT ![s] = b - gone]
        /\ inline' = [inline EXCEPT ![s] = i] /\ retained' = retained + next - d - gone
    <3>1. inline = [inline EXCEPT ![s] = i]
      BY DEF AccInv
    <3>2. entries' = [entries EXCEPT ![s] = es]
      BY <2>1 DEF AccInv
    <3> QED
      BY <2>1, <3>1, <3>2
  <2> HIDE DEF es
  <2>10. n \in Nat /\ n = Bytes(sc)
    BY <2>6
  <2>11. /\ b - gone = n /\ next + n + i <= SetLimit
         /\ retained' \in Int /\ retained' <= ProcessLimit
         /\ retained' + (d + b + i) = retained + (next + n + i)
    <3> HIDE DEF d, b, i, n
    <3>1. next + b + i <= SetLimit
      BY <2>5, <2>7, <2>8, Limits, RoomInSet
    <3>2. retained + next - d <= ProcessLimit /\ retained + next - d \in Int
      BY <2>5, <2>7, <2>8, Limits, RoomInProcess
    <3>numbers. /\ next \in Nat /\ b \in Nat /\ n \in Nat /\ gone \in Nat /\ i \in Nat /\ d \in Nat
          /\ SetLimit \in Nat /\ retained \in Nat /\ b = n + gone
      BY <2>5, <2>6, <2>7, <2>10, Limits
    <3>3. b - gone = n /\ next + n + i <= SetLimit
      BY <3>1, <3>numbers
    <3> DEFINE r == retained'
    <3>4. r = retained + next - d - gone
      BY <2>9
    <3> HIDE DEF r
    <3>limit. ProcessLimit \in Nat
      BY Limits
    <3>5. r \in Int /\ r <= ProcessLimit
      BY <3>2, <3>4, <3>numbers, <3>limit
    <3>6. r + (d + b + i) = retained + (next + n + i)
      BY <3>4, <3>numbers
    <3> QED
      BY <3>3, <3>5, <3>6 DEF r
  <2>12. sceneBytes' = [sceneBytes EXCEPT ![s] = n]
    BY <2>9, <2>11
  <2> HIDE DEF n
  <2>13. Becomes(s, es, next, sc, n, i)
    BY <2>1, <2>9, <2>12 DEF Becomes
  <2>14. Counted(s, es, next, sc, n, i)
    BY <2>4, <2>10, <2>11 DEF Counted
  <2>15. AccInv'
    <3> HIDE DEF d, b, i
    <3> QED
      BY <1>0, <2>3, <2>5, <2>6, <2>7, <2>10, <2>13, <2>14, SetKept
  <2> QED
    BY <2>1, <2>2, <2>15 DEF s, u
<1> QED
  BY <1>1, <1>2

\* A scene is cached, or what makes room for it goes.
LEMMA SceneKept ==
  ASSUME AccInv, NEW s \in Sets, NEW u \in Urls, NEW size \in Sizes, NEW bytes \in Nat,
         CacheScene(s, u, size, bytes), UNCHANGED <<entries, decoded, inline>>
  PROVE  AccInv'
<1> DEFINE rest == OtherScenes(s, u, size)
           k == SceneVictims(s, rest, bytes)
           kept == Drops(rest, k)
           one == [url |-> u, size |-> size, bytes |-> bytes]
           d == decoded[s]
           b == sceneBytes[s]
           i == inline[s]
           n == Bytes(kept)
<1>1. /\ rest \in Seq(SceneEntries) /\ Bytes(rest) \in Nat /\ Bytes(rest) <= Bytes(scenes[s])
  <2> DEFINE all == scenes[s]
             gone == {x \in Range(all) : x.url = u /\ x.size = size}
  <2>1. all \in Seq(SceneEntries) /\ rest = Without(all, gone)
    BY OfSet DEF OtherScenes
  <2> HIDE DEF all, gone, rest
  <2>2. /\ Without(all, gone) \in Seq(SceneEntries) /\ Bytes(Without(all, gone)) \in Nat
        /\ Bytes(Without(all, gone)) <= Bytes(all)
    BY <2>1, Weighed, WithoutLessens
  <2> QED
    BY <2>1, <2>2 DEF all
<1>2. \/ /\ d + i + bytes > SetLimit
         /\ scenes' = [scenes EXCEPT ![s] = rest]
         /\ sceneBytes' = [sceneBytes EXCEPT ![s] = Bytes(rest)]
         /\ retained' = retained - (b - Bytes(rest))
      \/ /\ ~(d + i + bytes > SetLimit) /\ retained - (b - n) + bytes > ProcessLimit
         /\ scenes' = [scenes EXCEPT ![s] = kept]
         /\ sceneBytes' = [sceneBytes EXCEPT ![s] = n]
         /\ retained' = retained - (b - n)
      \/ /\ ~(d + i + bytes > SetLimit) /\ ~(retained - (b - n) + bytes > ProcessLimit)
         /\ scenes' = [scenes EXCEPT ![s] = Append(kept, one)]
         /\ sceneBytes' = [sceneBytes EXCEPT ![s] = n + bytes]
         /\ retained' = retained - (b - n) + bytes
  BY DEF CacheScene
<1> HIDE DEF rest
<1>3. /\ k \in 0..Len(rest)
      /\ k = Len(rest) \/ d + i + n + bytes <= SetLimit
  <2> DEFINE S == {j \in 0..Len(rest) : j = Len(rest)
                    \/ decoded[s] + inline[s] + Bytes(Drops(rest, j)) + bytes <= SetLimit}
  <2>1. k = Min(S)
    BY DEF SceneVictims
  <2>2. Len(rest) \in Nat
    BY <1>1, LenProperties
  <2>3. S \in SUBSET Nat /\ Len(rest) \in S
    BY <2>2
  <2>4. Min(S) \in S
    <3> HIDE DEF S
    <3> QED
      BY <2>3, Least
  <2> HIDE DEF k
  <2> QED
    BY <2>1, <2>4
<1> HIDE DEF k
<1>4. /\ kept \in Seq(SceneEntries) /\ n \in Nat /\ n <= Bytes(rest)
      /\ Len(kept) = Len(rest) - k /\ Len(rest) \in Nat
  <2>1. Len(rest) \in Nat
    BY <1>1, LenProperties
  <2>2. k \in Nat /\ k <= Len(rest)
    BY <1>3, <2>1
  <2> QED
    BY <1>1, <2>1, <2>2, Weighed, DropsLessens
<1>5. k = Len(rest) => n = 0
  <2> SUFFICES ASSUME k = Len(rest) PROVE n = 0
    OBVIOUS
  <2> HIDE DEF kept
  <2>1. Len(kept) = 0
    BY <1>4
  <2>2. kept = <<>>
    BY <1>4, <2>1, EmptySeq
  <2> QED
    BY <2>2, BytesOfNone
<1> HIDE DEF kept
<1>6. /\ d \in Nat /\ b \in Nat /\ i \in Nat /\ d + b + i <= SetLimit
      /\ b = Bytes(scenes[s]) /\ retained \in Nat /\ retained <= ProcessLimit
  BY OfSet
<1> DEFINE m == Bytes(rest)
<1>7. m \in Nat /\ n <= m /\ m <= b
  BY <1>1, <1>4, <1>6
<1>8. /\ d \in Nat /\ b \in Nat /\ i \in Nat /\ d + b + i <= SetLimit /\ SetLimit \in Nat
      /\ retained \in Nat /\ retained <= ProcessLimit /\ ProcessLimit \in Nat
  BY <1>6, Limits
<1>9. CASE /\ scenes' = [scenes EXCEPT ![s] = rest]
           /\ sceneBytes' = [sceneBytes EXCEPT ![s] = m]
           /\ retained' = retained - (b - m)
  <2>1. d + m + i <= SetLimit /\ retained - (b - m) <= ProcessLimit
    <3> HIDE DEF d, b, i, m
    <3>1. d + m + i <= SetLimit
      BY <1>7, <1>8
    <3>2. retained - (b - m) <= ProcessLimit
      BY <1>7, <1>8
    <3> QED
      BY <3>1, <3>2
  <2>2. retained' <= ProcessLimit
    BY <1>9, <2>1
  <2> QED
    BY <1>1, <1>9, <2>1, <2>2, ScenesKept
<1>10. CASE /\ scenes' = [scenes EXCEPT ![s] = kept]
            /\ sceneBytes' = [sceneBytes EXCEPT ![s] = n]
            /\ retained' = retained - (b - n)
  <2>1. d + n + i <= SetLimit /\ retained - (b - n) <= ProcessLimit
    <3> HIDE DEF d, b, i, m, n
    <3>1. n \in Nat /\ n <= b
      BY <1>4, <1>7, <1>8
    <3>2. d + n + i <= SetLimit
      BY <1>8, <3>1
    <3>3. retained - (b - n) <= ProcessLimit
      BY <1>8, <3>1
    <3> QED
      BY <3>2, <3>3
  <2>2. retained' <= ProcessLimit
    BY <1>10, <2>1
  <2> QED
    BY <1>4, <1>10, <2>1, <2>2, ScenesKept
<1>11. CASE /\ ~(d + i + bytes > SetLimit) /\ ~(retained - (b - n) + bytes > ProcessLimit)
            /\ scenes' = [scenes EXCEPT ![s] = Append(kept, one)]
            /\ sceneBytes' = [sceneBytes EXCEPT ![s] = n + bytes]
            /\ retained' = retained - (b - n) + bytes
  <2> DEFINE sc == Append(kept, one)
  <2>1. one \in SceneEntries /\ one.bytes = bytes
    BY DEF SceneEntries
  <2> HIDE DEF one
  <2>2. sc \in Seq(SceneEntries) /\ Bytes(sc) = n + bytes
    BY <1>4, <2>1, Weighed, BytesOfOneMore
  <2>3. /\ d + (n + bytes) + i <= SetLimit
        /\ retained - (b - n) + bytes = retained - (b - (n + bytes))
        /\ retained - (b - n) + bytes <= ProcessLimit
    <3>1. /\ ~(d + i + bytes > SetLimit) /\ ~(retained - (b - n) + bytes > ProcessLimit)
          /\ n = 0 \/ d + i + n + bytes <= SetLimit
      BY <1>3, <1>5, <1>11
    <3> HIDE DEF d, b, i, m, n
    <3>2. /\ d \in Nat /\ b \in Nat /\ i \in Nat /\ n \in Nat /\ bytes \in Nat
          /\ retained \in Nat /\ SetLimit \in Nat /\ ProcessLimit \in Nat
      BY <1>4, <1>6, Limits
    <3> QED
      BY <3>1, <3>2
  <2> HIDE DEF sc
  <2>4. /\ scenes' = [scenes EXCEPT ![s] = sc]
        /\ sceneBytes' = [sceneBytes EXCEPT ![s] = Bytes(sc)]
        /\ d + Bytes(sc) + i <= SetLimit
        /\ retained' = retained - (b - Bytes(sc)) /\ retained' <= ProcessLimit
    BY <1>11, <2>2, <2>3 DEF sc
  <2> QED
    BY <2>2, <2>4, ScenesKept
<1> QED
  BY <1>2, <1>9, <1>10, <1>11

LEMMA AccountsKept ==
  ASSUME AccInv, UNCHANGED <<entries, decoded, scenes, sceneBytes, inline, retained>>
  PROVE  AccInv'
<1>1. Taken' = Taken
  BY DEF Taken
<1> QED
  BY <1>1 DEF AccInv

\* The inline bytes of one set change.
LEMMA InlineKept ==
  ASSUME AccInv, NEW s \in Sets, NEW n \in Nat, inline' = [inline EXCEPT ![s] = n],
         UNCHANGED <<entries, decoded, scenes, sceneBytes>>,
         decoded[s] + sceneBytes[s] + n <= SetLimit,
         retained' = retained + n - inline[s], retained' <= ProcessLimit
  PROVE  AccInv'
<1> DEFINE es == entries[s]
           sc == scenes[s]
           d == decoded[s]
           b == sceneBytes[s]
           i == inline[s]
<1>1. /\ es \in [Urls -> CachedImages \cup {None}] /\ sc \in Seq(SceneEntries)
      /\ d = SumFunctionOnSet(Costs(es), Urls) /\ b = Bytes(sc)
      /\ d \in Nat /\ b \in Nat /\ i \in Nat /\ retained \in Nat
  BY OfSet
<1>2. Becomes(s, es, d, sc, b, n)
  BY DEF Becomes, AccInv
<1>3. retained' \in Int /\ retained' + (d + b + i) = retained + (d + b + n)
  <2> DEFINE r == retained'
  <2>1. r = retained + n - i
    OBVIOUS
  <2> HIDE DEF r, d, b, i
  <2>2. r \in Int /\ r + (d + b + i) = retained + (d + b + n)
    BY <1>1, <2>1
  <2> QED
    BY <2>2 DEF r
<1>4. Counted(s, es, d, sc, b, n)
  BY <1>1, <1>3 DEF Counted
<1> HIDE DEF es, sc, d, b, i
<1> QED
  BY <1>1, <1>2, <1>4, SetKept

\* A lease is taken: inline_remaining and reserve_inline.
LEMMA LeaseKept ==
  ASSUME AccInv, NEW s \in Sets, NEW bytes \in Nat, Leasable(s, bytes),
         inline' = [inline EXCEPT ![s] = @ + bytes], retained' = retained + bytes,
         UNCHANGED <<entries, decoded, scenes, sceneBytes>>
  PROVE  AccInv'
<1> DEFINE d == decoded[s]
           b == sceneBytes[s]
           i == inline[s]
           n == i + bytes
<1>1. /\ d \in Nat /\ b \in Nat /\ i \in Nat /\ d + b + i <= SetLimit /\ SetLimit \in Nat
      /\ retained \in Nat
  BY OfSet, Limits
<1>2. bytes <= Monus(SetLimit, d + b + i) /\ retained + bytes <= ProcessLimit
  BY DEF Leasable, InlineRoom
<1>3. /\ inline' = [inline EXCEPT ![s] = n]
      /\ retained' = retained + bytes
  OBVIOUS
<1>4. n \in Nat /\ d + b + n <= SetLimit /\ retained + bytes = retained + n - i
  <2> HIDE DEF d, b, i
  <2> QED
    BY <1>1, <1>2 DEF Monus
<1>5. retained' = retained + n - i /\ retained' <= ProcessLimit
  <2> HIDE DEF n, i
  <2> QED
    BY <1>2, <1>3, <1>4
<1> HIDE DEF n
<1> QED
  BY <1>3, <1>4, <1>5, InlineKept

\* A set is given up with what it keeps, when no lease is left.
LEMMA ReconfigureAccounts ==
  ASSUME AccInv, NEW s \in Sets, Reconfigure(s)
  PROVE  AccInv'
<1> DEFINE es == [u \in Urls |-> None]
           d == decoded[s]
           b == sceneBytes[s]
           none == <<>>
<1>1. /\ inline[s] = 0 /\ inline' = inline
      /\ entries' = [entries EXCEPT ![s] = es] /\ decoded' = [decoded EXCEPT ![s] = 0]
      /\ scenes' = [scenes EXCEPT ![s] = none] /\ sceneBytes' = [sceneBytes EXCEPT ![s] = 0]
      /\ retained' = retained - (d + b)
  BY DEF Reconfigure
<1>2. /\ d \in Nat /\ b \in Nat /\ retained \in Nat /\ retained <= ProcessLimit
      /\ SetLimit \in Nat /\ ProcessLimit \in Nat
  BY OfSet, Limits
<1>3. es \in [Urls -> CachedImages \cup {None}]
  OBVIOUS
<1>4. 0 = SumFunctionOnSet(Costs(es), Urls)
  <2> DEFINE f == Costs(es)
  <2>1. ASSUME NEW u \in Urls PROVE f[u] = 0
    <3>1. EntryBytes(None) = 0
      BY EntryCosts
    <3>2. f[u] = EntryBytes(None)
      BY DEF Costs
    <3> QED
      BY <3>1, <3>2
  <2> HIDE DEF f
  <2>2. SumFunctionOnSet(f, Urls) = 0
    BY <2>1, Limits, SumOfNothing
  <2> QED
    BY <2>2 DEF f
<1>5. none \in Seq(SceneEntries) /\ 0 = Bytes(none)
  BY BytesOfNone
<1>6. Becomes(s, es, 0, none, 0, 0)
  <2>1. inline' = [inline EXCEPT ![s] = 0]
    BY <1>1 DEF AccInv
  <2> QED
    BY <1>1, <2>1 DEF Becomes
<1>7. Counted(s, es, 0, none, 0, 0)
  <2> HIDE DEF d, b, es, none
  <2> DEFINE r == retained'
  <2>1. r = retained - (d + b)
    BY <1>1
  <2> HIDE DEF r
  <2>2. /\ r \in Int /\ r <= ProcessLimit /\ r + (d + b + 0) = retained + (0 + 0 + 0)
        /\ 0 + 0 + 0 <= SetLimit
    BY <1>2, <2>1
  <2> QED
    BY <1>1, <1>4, <1>5, <2>2 DEF Counted, r, d, b
<1> HIDE DEF es, none
<1> QED
  BY <1>3, <1>5, <1>6, <1>7, SetKept

LEMMA DropPicturesAccounts ==
  ASSUME Calls, PicInv, AccInv, NEW s \in Sets, DropPictures(s)
  PROVE  AccInv'
<1> DEFINE d == decoded[s]
           b == sceneBytes[s]
           i == inline[s]
<1>1. /\ inline' = [inline EXCEPT ![s] = 0] /\ retained' = retained - i
      /\ UNCHANGED <<entries, decoded, scenes, sceneBytes>>
  BY DropAllPictures DEF DropPictures, keptVars
<1>2. /\ d \in Nat /\ b \in Nat /\ i \in Nat /\ d + b + i <= SetLimit
      /\ retained \in Nat /\ retained <= ProcessLimit /\ SetLimit \in Nat /\ ProcessLimit \in Nat
  BY OfSet, Limits
<1>3. /\ d + b + 0 <= SetLimit /\ retained - i = retained + 0 - i
      /\ retained - i <= ProcessLimit
  <2> HIDE DEF d, b, i
  <2> QED
    BY <1>2
<1>4. retained' = retained + 0 - i /\ retained' <= ProcessLimit
  BY <1>1, <1>3
<1> QED
  BY <1>1, <1>3, <1>4, InlineKept

\* The bytes that a step may give are numbers.
LEMMA GivenBytes ==
  /\ \A bytes \in ImageBytes \cup SceneBytes \cup PictureBytes : bytes \in Nat
  /\ KeyBytes \in Nat
BY Limits, PicturesAssumption DEF PicturesAssumption

\* The steps of a call that change what a set keeps.
LEMMA CacheAccounts ==
  ASSUME Calls, AccInv, NEW t \in Threads,
         ParseSource(t) \/ DecodeRaster(t) \/ DrawPixels(t) \/ BuildScene(t)
  PROVE  AccInv'
<1> DEFINE s == call[t].set
           u == call[t].url
<1>1. CASE ParseSource(t)
  <2>1. call[t] \in BackgroundCall /\ inline' = inline
    BY <1>1, Callers DEF ParseSource, BackgroundPlaces, Shared
  <2>2. s \in Sets /\ u \in Urls
    BY <2>1, CallFields
  <2>3. CASE UNCHANGED <<keptVars, retained>>
    BY <2>1, <2>3, AccountsKept DEF keptVars
  <2>4. CASE CacheSource(t)
    BY <2>1, <2>2, <2>4, SourceKept
  <2> QED
    BY <1>1, <2>3, <2>4 DEF ParseSource
<1>2. CASE DecodeRaster(t)
  <2>1. call[t] \in BackgroundCall /\ inline' = inline
    BY <1>2, Callers DEF DecodeRaster, BackgroundPlaces, Shared
  <2>2. s \in Sets /\ u \in Urls
    BY <2>1, CallFields
  <2>3. CASE UNCHANGED <<keptVars, retained>>
    BY <2>1, <2>3, AccountsKept DEF keptVars
  <2>4. CASE \E bytes \in ImageBytes :
               Admitted(s, u, FALSE, "natural", bytes) /\ CacheRaster(s, u, FALSE, "natural", bytes)
    <3>1. PICK bytes \in ImageBytes :
            Admitted(s, u, FALSE, "natural", bytes) /\ CacheRaster(s, u, FALSE, "natural", bytes)
      BY <2>4
    <3> DEFINE size == "natural"
               svg == FALSE
    <3>2. /\ size \in Sizes \cup {"natural"} /\ svg \in BOOLEAN /\ bytes \in Nat
          /\ Admitted(s, u, svg, size, bytes) /\ CacheRaster(s, u, svg, size, bytes)
      BY <3>1, GivenBytes
    <3> HIDE DEF size, svg, s, u
    <3> QED
      BY <2>1, <2>2, <3>2, RasterKept
  <2> QED
    BY <1>2, <2>3, <2>4 DEF DecodeRaster
<1>3. CASE DrawPixels(t)
  <2>1. call[t] \in PaintCall /\ inline' = inline
    BY <1>3, Callers DEF DrawPixels, PixelsPlaces, Shared
  <2>2. s \in Sets /\ u \in Urls /\ call[t].size \in Sizes
    BY <2>1, CallFields
  <2>3. CASE UNCHANGED <<keptVars, retained>>
    BY <2>1, <2>3, AccountsKept DEF keptVars
  <2>4. CASE \E bytes \in ImageBytes : Admitted(s, u, TRUE, call[t].size, bytes)
                                         /\ CacheRaster(s, u, TRUE, call[t].size, bytes)
    <3>1. PICK bytes \in ImageBytes : Admitted(s, u, TRUE, call[t].size, bytes)
                                        /\ CacheRaster(s, u, TRUE, call[t].size, bytes)
      BY <2>4
    <3> DEFINE size == call[t].size
               svg == TRUE
    <3>2. /\ size \in Sizes \cup {"natural"} /\ svg \in BOOLEAN /\ bytes \in Nat
          /\ Admitted(s, u, svg, size, bytes) /\ CacheRaster(s, u, svg, size, bytes)
      BY <2>2, <3>1, GivenBytes
    <3> HIDE DEF size, svg, s, u
    <3> QED
      BY <2>1, <2>2, <3>2, RasterKept
  <2> QED
    BY <1>3, <2>3, <2>4 DEF DrawPixels
<1>4. CASE BuildScene(t)
  <2>1. call[t] \in PaintCall /\ inline' = inline
    BY <1>4, Callers DEF BuildScene, VectorPlaces, Shared
  <2>2. s \in Sets /\ u \in Urls /\ call[t].size \in Sizes
    BY <2>1, CallFields
  <2>3. CASE UNCHANGED <<entries, decoded, scenes, sceneBytes, retained>>
    BY <2>1, <2>3, AccountsKept
  <2>4. CASE \E bytes \in SceneBytes :
               CacheScene(s, u, call[t].size, bytes) /\ UNCHANGED <<entries, decoded, rasterOnly>>
    <3>1. PICK bytes \in SceneBytes :
            CacheScene(s, u, call[t].size, bytes) /\ UNCHANGED <<entries, decoded, rasterOnly>>
      BY <2>4
    <3>2. bytes \in Nat
      BY <3>1, GivenBytes
    <3> HIDE DEF s, u
    <3> QED
      BY <2>1, <2>2, <3>1, <3>2, SceneKept
  <2> QED
    BY <1>4, <2>3, <2>4 DEF BuildScene, keptVars
<1> QED
  BY <1>1, <1>2, <1>3, <1>4

LEMMA StepAccounts ==
  ASSUME Calls, AccInv, NEW t \in Threads, Step(t)
  PROVE  AccInv'
<1>1. CASE ParseSource(t) \/ DecodeRaster(t) \/ DrawPixels(t) \/ BuildScene(t)
  BY <1>1, CacheAccounts
<1>2. CASE ~(ParseSource(t) \/ DecodeRaster(t) \/ DrawPixels(t) \/ BuildScene(t))
  <2>1. UNCHANGED <<entries, decoded, scenes, sceneBytes, inline, retained>>
    BY <1>2 DEF Step, keptVars, PassOver, TurnAway, Ask, Look, AdmitPayload, JoinOwner,
       JoinWaiter, Request, Finish, RemoveFlight, Acquire, DropPermit, ReadRoom, LookForPixels,
       LookForScene, LookForSceneAgain, Return
  <2> QED
    BY <2>1, AccountsKept
<1> QED
  BY <1>1, <1>2

LEMMA NextAccounts ==
  ASSUME Calls, AccInv, Next
  PROVE  AccInv'
<1>1. CASE \E t \in Threads : Step(t)
  BY <1>1, StepAccounts
<1>2. CASE \E s \in Sets : Reconfigure(s)
  BY <1>2, ReconfigureAccounts
<1>3. CASE \E t \in Threads :
             \/ \E s \in Sets, u \in Urls : Preload(t, s, u)
             \/ \E s \in Sets, u \in SvgUrls, size \in Sizes :
                  PaintPixels(t, s, u, size) \/ PaintVector(t, s, u, size)
             \/ Abort(t) \/ Panic(t) \/ NewRender(t)
  <2>1. UNCHANGED <<entries, decoded, scenes, sceneBytes, inline, retained>>
    <3>1. ASSUME NEW t \in Threads, NEW what, NEW place, NEW request,
                 Call(t, what, place, request)
          PROVE  UNCHANGED <<entries, decoded, scenes, sceneBytes, inline, retained>>
      BY <3>1 DEF Call, keptVars
    <3>2. ASSUME NEW t \in Threads, NEW s \in Sets, NEW u \in Urls, Preload(t, s, u)
          PROVE  UNCHANGED <<entries, decoded, scenes, sceneBytes, inline, retained>>
      BY <3>1, <3>2 DEF Preload
    <3>3. ASSUME NEW t \in Threads, NEW s \in Sets, NEW u \in SvgUrls, NEW size \in Sizes,
                 PaintPixels(t, s, u, size) \/ PaintVector(t, s, u, size)
          PROVE  UNCHANGED <<entries, decoded, scenes, sceneBytes, inline, retained>>
      BY <3>1, <3>3 DEF PaintPixels, PaintVector
    <3>4. ASSUME NEW t \in Threads, Abort(t) \/ Panic(t) \/ NewRender(t)
          PROVE  UNCHANGED <<entries, decoded, scenes, sceneBytes, inline, retained>>
      BY <3>4 DEF Abort, Panic, NewRender, keptVars
    <3> QED
      BY <1>3, <3>2, <3>3, <3>4
  <2> QED
    BY <2>1, AccountsKept
<1> QED
  BY <1>1, <1>2, <1>3 DEF Next

LEMMA PictureStepAccounts ==
  ASSUME Calls, AccInv, NEW t \in Threads, PictureStep(t)
  PROVE  AccInv'
<1> DEFINE s == call[t].set
<1>1. CASE PictureRegister(t)
  <2>1. call[t] \in PictureCall
    BY <1>1, Callers DEF PictureRegister, PicturePlaces, Shared
  <2>2. s \in Sets
    BY <2>1, CallFields
  <2>3. UNCHANGED <<entries, decoded, scenes, sceneBytes>>
    BY <1>1 DEF PictureRegister, keptVars
  <2>4. CASE UNCHANGED <<inline, retained>>
    BY <2>3, <2>4, AccountsKept
  <2>5. CASE /\ Leasable(s, KeyBytes) /\ inline' = [inline EXCEPT ![s] = @ + KeyBytes]
             /\ retained' = retained + KeyBytes
    <3> HIDE DEF s
    <3> QED
      BY <2>2, <2>3, <2>5, GivenBytes, LeaseKept
  <2> QED
    BY <1>1, <2>4, <2>5 DEF PictureRegister
<1>2. CASE PictureDecode(t)
  <2>1. call[t] \in PictureCall
    BY <1>2, Callers DEF PictureDecode, PicturePlaces, Shared
  <2>2. s \in Sets
    BY <2>1, CallFields
  <2>3. UNCHANGED <<entries, decoded, scenes, sceneBytes>>
    BY <1>2 DEF PictureDecode, keptVars
  <2>4. CASE UNCHANGED <<inline, retained>>
    BY <2>3, <2>4, AccountsKept
  <2>5. CASE \E bytes \in PictureBytes :
               /\ Leasable(s, bytes) /\ inline' = [inline EXCEPT ![s] = @ + bytes]
               /\ retained' = retained + bytes
    <3> HIDE DEF s
    <3> QED
      BY <2>2, <2>3, <2>5, GivenBytes, LeaseKept
  <2> QED
    BY <1>2, <2>4, <2>5 DEF PictureDecode
<1>3. CASE ~(PictureRegister(t) \/ PictureDecode(t))
  <2>1. UNCHANGED <<entries, decoded, scenes, sceneBytes, inline, retained>>
    BY <1>3 DEF PictureStep, keptVars, LockState, ReturnUrl, PictureKnown, PictureNew,
       PictureRoom, PictureRelease, PictureComplete, PictureNotify
  <2> QED
    BY <2>1, AccountsKept
<1> QED
  BY <1>1, <1>2, <1>3

LEMMA AccountsStep == Calls /\ PicInv /\ AccInv /\ [PNext]_allVars => AccInv'
<1> SUFFICES ASSUME Calls, PicInv, AccInv, [PNext]_allVars
             PROVE  AccInv'
  OBVIOUS
<1>1. CASE Next
  BY <1>1, NextAccounts
<1>2. CASE \E t \in Threads : PictureStep(t)
  BY <1>2, PictureStepAccounts
<1>3. CASE \E s \in Sets : DropPictures(s)
  BY <1>3, DropPicturesAccounts
<1>4. CASE \/ UNCHANGED allVars
           \/ \E t \in Threads, s \in Sets :
                \/ \E u \in Urls : Url(t, s, u)
                \/ \E p \in Pictures : Data(t, s, p)
  <2>1. UNCHANGED <<entries, decoded, scenes, sceneBytes, inline, retained>>
    BY <1>4 DEF allVars, vars, Url, Data, Call, keptVars
  <2> QED
    BY <2>1, AccountsKept
<1> QED
  BY <1>1, <1>2, <1>3, <1>4 DEF PNext

LEMMA AccountsInit == PInit => AccInv
<1> SUFFICES ASSUME PInit
             PROVE  AccInv
  OBVIOUS
<1>1. /\ entries = [s \in Sets |-> [u \in Urls |-> None]]
      /\ decoded = [s \in Sets |-> 0] /\ inline = [s \in Sets |-> 0]
      /\ scenes = [s \in Sets |-> <<>>] /\ sceneBytes = [s \in Sets |-> 0] /\ retained = 0
  BY DEF PInit, Init
<1>2. ASSUME NEW s \in Sets
      PROVE  /\ decoded[s] = SumFunctionOnSet(Costs(entries[s]), Urls)
             /\ sceneBytes[s] = Bytes(scenes[s])
             /\ decoded[s] + sceneBytes[s] + inline[s] <= SetLimit
  <2> DEFINE f == Costs(entries[s])
  <2>1. ASSUME NEW u \in Urls PROVE f[u] = 0
    <3>1. EntryBytes(None) = 0
      BY EntryCosts
    <3>2. f[u] = EntryBytes(None)
      BY <1>1 DEF Costs
    <3> QED
      BY <3>1, <3>2
  <2> HIDE DEF f
  <2>2. SumFunctionOnSet(f, Urls) = 0
    BY <2>1, Limits, SumOfNothing
  <2>3. decoded[s] = 0 /\ sceneBytes[s] = 0 /\ inline[s] = 0 /\ scenes[s] = <<>>
    BY <1>1
  <2>4. sceneBytes[s] = Bytes(scenes[s])
    BY <2>3, BytesOfNone
  <2> QED
    BY <2>2, <2>3, <2>4, Limits DEF f
<1>3. 0 = SumFunctionOnSet(Taken, Sets)
  <2> DEFINE f == Taken
  <2>1. \A s \in Sets : f[s] = 0
    BY <1>1 DEF Taken
  <2> HIDE DEF f
  <2>2. SumFunctionOnSet(f, Sets) = 0
    BY <2>1, Limits, SumOfNothing
  <2> QED
    BY <2>2 DEF f
<1> QED
  BY <1>1, <1>2, <1>3, Limits DEF AccInv

----------------------------------------------------------------------------
(* The rest of what the type invariant says. *)

Marks ==
  /\ warned \subseteq Threads /\ aborted \subseteq Threads
  /\ room \in [Threads -> Nat] /\ calls \in [Threads -> Nat]
  /\ seen \in [Askers -> SUBSET Urls] /\ attempts \in [Askers -> 0..(MaxAttempts + 1)]
  /\ rasterOnly \in [Sets -> SUBSET Urls]
  /\ locked \in [Sets -> Threads \cup {None}]

markVars == <<warned, aborted, room, calls, seen, attempts, rasterOnly, locked>>

LEMMA MarksStay == ASSUME Marks, UNCHANGED markVars PROVE Marks'
BY DEF Marks, markVars

\* What one step changes of them.
LEMMA MarksWarned ==
  ASSUME Marks, warned' \subseteq warned \cup Threads, aborted' \subseteq aborted \cup Threads,
         UNCHANGED <<room, calls, seen, attempts, rasterOnly, locked>>
  PROVE  Marks'
BY DEF Marks

LEMMA MarksRoom ==
  ASSUME Marks, warned' \subseteq warned \cup Threads, NEW t \in Threads, NEW n \in Nat,
         room' = [room EXCEPT ![t] = n],
         UNCHANGED <<aborted, calls, seen, attempts, rasterOnly, locked>>
  PROVE  Marks'
BY DEF Marks

LEMMA MarksSeen ==
  ASSUME Marks, warned' \subseteq warned \cup Threads, NEW a \in Askers,
         NEW us \in SUBSET Urls, NEW n \in 0..(MaxAttempts + 1),
         seen' = [seen EXCEPT ![a] = us], attempts' = [attempts EXCEPT ![a] = n],
         UNCHANGED <<aborted, room, calls, rasterOnly, locked>>
  PROVE  Marks'
BY DEF Marks

LEMMA MarksRasterOnly ==
  ASSUME Marks, NEW s \in Sets, NEW us \in SUBSET Urls,
         rasterOnly' = [rasterOnly EXCEPT ![s] = us],
         UNCHANGED <<warned, aborted, room, calls, seen, attempts, locked>>
  PROVE  Marks'
BY DEF Marks

LEMMA MarksCall ==
  ASSUME Marks, NEW t \in Threads, NEW what, NEW place, NEW request,
         Call(t, what, place, request), locked' = locked
  PROVE  Marks'
<1>1. /\ calls' = [calls EXCEPT ![t] = @ + 1]
      /\ UNCHANGED <<warned, aborted, room, seen, attempts, rasterOnly>>
  BY DEF Call, askerVars, keptVars
<1> QED
  BY <1>1 DEF Marks

LEMMA StepMarks ==
  ASSUME Calls, AccInv, Marks, NEW t \in Threads, Step(t), locked' = locked
  PROVE  Marks'
<1> DEFINE s == call[t].set
           u == call[t].url
           a == call[t].asker
<1>0. MaxAttempts \in Nat /\ Threads \subseteq Askers
  BY ImagesAssumption DEF ImagesAssumption, Askers
<1>1. CASE PassOver(t) \/ Look(t) \/ JoinOwner(t) \/ RemoveFlight(t) \/ Acquire(t)
           \/ DropPermit(t) \/ LookForPixels(t) \/ LookForScene(t) \/ LookForSceneAgain(t)
  <2>1. UNCHANGED markVars
    BY <1>1 DEF PassOver, Look, JoinOwner, RemoveFlight, Acquire, DropPermit, LookForPixels,
       LookForScene, LookForSceneAgain, markVars, askerVars, keptVars
  <2> QED
    BY <2>1, MarksStay
<1>2. CASE AdmitPayload(t) \/ JoinWaiter(t) \/ Request(t) \/ Finish(t) \/ Return(t)
  <2>1. /\ warned' \subseteq warned \cup Threads /\ aborted' \subseteq aborted \cup Threads
        /\ UNCHANGED <<room, calls, seen, attempts, rasterOnly, locked>>
    BY <1>2 DEF AdmitPayload, JoinWaiter, Request, Finish, Return, Forget, Warn, Waiters,
       askerVars, keptVars
  <2> QED
    BY <2>1, MarksWarned
<1>3. CASE TurnAway(t)
  <2>1. call[t] \in BackgroundCall
    BY <1>3, Callers DEF TurnAway, BackgroundPlaces, Shared
  <2>2. a \in Askers /\ u \in Urls
    BY <2>1, CallFields
  <2>3. /\ seen' = [seen EXCEPT ![a] = @ \cup {u}] /\ warned' \subseteq warned \cup Threads
        /\ UNCHANGED <<aborted, room, calls, rasterOnly>>
        /\ \/ attempts' = attempts
           \/ attempts[a] = MaxAttempts /\ attempts' = [attempts EXCEPT ![a] = @ + 1]
    BY <1>3 DEF TurnAway, Warn, keptVars
  <2> HIDE DEF a, u
  <2>4. seen[a] \cup {u} \in SUBSET Urls
    BY <2>2 DEF Marks
  <2>5. PICK n \in 0..(MaxAttempts + 1) : attempts' = [attempts EXCEPT ![a] = n]
    <3>1. CASE attempts' = attempts
      <4>1. attempts[a] \in 0..(MaxAttempts + 1)
        BY <2>2 DEF Marks
      <4>2. attempts' = [attempts EXCEPT ![a] = attempts[a]]
        BY <3>1 DEF Marks
      <4> QED
        BY <4>1, <4>2
    <3>2. CASE attempts[a] = MaxAttempts /\ attempts' = [attempts EXCEPT ![a] = @ + 1]
      <4>1. MaxAttempts + 1 \in 0..(MaxAttempts + 1)
        BY <1>0
      <4> QED
        BY <3>2, <4>1
    <3> QED
      BY <2>3, <3>1, <3>2
  <2> QED
    BY <2>2, <2>3, <2>4, <2>5, MarksSeen
<1>4. CASE Ask(t)
  <2>1. call[t] \in BackgroundCall
    BY <1>4, Callers DEF Ask, BackgroundPlaces, Shared
  <2>2. a \in Askers /\ u \in Urls
    BY <2>1, CallFields
  <2>3. /\ seen' = [seen EXCEPT ![a] = @ \cup {u}] /\ attempts[a] < MaxAttempts
        /\ attempts' = [attempts EXCEPT ![a] = @ + 1]
        /\ UNCHANGED <<warned, aborted, room, calls, rasterOnly>>
    BY <1>4 DEF Ask, keptVars
  <2> HIDE DEF a, u
  <2>4. seen[a] \cup {u} \in SUBSET Urls /\ attempts[a] \in 0..(MaxAttempts + 1)
    BY <2>2 DEF Marks
  <2>5. attempts[a] + 1 \in 0..(MaxAttempts + 1)
    BY <1>0, <2>3, <2>4
  <2> QED
    BY <2>2, <2>3, <2>4, <2>5, MarksSeen
<1>5. CASE ParseSource(t)
  <2>1. call[t] \in BackgroundCall
    BY <1>5, Callers DEF ParseSource, BackgroundPlaces, Shared
  <2>2. s \in Sets /\ u \in Urls
    BY <2>1, CallFields
  <2>3. /\ UNCHANGED <<aborted, room, calls, seen, attempts>>
        /\ \/ warned' = warned \cup {t} /\ rasterOnly' = rasterOnly
           \/ warned' = warned /\ rasterOnly' = [rasterOnly EXCEPT ![s] = @ \ {u}]
    BY <1>5 DEF ParseSource, CacheSource, Invalidated, Warn, askerVars, keptVars
  <2> HIDE DEF s, u
  <2>4. CASE warned' = warned \cup {t} /\ rasterOnly' = rasterOnly
    BY <2>3, <2>4, MarksWarned
  <2>5. CASE warned' = warned /\ rasterOnly' = [rasterOnly EXCEPT ![s] = @ \ {u}]
    <3>1. rasterOnly[s] \ {u} \in SUBSET Urls
      BY <2>2 DEF Marks
    <3> QED
      BY <2>2, <2>3, <2>5, <3>1, MarksRasterOnly
  <2> QED
    BY <2>3, <2>4, <2>5
<1>6. CASE ReadRoom(t)
  <2>1. \/ call[t] \in BackgroundCall
        \/ call[t] \in PaintCall
    BY <1>6, Callers DEF ReadRoom, BackgroundPlaces, PixelsPlaces, Shared
  <2>2. s \in Sets /\ u \in Urls
    BY <2>1, CallFields
  <2> DEFINE n == Lesser(SetRoom(s, u), ProcessRoom(RasterBytes(entries[s][u])))
  <2>3. /\ room' = [room EXCEPT ![t] = n]
        /\ UNCHANGED <<warned, aborted, calls, seen, attempts, rasterOnly>>
    BY <1>6 DEF ReadRoom, askerVars, keptVars
  <2> HIDE DEF s, u
  <2>4. /\ decoded[s] \in Nat /\ sceneBytes[s] \in Nat /\ inline[s] \in Nat /\ retained \in Nat
        /\ SetLimit \in Nat /\ ProcessLimit \in Nat /\ RasterBytes(entries[s][u]) \in Nat
    <3>1. entries[s][u] \in CachedImages \cup {None}
      BY <2>2, OfSet
    <3> QED
      BY <2>2, <3>1, OfSet, Limits, EntryCosts
  <2>5. SetRoom(s, u) \in Nat /\ ProcessRoom(RasterBytes(entries[s][u])) \in Nat
    BY <2>4 DEF SetRoom, ProcessRoom, Monus
  <2>6. n \in Nat
    BY <2>5 DEF Lesser
  <2> HIDE DEF n
  <2> QED
    BY <2>3, <2>6, MarksRoom
<1>7. CASE DecodeRaster(t) \/ DrawPixels(t)
  <2>1. /\ room' = [room EXCEPT ![t] = 0] /\ warned' \subseteq warned \cup Threads
        /\ UNCHANGED <<aborted, calls, seen, attempts, rasterOnly>>
    BY <1>7 DEF DecodeRaster, DrawPixels, CacheRaster, Warn, askerVars, keptVars
  <2> QED
    BY <2>1, MarksRoom
<1>8. CASE BuildScene(t)
  <2>1. call[t] \in PaintCall
    BY <1>8, Callers DEF BuildScene, VectorPlaces, Shared
  <2>2. s \in Sets /\ u \in Urls
    BY <2>1, CallFields
  <2>3. /\ UNCHANGED <<warned, aborted, room, calls, seen, attempts>>
        /\ rasterOnly' = rasterOnly \/ rasterOnly' = [rasterOnly EXCEPT ![s] = @ \cup {u}]
    BY <1>8 DEF BuildScene, askerVars, keptVars
  <2> HIDE DEF s, u
  <2>4. rasterOnly[s] \cup {u} \in SUBSET Urls
    BY <2>2 DEF Marks
  <2>5. CASE rasterOnly' = rasterOnly
    BY <2>3, <2>5, MarksStay DEF markVars
  <2>6. CASE rasterOnly' = [rasterOnly EXCEPT ![s] = @ \cup {u}]
    BY <2>2, <2>3, <2>4, <2>6, MarksRasterOnly
  <2> QED
    BY <2>3, <2>5, <2>6
<1> QED
  BY <1>1, <1>2, <1>3, <1>4, <1>5, <1>6, <1>7, <1>8 DEF Step

LEMMA NextMarks ==
  ASSUME Calls, AccInv, Marks, Next, locked' = locked
  PROVE  Marks'
<1>0. MaxAttempts \in Nat /\ Threads \subseteq Askers /\ 0 \in 0..(MaxAttempts + 1)
  BY ImagesAssumption DEF ImagesAssumption, Askers
<1>1. CASE \E t \in Threads : Step(t)
  BY <1>1, StepMarks
<1>2. ASSUME NEW t \in Threads, NEW s \in Sets, NEW u \in Urls, Preload(t, s, u)
      PROVE  Marks'
  BY <1>2, MarksCall DEF Preload
<1>3. ASSUME NEW t \in Threads, NEW s \in Sets, NEW u \in SvgUrls, NEW size \in Sizes,
             PaintPixels(t, s, u, size) \/ PaintVector(t, s, u, size)
      PROVE  Marks'
  BY <1>3, MarksCall DEF PaintPixels, PaintVector
<1>4. ASSUME NEW t \in Threads, Abort(t)
      PROVE  Marks'
  <2>1. /\ warned' = warned /\ aborted' = aborted \cup {t}
        /\ UNCHANGED <<room, calls, seen, attempts, rasterOnly>>
    BY <1>4 DEF Abort, askerVars, keptVars
  <2> QED
    BY <2>1, MarksWarned
<1>5. ASSUME NEW t \in Threads, Panic(t)
      PROVE  Marks'
  <2>1. /\ room' = [room EXCEPT ![t] = 0]
        /\ UNCHANGED <<warned, aborted, calls, rasterOnly>>
        /\ \/ UNCHANGED <<seen, attempts>>
           \/ seen' = [seen EXCEPT ![t] = {}] /\ attempts' = [attempts EXCEPT ![t] = 0]
    BY <1>5 DEF Panic, RenderEnds, keptVars
  <2>2. seen' \in [Askers -> SUBSET Urls] /\ attempts' \in [Askers -> 0..(MaxAttempts + 1)]
    BY <1>0, <2>1 DEF Marks
  <2> QED
    BY <2>1, <2>2 DEF Marks
<1>6. ASSUME NEW t \in Threads, NewRender(t)
      PROVE  Marks'
  <2>1. /\ seen' = [seen EXCEPT ![t] = {}] /\ attempts' = [attempts EXCEPT ![t] = 0]
        /\ UNCHANGED <<warned, aborted, room, calls, rasterOnly>>
    BY <1>6 DEF NewRender, threadVars, keptVars
  <2>2. t \in Askers /\ {} \in SUBSET Urls
    BY <1>0
  <2> QED
    BY <1>0, <2>1, <2>2, MarksSeen
<1>7. ASSUME NEW s \in Sets, Reconfigure(s)
      PROVE  Marks'
  <2>1. /\ rasterOnly' = [rasterOnly EXCEPT ![s] = {}]
        /\ UNCHANGED <<warned, aborted, room, calls, seen, attempts>>
    BY <1>7 DEF Reconfigure, threadVars, askerVars
  <2>2. {} \in SUBSET Urls
    OBVIOUS
  <2> QED
    BY <2>1, <2>2, MarksRasterOnly
<1> QED
  BY <1>1, <1>2, <1>3, <1>4, <1>5, <1>6, <1>7 DEF Next

LEMMA PictureStepMarks ==
  ASSUME Calls, AccInv, Marks, NEW t \in Threads, PictureStep(t)
  PROVE  Marks'
<1> DEFINE s == call[t].set
<1>0. MaxAttempts \in Nat /\ Sets \subseteq Askers
  BY ImagesAssumption DEF ImagesAssumption, Askers
<1>1. CASE PictureKnown(t) \/ PictureRelease(t) \/ PictureComplete(t) \/ PictureNotify(t)
  <2>1. UNCHANGED markVars
    BY <1>1 DEF PictureKnown, PictureRelease, PictureComplete, PictureNotify, markVars,
       askerVars, keptVars, pictureVars
  <2> QED
    BY <2>1, MarksStay
<1>2. CASE LockState(t)
  <2>1. call[t] \in BackgroundCall
    BY <1>2, Callers DEF LockState, BackgroundPlaces, Shared
  <2>2. s \in Sets
    BY <2>1, CallFields
  <2>3. /\ locked' = [locked EXCEPT ![s] = t]
        /\ UNCHANGED <<warned, aborted, room, calls, seen, attempts, rasterOnly>>
    BY <1>2 DEF LockState, askerVars, keptVars
  <2> HIDE DEF s
  <2> QED
    BY <2>2, <2>3 DEF Marks
<1>3. CASE ReturnUrl(t)
  <2>1. /\ locked' = [locked EXCEPT ![s] = IF locked[s] = t THEN None ELSE @]
        /\ warned' = warned \ {t} /\ aborted' = aborted \ {t}
        /\ UNCHANGED <<room, calls, seen, attempts, rasterOnly>>
    BY <1>3 DEF ReturnUrl, Forget, askerVars, keptVars
  <2>2. locked' \in [Sets -> Threads \cup {None}]
    <3> HIDE DEF s
    <3> QED
      BY <2>1 DEF Marks
  <2> QED
    BY <2>1, <2>2 DEF Marks
<1>4. CASE PictureNew(t)
  <2>1. call[t] \in PictureCall
    BY <1>4, Callers DEF PictureNew, PicturePlaces, Shared
  <2>2. s \in Sets /\ s \in Askers
    BY <1>0, <2>1, CallFields
  <2>3. /\ warned' \subseteq warned \cup Threads
        /\ UNCHANGED <<aborted, room, calls, seen, rasterOnly, locked>>
        /\ \/ attempts' = attempts
           \/ ~(attempts[s] > MaxAttempts) /\ attempts' = [attempts EXCEPT ![s] = @ + 1]
    BY <1>4 DEF PictureNew, Warn, keptVars, pictureVars
  <2> HIDE DEF s
  <2>4. attempts' \in [Askers -> 0..(MaxAttempts + 1)]
    <3>1. attempts[s] \in 0..(MaxAttempts + 1)
      BY <2>2 DEF Marks
    <3>2. ~(attempts[s] > MaxAttempts) => attempts[s] + 1 \in 0..(MaxAttempts + 1)
      BY <1>0, <3>1
    <3> QED
      BY <2>3, <3>2 DEF Marks
  <2> QED
    BY <2>3, <2>4 DEF Marks
<1>5. CASE PictureRegister(t)
  <2>1. /\ warned' \subseteq warned \cup Threads
        /\ UNCHANGED <<aborted, room, calls, seen, attempts, rasterOnly, locked>>
    BY <1>5 DEF PictureRegister, Warn, askerVars, keptVars
  <2> QED
    BY <2>1, MarksWarned
<1>6. CASE PictureRoom(t)
  <2>1. call[t] \in PictureCall
    BY <1>6, Callers DEF PictureRoom, PicturePlaces, Shared
  <2>2. s \in Sets
    BY <2>1, CallFields
  <2> DEFINE n == Lesser(InlineRoom(s), ProcessRoom(0))
  <2>3. /\ room' = [room EXCEPT ![t] = n]
        /\ UNCHANGED <<warned, aborted, calls, seen, attempts, rasterOnly, locked>>
    BY <1>6 DEF PictureRoom, askerVars, keptVars, pictureVars
  <2> HIDE DEF s
  <2>4. /\ decoded[s] \in Nat /\ sceneBytes[s] \in Nat /\ inline[s] \in Nat /\ retained \in Nat
        /\ SetLimit \in Nat /\ ProcessLimit \in Nat
    BY <2>2, OfSet, Limits
  <2>5. InlineRoom(s) \in Nat /\ ProcessRoom(0) \in Nat
    BY <2>4 DEF InlineRoom, ProcessRoom, Monus
  <2>6. n \in Nat
    BY <2>5 DEF Lesser
  <2> HIDE DEF n
  <2> QED
    BY <2>3, <2>6, MarksRoom
<1>7. CASE PictureDecode(t)
  <2>1. /\ room' = [room EXCEPT ![t] = 0] /\ warned' \subseteq warned \cup Threads
        /\ UNCHANGED <<aborted, calls, seen, attempts, rasterOnly, locked>>
    BY <1>7 DEF PictureDecode, Warn, askerVars, keptVars
  <2> QED
    BY <2>1, MarksRoom
<1> QED
  BY <1>1, <1>2, <1>3, <1>4, <1>5, <1>6, <1>7 DEF PictureStep

LEMMA MarksStep == Calls /\ AccInv /\ Marks /\ [PNext]_allVars => Marks'
<1> SUFFICES ASSUME Calls, AccInv, Marks, [PNext]_allVars
             PROVE  Marks'
  OBVIOUS
<1>1. CASE Next /\ UNCHANGED pictureVars
  BY <1>1, NextMarks DEF pictureVars
<1>2. ASSUME NEW t \in Threads, NEW s \in Sets, NEW u \in Urls, Url(t, s, u)
      PROVE  Marks'
  BY <1>2, MarksCall DEF Url, pictureVars
<1>3. ASSUME NEW t \in Threads, NEW s \in Sets, NEW p \in Pictures, Data(t, s, p)
      PROVE  Marks'
  BY <1>3, MarksCall DEF Data, pictureVars
<1>4. ASSUME NEW s \in Sets, DropPictures(s)
      PROVE  Marks'
  <2>1. /\ seen' = [seen EXCEPT ![s] = {}] /\ attempts' = [attempts EXCEPT ![s] = 0]
        /\ UNCHANGED <<warned, aborted, room, calls, rasterOnly, locked>>
    BY <1>4 DEF DropPictures, threadVars, keptVars
  <2>2. s \in Askers /\ {} \in SUBSET Urls /\ 0 \in 0..(MaxAttempts + 1)
    BY ImagesAssumption DEF ImagesAssumption, Askers
  <2> QED
    BY <2>1, <2>2, MarksSeen
<1>5. CASE UNCHANGED allVars
  <2>1. UNCHANGED markVars
    BY <1>5 DEF allVars, vars, pictureVars, threadVars, askerVars, keptVars, markVars
  <2> QED
    BY <2>1, MarksStay
<1> QED
  BY <1>1, <1>2, <1>3, <1>4, <1>5, PictureStepMarks DEF PNext

LEMMA MarksInit == PInit => Marks
BY ImagesAssumption DEF PInit, Init, Marks, ImagesAssumption

----------------------------------------------------------------------------
(* Every counter says what is kept. *)

LEMMA CountersImplied == AccInv => CountersAgree
<1> SUFFICES ASSUME AccInv
             PROVE  CountersAgree
  OBVIOUS
<1>1. ASSUME NEW s \in Sets
      PROVE  /\ decoded[s] = Sum([u \in Urls |-> EntryBytes(entries[s][u])])
             /\ sceneBytes[s] = Bytes(scenes[s])
             /\ decoded[s] + sceneBytes[s] + inline[s] <= SetLimit
  <2> DEFINE f == [u \in Urls |-> EntryBytes(entries[s][u])]
  <2>1. f = Costs(entries[s]) /\ DOMAIN f = Urls
    BY DEF Costs
  <2> HIDE DEF f
  <2>2. Sum(f) = SumFunctionOnSet(Costs(entries[s]), Urls)
    BY <2>1, SumOfAll
  <2> QED
    BY <2>2, OfSet DEF f
<1>2. retained = Sum([s \in Sets |-> decoded[s] + sceneBytes[s] + inline[s]])
  <2> DEFINE f == [s \in Sets |-> decoded[s] + sceneBytes[s] + inline[s]]
  <2>1. f = Taken /\ DOMAIN f = Sets
    BY DEF Taken
  <2> HIDE DEF f
  <2>2. Sum(f) = SumFunctionOnSet(Taken, Sets)
    BY <2>1, SumOfAll
  <2>3. retained = SumFunctionOnSet(Taken, Sets)
    BY DEF AccInv
  <2> QED
    BY <2>2, <2>3 DEF f
<1>3. retained <= ProcessLimit
  BY DEF AccInv
<1> QED
  BY <1>1, <1>2, <1>3 DEF CountersAgree

\* The leases in hand of the threads called for a set are those of the owners
\* among them: nobody else has a lease.
LEMMA HandsOfCalls ==
  ASSUME Calls, PicInv, NEW s \in Sets
  PROVE  Sum([t \in {w \in Threads : call[w] # None /\ call[w].set = s} |-> leased[t]])
           = SumFunctionOnSet(HandLeases(s), Threads)
<1> DEFINE R == {w \in Threads : call[w] # None /\ call[w].set = s}
           f == [t \in R |-> leased[t]]
           h == HandLeases(s)
<1>1. ASSUME NEW t \in Threads
      PROVE  /\ t \in R => f[t] = h[t]
             /\ t \notin R => h[t] = 0
  <2>1. leased[t] # 0 => Works(t)
    BY DEF PicInv
  <2>2. Works(t) => call[t] # None
    BY CallFields DEF Works
  <2>3. h[t] = IF Works(t) /\ call[t].set = s THEN leased[t] ELSE 0
    BY DEF HandLeases
  <2> HIDE DEF h, Works
  <2> QED
    BY <2>1, <2>2, <2>3
<1>2. R \cup (Threads \ R) = Threads /\ R \cap (Threads \ R) = {} /\ R \subseteq Threads
  OBVIOUS
<1>3. DOMAIN f = R
  OBVIOUS
<1>4. IsFiniteSet(Threads) /\ Weights(h, Threads)
  BY LeaseTypes
<1> HIDE DEF R, f, h
<1>5. IsFiniteSet(R) /\ IsFiniteSet(Threads \ R)
  BY <1>2, <1>4, FS_Subset
<1>6. Weights(h, R)
  BY <1>2, <1>4 DEF Weights
<1>7. SumFunctionOnSet(f, R) = SumFunctionOnSet(h, R)
  BY <1>1, <1>2, <1>5, SumSame
<1>8. SumFunctionOnSet(h, Threads \ R) = 0
  BY <1>1, <1>5, SumOfNothing
<1>9. SumFunctionOnSet(h, Threads) = SumFunctionOnSet(h, R) + SumFunctionOnSet(h, Threads \ R)
  <2>1. Weights(h, R \cup (Threads \ R))
    BY <1>2, <1>4
  <2>2. SumFunctionOnSet(h, R \cup (Threads \ R))
          = SumFunctionOnSet(h, R) + SumFunctionOnSet(h, Threads \ R)
    BY <1>2, <1>5, <2>1, SumUnion
  <2> QED
    BY <1>2, <2>2
<1>10. SumFunctionOnSet(h, R) \in Nat
  BY <1>5, <1>6, SumElement
<1>11. Sum(f) = SumFunctionOnSet(f, R)
  BY <1>3, SumOfAll
<1>12. Sum(f) = SumFunctionOnSet(h, Threads)
  BY <1>7, <1>8, <1>9, <1>10, <1>11
<1> QED
  BY <1>12 DEF f, R, h

LEMMA TypesImplied ==
  PermitInv /\ FlightInv /\ Calls /\ PicInv /\ AccInv /\ Marks => PTypeOK
<1> SUFFICES ASSUME PermitInv, FlightInv, Calls, PicInv, AccInv, Marks
             PROVE  PTypeOK
  OBVIOUS
<1>1. permits \in 0..MaxPermits
  <2> DEFINE n == Cardinality(Busy)
  <2>1. permits \in Nat /\ permits + n = MaxPermits
    BY DEF PermitInv, PermitsCounted, Busy
  <2>2. n \in Nat /\ MaxPermits \in Nat
    BY BusyFinite, ImagesAssumption DEF ImagesAssumption
  <2> HIDE DEF n
  <2> QED
    BY <2>1, <2>2
<1>2. DOMAIN pc = Threads /\ DOMAIN call = Threads
  BY DEF Calls
<1>3. /\ inflight \in [Sets -> [Urls -> {None, "pending", "skipped", "cached"}]]
      /\ orphaned \in [Sets -> SUBSET Urls]
  BY DEF FlightInv, FlightStates
<1>4. /\ decoded \in [Sets -> Nat] /\ inline \in [Sets -> Nat] /\ sceneBytes \in [Sets -> Nat]
      /\ retained \in Nat
  BY RetainedNat DEF AccInv
<1>5. budget \in [Sets -> [backgrounds : Nat, pictures : Nat]]
  BY DEF PicInv
<1>6. TypeOK
  BY <1>1, <1>2, <1>3, <1>4, <1>5 DEF TypeOK, Marks
<1> QED
  BY <1>6 DEF PTypeOK, PicInv, Marks

LEMMA AgreementImplied ==
  PermitInv /\ FlightInv /\ Calls /\ PicInv /\ AccInv /\ Marks => AccountsAgree
<1> SUFFICES ASSUME PermitInv, FlightInv, Calls, PicInv, AccInv, Marks
             PROVE  AccountsAgree
  OBVIOUS
<1>1. ASSUME NEW s \in Sets
      PROVE  inline[s] = Leases(s)
               + Sum([t \in {w \in Threads : call[w] # None /\ call[w].set = s} |-> leased[t]])
  <2>1. inline[s] = SumFunctionOnSet(MemoLeases(s), Pictures)
                      + SumFunctionOnSet(HandLeases(s), Threads)
    BY DEF PicInv
  <2> QED
    BY <2>1, LeasesAreSums, HandsOfCalls
<1> QED
  BY <1>1, TypesImplied, CountersImplied DEF AccountsAgree

\* For every number of threads, sets, URLs and pictures and every limit: what
\* the counters of a set and of the process say is what is kept, no counter is
\* over its limit, and the inline bytes are those of the leases alive
\* (image_cache.rs insert_raster, insert_source, insert_scene; inline.rs).
THEOREM AccountsAlwaysAgree == PSpec => []AccountsAgree
BY PermitInit, PermitStep, FlightInit, FlightStep, CallsInit, CallsStep, PicturesInit,
   PicturesStep, AccountsInit, AccountsStep, MarksInit, MarksStep, AgreementImplied, PTL
   DEF PSpec

----------------------------------------------------------------------------
(* A request leaves its image or a warning. *)

Explained(t) == t \in warned \/ entries[call[t].set][call[t].url] # None

\* From the end of its decode to its return a call for a background can say
\* what became of it; before it asks, nothing was tried for it.
Tells(t) ==
  call[t] \in BackgroundCall =>
    /\ pc[t] \in {"release", "finish", "remove"} => Explained(t)
    /\ pc[t] = "left" /\ call[t].tried => Explained(t)
    /\ pc[t] \in {"lock", "ask"} => ~call[t].tried

CachedIsKept ==
  \A s \in Sets, u \in Urls : inflight[s][u] = "cached" => entries[s][u] # None

Told == (\A t \in Threads : Tells(t)) /\ CachedIsKept

\* No image that is kept goes.
Grows == \A s \in Sets, u \in Urls : entries[s][u] # None => entries'[s][u] # None

LEMMA StillTells ==
  ASSUME Told, Grows, NEW t \in Threads, pc'[t] = pc[t], call'[t] = call[t],
         t \in warned => t \in warned'
  PROVE  Tells(t)'
<1>1. Tells(t)
  BY DEF Told
<1>2. call[t] \in BackgroundCall /\ Explained(t) => Explained(t)'
  BY CallFields DEF Explained, Grows
<1> QED
  BY <1>1, <1>2 DEF Tells

\* A call that goes where it need not tell anything.
LEMMA SilentTells ==
  ASSUME NEW t \in Threads,
         pc'[t] \notin {"release", "finish", "remove", "left", "lock", "ask"}
  PROVE  Tells(t)'
BY DEF Tells

LEMMA OtherCallTells ==
  ASSUME NEW t \in Threads, call'[t] \in PaintCall \cup PictureCall \cup {None}
  PROVE  Tells(t)'
<1>1. call'[t] \notin BackgroundCall
  BY CallFields, ImagesAssumption DEF ImagesAssumption
<1> QED
  BY <1>1 DEF Tells

LEMMA ExplainedTells ==
  ASSUME NEW t \in Threads, pc'[t] \notin {"lock", "ask"}, Explained(t)'
  PROVE  Tells(t)'
BY DEF Tells

\* One thread moves, and the flights stay.
LEMMA MoveTells ==
  ASSUME Told, Grows, NEW t \in Threads, Tells(t)', UNCHANGED inflight,
         \A w \in Threads \ {t} :
           pc'[w] = pc[w] /\ call'[w] = call[w] /\ (w \in warned => w \in warned')
  PROVE  Told'
<1>1. \A w \in Threads : Tells(w)'
  <2>1. ASSUME NEW w \in Threads \ {t}
        PROVE  Tells(w)'
    BY <2>1, StillTells
  <2> QED
    BY <2>1
<1>2. CachedIsKept'
  BY DEF Told, CachedIsKept, Grows
<1> QED
  BY <1>1, <1>2 DEF Told

LEMMA GotoTells ==
  ASSUME Calls, Told, Grows, NEW t \in Threads, NEW place, Goto(t, place), call' = call,
         warned \subseteq warned', UNCHANGED inflight, Tells(t)'
  PROVE  Told'
<1>1. \A w \in Threads \ {t} :
        pc'[w] = pc[w] /\ call'[w] = call[w] /\ (w \in warned => w \in warned')
  BY DEF Goto, Calls
<1> HIDE DEF Tells, Told, Grows
<1> QED
  BY <1>1, MoveTells

\* Where a thread is after Goto.
LEMMA There ==
  ASSUME Calls, NEW t \in Threads, NEW place, Goto(t, place) PROVE pc'[t] = place
BY DEF Calls, Goto

\* A permit goes back, and maybe another thread wakes.
LEMMA BackTells ==
  ASSUME Calls, Told, Grows, NEW t \in Threads, NEW place, PermitsBack(t, place), call' = call,
         warned' = warned, UNCHANGED inflight, pc'[t] = place => Tells(t)',
         pc[t] # "asleep"
  PROVE  Told'
<1>1. /\ pc'[t] = place
      /\ \A w \in Threads \ {t} : pc'[w] = pc[w] \/ pc'[w] = "permit"
  BY DEF PermitsBack, Asleep, Goto, Calls
<1>2. ASSUME NEW w \in Threads
      PROVE  Tells(w)'
  <2>1. CASE w = t
    BY <1>1, <2>1
  <2>2. CASE w # t /\ pc'[w] = pc[w]
    BY <2>2, StillTells
  <2>3. CASE w # t /\ pc'[w] = "permit"
    BY <2>3, SilentTells
  <2> QED
    BY <1>1, <2>1, <2>2, <2>3
<1>3. CachedIsKept'
  BY DEF Told, CachedIsKept, Grows
<1> QED
  BY <1>2, <1>3 DEF Told

LEMMA EntryGrows ==
  ASSUME AccInv, NEW s \in Sets, NEW u \in Urls, NEW e \in CachedImages,
         entries' = [entries EXCEPT ![s][u] = e]
  PROVE  Grows /\ entries'[s][u] # None
<1> DEFINE es == [entries[s] EXCEPT ![u] = e]
<1>1. e # None
  BY Limits
<1>2. entries \in [Sets -> [Urls -> CachedImages \cup {None}]]
  BY DEF AccInv
<1>3. entries' = [entries EXCEPT ![s] = es] /\ entries[s] \in [Urls -> CachedImages \cup {None}]
  BY <1>2
<1>4. es[u] # None /\ \A y \in Urls : entries[s][y] # None => es[y] # None
  BY <1>1, <1>3
<1> HIDE DEF es
<1>5. entries'[s] = es /\ \A v \in Sets \ {s} : entries'[v] = entries[v]
  BY <1>2, <1>3
<1> QED
  BY <1>4, <1>5 DEF Grows

LEMMA NoChangeGrows == ASSUME entries' = entries PROVE Grows
BY DEF Grows

\* The steps that decode, draw or parse.
LEMMA CacheTells ==
  ASSUME Calls, AccInv, Told, NEW t \in Threads,
         ParseSource(t) \/ DecodeRaster(t) \/ DrawPixels(t) \/ BuildScene(t)
  PROVE  Told'
<1> DEFINE s == call[t].set
           u == call[t].url
<1>0. Goto(t, "release") /\ call' = call /\ UNCHANGED inflight /\ pc'[t] = "release"
  BY There DEF ParseSource, DecodeRaster, DrawPixels, BuildScene, flightVars
<1>1. CASE ParseSource(t)
  <2>1. call[t] \in BackgroundCall /\ inline' = inline
    BY <1>1, Callers DEF ParseSource, BackgroundPlaces, Shared
  <2>2. s \in Sets /\ u \in Urls
    BY <2>1, CallFields
  <2>3. CASE warned' = warned \cup {t} /\ UNCHANGED entries
    <3>1. Explained(t)'
      BY <2>3 DEF Explained
    <3>2. Tells(t)'
      BY <1>0, <3>1, ExplainedTells
    <3> QED
      BY <1>0, <2>3, <3>2, NoChangeGrows, GotoTells
  <2>4. CASE \E e \in CachedImages : entries' = [entries EXCEPT ![s][u] = e]
    <3>1. Grows /\ entries'[s][u] # None
      <4> HIDE DEF s, u
      <4> QED
        BY <2>2, <2>4, EntryGrows
    <3>2. Explained(t)'
      BY <1>0, <3>1 DEF Explained
    <3>3. Tells(t)'
      BY <1>0, <3>2, ExplainedTells
    <3>4. warned \subseteq warned'
      BY <1>1 DEF ParseSource, CacheSource, Warn
    <3> QED
      BY <1>0, <3>1, <3>3, <3>4, GotoTells
  <2>5. CASE CacheSource(t)
    <3>1. \/ warned' = warned \cup {t} /\ UNCHANGED entries
          \/ \E e \in CachedImages : entries' = [entries EXCEPT ![s][u] = e]
      BY <2>1, <2>2, <2>5, SourceKept
    <3> QED
      BY <2>3, <2>4, <3>1
  <2> QED
    BY <1>1, <2>3, <2>5 DEF ParseSource, Warn, keptVars
<1>2. CASE DecodeRaster(t)
  <2>1. call[t] \in BackgroundCall /\ inline' = inline
    BY <1>2, Callers DEF DecodeRaster, BackgroundPlaces, Shared
  <2>2. s \in Sets /\ u \in Urls
    BY <2>1, CallFields
  <2>3. CASE warned' = warned \cup {t} /\ UNCHANGED entries
    <3>1. Explained(t)'
      BY <2>3 DEF Explained
    <3>2. Tells(t)'
      BY <1>0, <3>1, ExplainedTells
    <3> QED
      BY <1>0, <2>3, <3>2, NoChangeGrows, GotoTells
  <2>4. CASE \E bytes \in ImageBytes :
               /\ Admitted(s, u, FALSE, "natural", bytes)
               /\ CacheRaster(s, u, FALSE, "natural", bytes) /\ UNCHANGED warned
    <3>1. PICK bytes \in ImageBytes :
            /\ Admitted(s, u, FALSE, "natural", bytes)
            /\ CacheRaster(s, u, FALSE, "natural", bytes) /\ UNCHANGED warned
      BY <2>4
    <3> DEFINE size == "natural"
               svg == FALSE
    <3>2. /\ size \in Sizes \cup {"natural"} /\ svg \in BOOLEAN /\ bytes \in Nat
          /\ Admitted(s, u, svg, size, bytes) /\ CacheRaster(s, u, svg, size, bytes)
      BY <3>1, GivenBytes
    <3>3. PICK e \in CachedImages : entries' = [entries EXCEPT ![s][u] = e]
      <4> HIDE DEF size, svg, s, u
      <4> QED
        BY <2>1, <2>2, <3>2, RasterKept
    <3>4. Grows /\ entries'[s][u] # None
      <4> HIDE DEF s, u
      <4> QED
        BY <2>2, <3>3, EntryGrows
    <3>5. Explained(t)'
      BY <1>0, <3>4 DEF Explained
    <3>6. Tells(t)'
      BY <1>0, <3>5, ExplainedTells
    <3> QED
      BY <1>0, <3>1, <3>4, <3>6, GotoTells
  <2> QED
    BY <1>2, <2>3, <2>4 DEF DecodeRaster, Warn, keptVars
<1>3. CASE DrawPixels(t) \/ BuildScene(t)
  <2>1. call[t] \in PaintCall
    BY <1>3, Callers DEF DrawPixels, BuildScene, PixelsPlaces, VectorPlaces, Shared
  <2>2. Tells(t)' /\ warned' = warned
    <3>1. warned' = warned
      BY <1>3 DEF DrawPixels, BuildScene
    <3> QED
      BY <1>0, <2>1, <3>1, OtherCallTells
  <2>3. Grows
    <3>1. CASE entries' = entries
      BY <3>1, NoChangeGrows
    <3>2. CASE \E bytes \in ImageBytes : Admitted(s, u, TRUE, call[t].size, bytes)
                                           /\ CacheRaster(s, u, TRUE, call[t].size, bytes)
                                           /\ inline' = inline
      <4>1. PICK bytes \in ImageBytes : Admitted(s, u, TRUE, call[t].size, bytes)
                                          /\ CacheRaster(s, u, TRUE, call[t].size, bytes)
                                          /\ inline' = inline
        BY <3>2
      <4> DEFINE size == call[t].size
                 svg == TRUE
      <4>2. /\ size \in Sizes \cup {"natural"} /\ svg \in BOOLEAN /\ bytes \in Nat
            /\ Admitted(s, u, svg, size, bytes) /\ CacheRaster(s, u, svg, size, bytes)
            /\ s \in Sets /\ u \in Urls
        BY <2>1, <4>1, GivenBytes, CallFields
      <4> HIDE DEF size, svg, s, u
      <4>3. PICK e \in CachedImages : entries' = [entries EXCEPT ![s][u] = e]
        BY <4>1, <4>2, RasterKept
      <4> QED
        BY <4>2, <4>3, EntryGrows
    <3> QED
      BY <1>3, <3>1, <3>2 DEF DrawPixels, BuildScene, keptVars
  <2> QED
    BY <1>0, <2>2, <2>3, GotoTells
<1> QED
  BY <1>1, <1>2, <1>3

LEMMA StepTells ==
  ASSUME Calls, FlightInv, AccInv, Told, NEW t \in Threads, Step(t)
  PROVE  Told'
<1>0. Tells(t) /\ Belongs(call[t], pc[t])
  BY DEF Told, Calls
<1>1. CASE ParseSource(t) \/ DecodeRaster(t) \/ DrawPixels(t) \/ BuildScene(t)
  BY <1>1, CacheTells
<1>2. CASE PassOver(t) \/ TurnAway(t)
  <2>1. /\ pc[t] = "ask" /\ Goto(t, "left") /\ call' = call /\ UNCHANGED <<inflight, entries>>
        /\ warned \subseteq warned'
    BY <1>2 DEF PassOver, TurnAway, Warn, flightVars, keptVars
  <2>2. Grows /\ pc'[t] = "left"
    BY <2>1, NoChangeGrows, There
  <2>3. Tells(t)'
    BY <1>0, <2>1, <2>2 DEF Tells
  <2> QED
    BY <2>1, <2>2, <2>3, GotoTells
<1>3. CASE Ask(t)
  <2>1. /\ Goto(t, "look") /\ call' = [call EXCEPT ![t].tried = TRUE]
        /\ UNCHANGED <<inflight, entries, warned>>
    BY <1>3 DEF Ask, flightVars, keptVars
  <2>2. Grows /\ pc'[t] = "look"
    BY <2>1, NoChangeGrows, There
  <2>3. Tells(t)'
    BY <2>2, SilentTells
  <2>4. \A w \in Threads \ {t} : pc'[w] = pc[w] /\ call'[w] = call[w] /\ (w \in warned => w \in warned')
    BY <2>1 DEF Goto, Calls
  <2> QED
    BY <2>1, <2>2, <2>3, <2>4, MoveTells
<1>4. CASE Look(t)
  <2>1. /\ call[t] \in BackgroundCall /\ call' = call /\ UNCHANGED <<inflight, entries, warned>>
        /\ \/ Goto(t, "left") /\ entries[call[t].set][call[t].url] # None
           \/ Goto(t, "payload") \/ Goto(t, "join")
    BY <1>4, Callers DEF Look, flightVars, keptVars, BackgroundPlaces, Shared
  <2>2. Grows
    BY <2>1, NoChangeGrows
  <2>3. CASE Goto(t, "left") /\ entries[call[t].set][call[t].url] # None
    <3>1. pc'[t] = "left" /\ Explained(t)'
      BY <2>1, <2>3, There DEF Explained
    <3>2. Tells(t)'
      BY <3>1, ExplainedTells
    <3> QED
      BY <2>1, <2>2, <2>3, <3>2, GotoTells
  <2>4. CASE Goto(t, "payload") \/ Goto(t, "join")
    <3>1. pc'[t] \in {"payload", "join"}
      BY <2>4, There
    <3>2. Tells(t)'
      BY <3>1, SilentTells
    <3> QED
      BY <2>1, <2>2, <2>4, <3>2, GotoTells
  <2> QED
    BY <2>1, <2>3, <2>4
<1>5. CASE AdmitPayload(t) \/ Request(t)
  <2>1. /\ call' = call /\ UNCHANGED <<inflight, entries>>
        /\ \/ warned' = warned \cup {t} /\ (Goto(t, "left") \/ Goto(t, "finish"))
           \/ warned' = warned /\ Goto(t, "permit")
    BY <1>5 DEF AdmitPayload, Request, Warn, flightVars, keptVars
  <2>2. Grows
    BY <2>1, NoChangeGrows
  <2>3. CASE warned' = warned \cup {t} /\ (Goto(t, "left") \/ Goto(t, "finish"))
    <3>1. pc'[t] \in {"left", "finish"} /\ Explained(t)'
      BY <2>3, There DEF Explained
    <3>2. Tells(t)'
      BY <3>1, ExplainedTells
    <3> QED
      BY <2>1, <2>2, <2>3, <3>2, GotoTells
  <2>4. CASE warned' = warned /\ Goto(t, "permit")
    <3>1. pc'[t] = "permit"
      BY <2>4, There
    <3>2. Tells(t)'
      BY <3>1, SilentTells
    <3> QED
      BY <2>1, <2>2, <2>4, <3>2, GotoTells
  <2> QED
    BY <2>1, <2>3, <2>4
<1>6. CASE JoinOwner(t)
  <2> DEFINE s == call[t].set
             u == call[t].url
  <2>1. /\ Goto(t, "request") /\ call' = call /\ UNCHANGED <<entries, warned>>
        /\ inflight' = [inflight EXCEPT ![s][u] = "pending"]
    BY <1>6 DEF JoinOwner, keptVars
  <2>2. Grows /\ pc'[t] = "request"
    BY <2>1, NoChangeGrows, There
  <2>3. ASSUME NEW w \in Threads
        PROVE  Tells(w)'
    <3>1. CASE w = t
      BY <2>2, <3>1, SilentTells
    <3>2. CASE w # t
      <4>1. pc'[w] = pc[w]
        BY <2>1, <3>2 DEF Goto, Calls
      <4> QED
        BY <2>1, <2>2, <4>1, StillTells
    <3> QED
      BY <3>1, <3>2
  <2>4. CachedIsKept'
    <3>1. inflight \in [Sets -> [Urls -> FlightStates]]
      BY DEF FlightInv
    <3>2. \A v \in Sets, y \in Urls : inflight'[v][y] \in {inflight[v][y], "pending"}
      BY <2>1, <3>1
    <3> QED
      BY <2>1, <3>2 DEF Told, CachedIsKept
  <2> QED
    BY <2>3, <2>4 DEF Told
<1>7. CASE JoinWaiter(t)
  <2> DEFINE s == call[t].set
             u == call[t].url
             flight == inflight[s][u]
  <2>1. /\ call[t] \in BackgroundCall /\ call' = call /\ UNCHANGED <<inflight, entries>>
        /\ flight # None /\ Goto(t, IF flight = "pending" THEN "wait" ELSE "left")
        /\ warned' = IF flight = "skipped" THEN warned \cup {t} ELSE warned
    BY <1>7, Callers DEF JoinWaiter, flightVars, keptVars, BackgroundPlaces, Shared
  <2>2. Grows /\ s \in Sets /\ u \in Urls
    BY <2>1, NoChangeGrows, CallFields
  <2>3. flight \in {"pending", "skipped", "cached"}
    BY <2>1, <2>2 DEF FlightInv, FlightStates
  <2>4. pc'[t] = IF flight = "pending" THEN "wait" ELSE "left"
    BY <2>1, There
  <2>5. Tells(t)'
    <3>1. CASE flight = "pending"
      BY <2>4, <3>1, SilentTells
    <3>2. CASE flight = "skipped"
      <4>1. Explained(t)'
        BY <2>1, <3>2 DEF Explained
      <4> QED
        BY <2>4, <3>2, <4>1, ExplainedTells
    <3>3. CASE flight = "cached"
      <4>1. entries[s][u] # None
        BY <2>2, <3>3 DEF Told, CachedIsKept
      <4>2. Explained(t)'
        BY <2>1, <4>1 DEF Explained
      <4> QED
        BY <2>4, <3>3, <4>2, ExplainedTells
    <3> QED
      BY <2>3, <3>1, <3>2, <3>3
  <2>6. warned \subseteq warned'
    BY <2>1
  <2> HIDE DEF s, u, flight
  <2> QED
    BY <2>1, <2>2, <2>5, <2>6, GotoTells
<1>8. CASE Finish(t)
  <2> DEFINE s == call[t].set
             u == call[t].url
  <2>1. /\ call[t] \in BackgroundCall /\ pc[t] = "finish" /\ call' = call /\ UNCHANGED entries
        /\ inflight' = [inflight EXCEPT ![s][u] = IF t \in warned THEN "skipped" ELSE "cached"]
        /\ pc' = [w \in Threads |-> IF w = t THEN "remove"
                                    ELSE IF w \in Waiters(s, u) THEN "left" ELSE pc[w]]
        /\ warned' = IF t \in warned THEN warned \cup Waiters(s, u) ELSE warned
    BY <1>8, Callers DEF Finish, keptVars, BackgroundPlaces, Shared
  <2>2. Grows /\ s \in Sets /\ u \in Urls
    BY <2>1, NoChangeGrows, CallFields
  <2>3. t \in warned \/ entries[s][u] # None
    BY <1>0, <2>1 DEF Tells, Explained
  <2>4. ASSUME NEW w \in Threads
        PROVE  Tells(w)'
    <3>1. CASE w = t
      <4>1. pc'[w] = "remove" /\ Explained(w)'
        BY <2>1, <2>3, <3>1 DEF Explained
      <4> QED
        BY <4>1, ExplainedTells
    <3>2. CASE w # t /\ w \in Waiters(s, u)
      <4>1. pc'[w] = "left" /\ call[w].set = s /\ call[w].url = u
        BY <2>1, <3>2 DEF Waiters
      <4>2. Explained(w)'
        BY <2>1, <2>3, <3>2, <4>1 DEF Explained
      <4> QED
        BY <4>1, <4>2, ExplainedTells
    <3>3. CASE w # t /\ w \notin Waiters(s, u)
      <4>1. pc'[w] = pc[w] /\ call'[w] = call[w] /\ (w \in warned => w \in warned')
        BY <2>1, <3>3
      <4> QED
        BY <2>2, <4>1, StillTells
    <3> QED
      BY <3>1, <3>2, <3>3
  <2>5. CachedIsKept'
    <3>1. inflight \in [Sets -> [Urls -> FlightStates]]
      BY DEF FlightInv
    <3>2. \A v \in Sets, y \in Urls :
            \/ inflight'[v][y] = inflight[v][y]
            \/ v = s /\ y = u /\ inflight'[v][y] = IF t \in warned THEN "skipped" ELSE "cached"
      BY <2>1, <3>1
    <3> HIDE DEF s, u
    <3> QED
      BY <2>1, <2>3, <3>2 DEF Told, CachedIsKept
  <2> QED
    BY <2>4, <2>5 DEF Told
<1>9. CASE RemoveFlight(t)
  <2> DEFINE s == call[t].set
             u == call[t].url
  <2>1. /\ call[t] \in BackgroundCall /\ pc[t] = "remove" /\ call' = call
        /\ UNCHANGED <<entries, warned>>
        /\ Goto(t, "left") /\ inflight' = [inflight EXCEPT ![s][u] = None]
    BY <1>9, Callers DEF RemoveFlight, keptVars, BackgroundPlaces, Shared
  <2>2. Grows /\ pc'[t] = "left"
    BY <2>1, NoChangeGrows, There
  <2>3. ASSUME NEW w \in Threads
        PROVE  Tells(w)'
    <3>1. CASE w = t
      <4>1. Explained(t)'
        BY <1>0, <2>1 DEF Tells, Explained
      <4> QED
        BY <2>2, <3>1, <4>1, ExplainedTells
    <3>2. CASE w # t
      <4>1. pc'[w] = pc[w]
        BY <2>1, <3>2 DEF Goto, Calls
      <4> QED
        BY <2>1, <2>2, <4>1, StillTells
    <3> QED
      BY <3>1, <3>2
  <2>4. CachedIsKept'
    <3>1. inflight \in [Sets -> [Urls -> FlightStates]] /\ None # "cached"
      BY ImagesAssumption DEF FlightInv, ImagesAssumption
    <3>2. \A v \in Sets, y \in Urls : inflight'[v][y] \in {inflight[v][y], None}
      BY <2>1, <3>1
    <3> QED
      BY <2>1, <3>1, <3>2 DEF Told, CachedIsKept
  <2> QED
    BY <2>3, <2>4 DEF Told
<1>10. CASE Acquire(t)
  <2>1. /\ call' = call /\ UNCHANGED <<inflight, entries, warned>>
        /\ Goto(t, "asleep") \/ Goto(t, Granted(t))
    BY <1>10 DEF Acquire, flightVars, keptVars
  <2>2. Granted(t) \in {"parse", "room", "again pixels", "again vector", "picture room"}
    BY DEF Granted
  <2>3. pc'[t] \in {"asleep", "parse", "room", "again pixels", "again vector", "picture room"}
    BY <2>1, <2>2, There
  <2>4. Tells(t)'
    BY <2>3, SilentTells
  <2> QED
    BY <2>1, <2>4, NoChangeGrows, GotoTells
<1>11. CASE DropPermit(t)
  <2> DEFINE place == IF call[t].for = "background" THEN AfterDecode(t) ELSE "left"
  <2>1. /\ pc[t] = "release" /\ PermitsBack(t, place) /\ call' = call
        /\ UNCHANGED <<inflight, entries, warned>>
    BY <1>11 DEF DropPermit, flightVars, keptVars
  <2>2. place \in {"left", "finish"}
    BY DEF AfterDecode
  <2> HIDE DEF place
  <2>3. Grows
    BY <2>1, NoChangeGrows
  <2>4. pc'[t] = place => Tells(t)'
    <3>1. call[t] \in BackgroundCall => Explained(t)'
      BY <1>0, <2>1 DEF Tells, Explained
    <3> QED
      BY <2>1, <2>2, <3>1 DEF Tells
  <2> QED
    BY <2>1, <2>3, <2>4, BackTells
<1>12. CASE ReadRoom(t) \/ LookForPixels(t) \/ LookForScene(t) \/ LookForSceneAgain(t)
  <2>1. /\ call' = call /\ UNCHANGED <<inflight, entries, warned>>
        /\ \/ Goto(t, "raster") \/ Goto(t, "draw")
           \/ /\ call[t] \in PaintCall
              /\ \E place \in {"left", "release", "permit", "pixels room", "build"} :
                   Goto(t, place)
    BY <1>12, Callers DEF ReadRoom, LookForPixels, LookForScene, LookForSceneAgain, flightVars,
       keptVars, PixelsPlaces, VectorPlaces, Shared
  <2>2. Grows
    BY <2>1, NoChangeGrows
  <2>3. pc'[t] \in {"raster", "draw"} \/ call[t] \in PaintCall
    BY <2>1, There
  <2>4. Tells(t)'
    BY <2>1, <2>3, SilentTells, OtherCallTells
  <2> QED
    BY <2>1, <2>2, <2>4, GotoTells
<1>13. CASE Return(t)
  <2>1. /\ UNCHANGED <<inflight, entries>> /\ Forget(t)
    BY <1>13 DEF Return, flightVars, keptVars
  <2>2. /\ pc'[t] = "idle"
        /\ \A w \in Threads \ {t} :
             pc'[w] = pc[w] /\ call'[w] = call[w] /\ (w \in warned => w \in warned')
    BY <2>1 DEF Forget, Calls
  <2>3. Tells(t)' /\ Grows
    BY <2>1, <2>2, SilentTells, NoChangeGrows
  <2> QED
    BY <2>1, <2>2, <2>3, MoveTells
<1> QED
  BY <1>1, <1>2, <1>3, <1>4, <1>5, <1>6, <1>7, <1>8, <1>9, <1>10, <1>11, <1>12, <1>13 DEF Step

\* A call starts, with nothing tried for it.
LEMMA CallTells ==
  ASSUME Calls, Told, NEW t \in Threads, NEW what, NEW place, NEW request,
         Call(t, what, place, request), place \notin {"release", "finish", "remove", "left"},
         request \in BackgroundCall => ~request.tried
  PROVE  Told'
<1>1. /\ UNCHANGED <<inflight, entries, warned>>
      /\ pc'[t] = place /\ call'[t] = request
      /\ \A w \in Threads \ {t} : pc'[w] = pc[w] /\ call'[w] = call[w]
  BY DEF Call, Goto, Calls, flightVars, keptVars
<1>2. Tells(t)'
  BY <1>1 DEF Tells
<1>3. Grows
  BY <1>1, NoChangeGrows
<1> QED
  BY <1>1, <1>2, <1>3, MoveTells

\* A set is given up when none of its calls is left to tell.
LEMMA ReconfigureTells ==
  ASSUME Calls, FlightInv, Told, NEW s \in Sets, Reconfigure(s)
  PROVE  Told'
<1>1. /\ pc' = pc /\ call' = call /\ warned' = warned
      /\ \A t \in Threads : pc[t] # "idle" => call[t].set # s
      /\ entries' = [entries EXCEPT ![s] = [u \in Urls |-> None]]
      /\ inflight' = [inflight EXCEPT ![s] = [u \in Urls |-> None]]
  BY DEF Reconfigure, threadVars
<1>2. ASSUME NEW t \in Threads
      PROVE  Tells(t)'
  <2>1. CASE pc[t] = "idle"
    BY <1>1, <2>1, SilentTells
  <2>2. CASE pc[t] # "idle"
    <3>1. entries'[call[t].set] = entries[call[t].set]
      BY <1>1, <2>2
    <3>2. Tells(t)
      BY DEF Told
    <3> QED
      BY <1>1, <3>1, <3>2 DEF Tells, Explained
  <2> QED
    BY <2>1, <2>2
<1>3. CachedIsKept'
  <2>1. inflight \in [Sets -> [Urls -> FlightStates]] /\ None # "cached"
    BY ImagesAssumption DEF FlightInv, ImagesAssumption
  <2>2. \A v \in Sets, y \in Urls :
          \/ v = s /\ inflight'[v][y] = None
          \/ inflight'[v][y] = inflight[v][y] /\ entries'[v][y] = entries[v][y]
    BY <1>1, <2>1
  <2> QED
    BY <2>1, <2>2 DEF Told, CachedIsKept
<1> QED
  BY <1>2, <1>3 DEF Told

LEMMA NextTells ==
  ASSUME Calls, FlightInv, AccInv, Told, Next
  PROVE  Told'
<1>1. CASE \E t \in Threads : Step(t)
  BY <1>1, StepTells
<1>2. ASSUME NEW t \in Threads, NEW s \in Sets, NEW u \in Urls, Preload(t, s, u)
      PROVE  Told'
  <2> DEFINE request == [set |-> s, for |-> "background", asker |-> t, url |-> u,
                         tried |-> FALSE]
  <2>1. Call(t, "css", "ask", request) /\ ~request.tried
    BY <1>2 DEF Preload
  <2> HIDE DEF request
  <2> QED
    BY <2>1, CallTells
<1>3. ASSUME NEW t \in Threads, NEW s \in Sets, NEW u \in SvgUrls, NEW size \in Sizes,
             PaintPixels(t, s, u, size) \/ PaintVector(t, s, u, size)
      PROVE  Told'
  <2> DEFINE pixels == [set |-> s, for |-> "pixels", asker |-> t, url |-> u, size |-> size]
             vector == [set |-> s, for |-> "vector", asker |-> t, url |-> u, size |-> size]
  <2>1. pixels \notin BackgroundCall /\ vector \notin BackgroundCall
    <3>1. pixels.for = "pixels" /\ vector.for = "vector"
      OBVIOUS
    <3> HIDE DEF pixels, vector
    <3> QED
      BY <3>1, CallFields
  <2>2. Call(t, "paint", "pixels", pixels) \/ Call(t, "paint", "vector", vector)
    BY <1>3 DEF PaintPixels, PaintVector
  <2> HIDE DEF pixels, vector
  <2> QED
    BY <2>1, <2>2, CallTells
<1>4. ASSUME NEW t \in Threads, Abort(t) \/ NewRender(t)
      PROVE  Told'
  <2>1. UNCHANGED <<pc, call, warned, inflight, entries>>
    BY <1>4 DEF Abort, NewRender, threadVars, flightVars, keptVars
  <2>2. Grows
    BY <2>1, NoChangeGrows
  <2>3. Tells(t)'
    BY <2>1, <2>2, StillTells
  <2> QED
    BY <2>1, <2>2, <2>3, MoveTells
<1>5. ASSUME NEW t \in Threads, Panic(t)
      PROVE  Told'
  <2>1. /\ call' = call /\ UNCHANGED <<warned, inflight, entries>>
        /\ Goto(t, "panicked") \/ PermitsBack(t, "panicked")
        /\ pc[t] # "asleep"
    BY <1>5 DEF Panic, LeavesFlight, keptVars
  <2>2. Grows
    BY <2>1, NoChangeGrows
  <2>3. CASE Goto(t, "panicked")
    <3>1. pc'[t] = "panicked"
      BY <2>3, There
    <3>2. Tells(t)'
      BY <3>1, SilentTells
    <3> QED
      BY <2>1, <2>2, <2>3, <3>2, GotoTells
  <2>4. CASE PermitsBack(t, "panicked")
    <3>1. pc'[t] = "panicked" => Tells(t)'
      BY SilentTells
    <3> QED
      BY <2>1, <2>2, <2>4, <3>1, BackTells
  <2> QED
    BY <2>1, <2>3, <2>4
<1> QED
  BY <1>1, <1>2, <1>3, <1>4, <1>5, ReconfigureTells DEF Next

LEMMA PictureStepTells ==
  ASSUME Calls, Told, NEW t \in Threads, PictureStep(t)
  PROVE  Told'
<1>0. UNCHANGED <<inflight, entries>> /\ Grows
  <2>1. UNCHANGED <<inflight, entries>>
    BY DEF PictureStep, LockState, ReturnUrl, PictureKnown, PictureNew, PictureRegister,
       PictureRoom, PictureDecode, PictureRelease, PictureComplete, PictureNotify, flightVars,
       keptVars
  <2> QED
    BY <2>1, NoChangeGrows
<1>1. CASE LockState(t)
  <2>1. /\ pc[t] = "lock" /\ Goto(t, "ask") /\ call' = call /\ warned' = warned
    BY <1>1 DEF LockState
  <2>2. pc'[t] = "ask" /\ Tells(t)
    BY <2>1, There DEF Told
  <2>3. Tells(t)'
    BY <2>1, <2>2 DEF Tells
  <2> QED
    BY <1>0, <2>1, <2>3, GotoTells
<1>2. CASE ReturnUrl(t)
  <2>1. Forget(t)
    BY <1>2 DEF ReturnUrl
  <2>2. /\ pc'[t] = "idle"
        /\ \A w \in Threads \ {t} :
             pc'[w] = pc[w] /\ call'[w] = call[w] /\ (w \in warned => w \in warned')
    BY <2>1 DEF Forget, Calls
  <2>3. Tells(t)'
    BY <2>2, SilentTells
  <2> QED
    BY <1>0, <2>2, <2>3, MoveTells
<1>3. CASE PictureKnown(t) \/ PictureNew(t) \/ PictureRegister(t) \/ PictureRoom(t)
           \/ PictureDecode(t) \/ PictureComplete(t)
  <2>1. /\ call[t] \in PictureCall /\ call' = call /\ warned \subseteq warned'
        /\ \E place \in {"left", "picture wait", "picture register", "permit", "picture decode",
                         "picture release", "picture notify"} : Goto(t, place)
    BY <1>3, Callers DEF PictureKnown, PictureNew, PictureRegister, PictureRoom, PictureDecode,
       PictureComplete, Warn, PicturePlaces, Shared
  <2>2. Tells(t)'
    BY <2>1, OtherCallTells
  <2> QED
    BY <1>0, <2>1, <2>2, GotoTells
<1>4. CASE PictureRelease(t)
  <2>1. /\ pc[t] = "picture release" /\ PermitsBack(t, "picture complete") /\ call' = call
        /\ warned' = warned
    BY <1>4 DEF PictureRelease
  <2>2. pc'[t] = "picture complete" => Tells(t)'
    BY SilentTells
  <2> QED
    BY <1>0, <2>1, <2>2, BackTells
<1>5. CASE PictureNotify(t)
  <2>1. /\ call' = call /\ warned' = warned
        /\ \A w \in Threads :
             pc'[w] = pc[w] \/ (pc[w] \in {"picture notify", "picture wait"} /\ pc'[w] = "left")
    BY <1>5 DEF PictureNotify
  <2>2. ASSUME NEW w \in Threads
        PROVE  Tells(w)'
    <3>1. CASE pc'[w] = pc[w]
      BY <1>0, <2>1, <3>1, StillTells
    <3>2. CASE pc[w] \in {"picture notify", "picture wait"}
      <4>1. call[w] \in PictureCall
        BY <3>2, Callers DEF PicturePlaces, Shared
      <4> QED
        BY <2>1, <4>1, OtherCallTells
    <3> QED
      BY <2>1, <3>1, <3>2
  <2>3. CachedIsKept'
    BY <1>0 DEF Told, CachedIsKept
  <2> QED
    BY <2>2, <2>3 DEF Told
<1> QED
  BY <1>1, <1>2, <1>3, <1>4, <1>5 DEF PictureStep

LEMMA ToldStep == Calls /\ FlightInv /\ AccInv /\ Told /\ [PNext]_allVars => Told'
<1> SUFFICES ASSUME Calls, FlightInv, AccInv, Told, [PNext]_allVars
             PROVE  Told'
  OBVIOUS
<1>1. ASSUME NEW t \in Threads, NEW s \in Sets, NEW u \in Urls, Url(t, s, u)
      PROVE  Told'
  <2> DEFINE request == [set |-> s, for |-> "background", asker |-> s, url |-> u,
                         tried |-> FALSE]
  <2>1. Call(t, "url", "lock", request) /\ ~request.tried
    BY <1>1 DEF Url
  <2> HIDE DEF request
  <2> QED
    BY <2>1, CallTells
<1>2. ASSUME NEW t \in Threads, NEW s \in Sets, NEW p \in Pictures, Data(t, s, p)
      PROVE  Told'
  <2> DEFINE request == [set |-> s, for |-> "picture", asker |-> s, picture |-> p]
  <2>1. request \notin BackgroundCall
    <3>1. request.for = "picture"
      OBVIOUS
    <3> HIDE DEF request
    <3> QED
      BY <3>1, CallFields
  <2>2. Call(t, "data", "picture", request)
    BY <1>2 DEF Data
  <2> HIDE DEF request
  <2> QED
    BY <2>1, <2>2, CallTells
<1>3. CASE UNCHANGED allVars \/ \E s \in Sets : DropPictures(s)
  <2>1. UNCHANGED <<pc, call, warned, inflight, entries>>
    BY <1>3 DEF allVars, vars, DropPictures, threadVars, flightVars, keptVars
  <2>2. Grows
    BY <2>1, NoChangeGrows
  <2>3. \A t \in Threads : Tells(t)'
    BY <2>1, <2>2, StillTells
  <2>4. CachedIsKept'
    BY <2>1 DEF Told, CachedIsKept
  <2> QED
    BY <2>3, <2>4 DEF Told
<1> QED
  BY <1>1, <1>2, <1>3, NextTells, PictureStepTells DEF PNext

LEMMA ToldInit == PInit => Told
<1> SUFFICES ASSUME PInit
             PROVE  Told
  OBVIOUS
<1>1. /\ \A t \in Threads : pc[t] = "idle"
      /\ \A s \in Sets, u \in Urls : inflight[s][u] = None
      /\ None # "cached"
  BY ImagesAssumption DEF PInit, Init, ImagesAssumption
<1> QED
  BY <1>1 DEF Told, Tells, CachedIsKept

LEMMA ToldImplies == Calls /\ Told => SkippedIsExplained
<1> SUFFICES ASSUME Calls, Told, NEW t \in Threads,
                    pc[t] = "left", call[t].for = "background", call[t].tried
             PROVE  t \in warned \/ entries[call[t].set][call[t].url] # None
  BY DEF SkippedIsExplained
<1>1. Tells(t) /\ Belongs(call[t], pc[t])
  BY DEF Told, Calls
<1>2. call[t] \in BackgroundCall
  BY <1>1, CallFields DEF Belongs
<1> QED
  BY <1>1, <1>2 DEF Tells, Explained

\* For every number of threads, sets and URLs: a call that made a request for an
\* image, or joined one, left the image in the set's cache or has a warning that
\* says why not (resources.rs fetch_background_image, BackgroundInflight::finish).
THEOREM SkippedAlwaysExplained == PSpec => []SkippedIsExplained
BY FlightInit, FlightStep, CallsInit, CallsStep, PicturesInit, PicturesStep, AccountsInit,
   AccountsStep, ToldInit, ToldStep, ToldImplies, PTL DEF PSpec
=============================================================================
