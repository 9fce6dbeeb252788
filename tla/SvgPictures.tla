----------------------------- MODULE SvgPictures -----------------------------
(***************************************************************************)
(* The <image> pictures of SVG documents (RenderSvgImages in svg_images.rs *)
(* and pending.rs), one source per resource set, on top of the set's       *)
(* background images.  A URL is requested with the source's State locked;  *)
(* a data: picture is decoded by one owner per key, whose permit goes back *)
(* before it locks State again.                                            *)
(***************************************************************************)
EXTENDS BackgroundImages

CONSTANTS
  Pictures,     \* the distinct data: pictures
  KeyBytes,     \* the bytes a memo entry is charged for its key and metadata
  PictureBytes  \* the bytes a decoded picture may have

\* A memo entry: the thread whose flight is pending, if any, and the pixels.
Entry == [owner : Threads \cup {None}, pixels : Nat]

\* What a thread is called for: a data: picture of a set's documents.
PictureCall == [set : Sets, for : {"picture"}, asker : Sets, picture : Pictures]

ASSUME PicturesAssumption ==
  /\ IsFiniteSet(Pictures)
  /\ KeyBytes \in Nat \ {0} /\ PictureBytes \subseteq Nat \ {0}
  /\ None \notin Threads \cup Entry \cup PictureCall

VARIABLES
  locked,  \* the thread that holds State for a URL request, by source
  memo,    \* State.data: what is kept of each picture, by source
  leased   \* the bytes of the pixel lease the owner of a flight has in hand

pictureVars == <<locked, memo, leased>>
allVars == <<vars, pictureVars>>

PInit ==
  /\ Init
  /\ locked = [s \in Sets |-> None]
  /\ memo = [s \in Sets |-> [p \in Pictures |-> None]]
  /\ leased = [t \in Threads |-> 0]

-----------------------------------------------------------------------------
\* SvgImageSource::url: State is held while the set preloads the URL.
Url(t, s, u) ==
  /\ Call(t, "url", "lock", [set |-> s, for |-> "background", asker |-> s, url |-> u, tried |-> FALSE])
  /\ UNCHANGED pictureVars

LockState(t) ==
  LET s == call[t].set IN
  /\ pc[t] = "lock" /\ locked[s] = None
  /\ locked' = [locked EXCEPT ![s] = t]
  /\ Goto(t, "ask")
  /\ UNCHANGED <<call, warned, aborted, room, askerVars, flightVars, keptVars, inline, budget,
                 retained, permits, calls, memo, leased>>

ReturnUrl(t) ==
  LET s == call[t].set IN
  /\ pc[t] \in {"left", "panicked"} /\ call[t].asker = s
  /\ locked' = [locked EXCEPT ![s] = IF locked[s] = t THEN None ELSE @]
  /\ Forget(t)
  /\ UNCHANGED <<room, askerVars, flightVars, keptVars, inline, budget, retained, permits, calls,
                 memo, leased>>

-----------------------------------------------------------------------------
\* SvgImageSource::data: data_with.
Data(t, s, p) ==
  /\ Call(t, "data", "picture", [set |-> s, for |-> "picture", asker |-> s, picture |-> p])
  /\ UNCHANGED pictureVars

Known(t) == memo[call[t].set][call[t].picture]

\* The picture is known: it is there, or its owner is still at it.
PictureKnown(t) ==
  /\ pc[t] \in {"picture", "picture register"}
  /\ locked[call[t].set] = None
  /\ Known(t) # None
  /\ Goto(t, IF Known(t).owner = None THEN "left" ELSE "picture wait")
  /\ UNCHANGED <<call, warned, aborted, room, askerVars, flightVars, keptVars, inline, budget,
                 retained, permits, calls, pictureVars>>

\* The request limit, then, with nothing locked, the abort signal and the
\* policy's checks.
PictureNew(t) ==
  LET s == call[t].set IN
  /\ pc[t] = "picture" /\ locked[s] = None /\ Known(t) = None
  /\ IF attempts[s] > MaxAttempts
       THEN Goto(t, "left") /\ UNCHANGED <<warned, attempts>>
       ELSE /\ attempts' = [attempts EXCEPT ![s] = @ + 1]
            /\ \/ attempts[s] = MaxAttempts /\ Warn(t) /\ Goto(t, "left")
               \/ attempts[s] < MaxAttempts /\ t \in aborted /\ Goto(t, "left")
                    /\ UNCHANGED warned
               \/ attempts[s] < MaxAttempts /\ t \notin aborted
                    /\ \/ Warn(t) /\ Goto(t, "left")
                       \/ Goto(t, "picture register") /\ UNCHANGED warned
  /\ UNCHANGED <<call, aborted, room, seen, flightVars, keptVars, inline, budget, retained,
                 permits, calls, pictureVars>>

\* inline_remaining and inline_image_remaining: nothing is given back for it.
InlineRoom(s) == Monus(SetLimit, decoded[s] + sceneBytes[s] + inline[s])

Leasable(s, bytes) == bytes <= InlineRoom(s) /\ retained + bytes <= ProcessLimit

\* Mutant of Unknown: the key is not looked up again after the policy's checks.
NotLookedUpAgain(t) == TRUE

\* Another thread may have registered the key while the policy was asked.
Unknown(t) == Known(t) = None

\* The key is leased and charged under State; a charge that fails gives the
\* lease back, which is no change.
PictureRegister(t) ==
  LET s == call[t].set  p == call[t].picture IN
  /\ pc[t] = "picture register" /\ locked[s] = None /\ Unknown(t)
  /\ \/ Warn(t) /\ Goto(t, "left") /\ UNCHANGED <<memo, inline, budget, retained>>
     \/ /\ Leasable(s, KeyBytes)
        /\ memo' = [memo EXCEPT ![s][p] = [owner |-> t, pixels |-> 0]]
        /\ inline' = [inline EXCEPT ![s] = @ + KeyBytes]
        /\ budget' = [budget EXCEPT ![s].pictures = @ + 1]
        /\ retained' = retained + KeyBytes
        /\ Goto(t, "permit")
        /\ UNCHANGED warned
  /\ UNCHANGED <<call, aborted, room, askerVars, flightVars, keptVars, permits, calls,
                 locked, leased>>

PictureRoom(t) ==
  /\ pc[t] = "picture room"
  /\ room' = [room EXCEPT ![t] = Lesser(InlineRoom(call[t].set), ProcessRoom(0))]
  /\ Goto(t, "picture decode")
  /\ UNCHANGED <<call, warned, aborted, askerVars, flightVars, keptVars, inline, budget,
                 retained, permits, calls, pictureVars>>

\* The decode fails or panics, or its pixels are leased while the permit is
\* still held: reserve_data_pixels.
PictureDecode(t) ==
  LET s == call[t].set IN
  /\ pc[t] = "picture decode"
  /\ \/ UNCHANGED <<warned, inline, retained, leased>>
     \/ Warn(t) /\ UNCHANGED <<inline, retained, leased>>
     \/ \E bytes \in PictureBytes :
          /\ bytes <= room[t]
          /\ Leasable(s, bytes)
          /\ inline' = [inline EXCEPT ![s] = @ + bytes]
          /\ retained' = retained + bytes
          /\ leased' = [leased EXCEPT ![t] = bytes]
          /\ UNCHANGED warned
  /\ room' = [room EXCEPT ![t] = 0]
  /\ Goto(t, "picture release")
  /\ UNCHANGED <<call, aborted, askerVars, flightVars, keptVars, budget, permits, calls,
                 locked, memo>>

\* Mutant of PictureRelease: the permit goes back once State was locked.
PictureReleaseUnderState(t) ==
  /\ pc[t] = "picture release" /\ locked[call[t].set] = None
  /\ PermitsBack(t, "picture complete")
  /\ UNCHANGED <<call, warned, aborted, room, askerVars, flightVars, keptVars, inline, budget,
                 retained, calls, pictureVars>>

\* PendingData::finish drops the permit first; an unwind drops it first too.
PictureRelease(t) ==
  /\ pc[t] = "picture release"
  /\ PermitsBack(t, "picture complete")
  /\ UNCHANGED <<call, warned, aborted, room, askerVars, flightVars, keptVars, inline, budget,
                 retained, calls, pictureVars>>

\* complete_data, by finish or by the guard's drop.
PictureComplete(t) ==
  LET s == call[t].set  p == call[t].picture IN
  /\ pc[t] = "picture complete" /\ locked[s] = None
  /\ memo' = [memo EXCEPT ![s][p] = [owner |-> None, pixels |-> leased[t]]]
  /\ leased' = [leased EXCEPT ![t] = 0]
  /\ Goto(t, "picture notify")
  /\ UNCHANGED <<call, warned, aborted, room, askerVars, flightVars, keptVars, inline, budget,
                 retained, permits, calls, locked>>

\* DataFlight::complete answers the threads that wait.
PictureNotify(t) ==
  LET joined == {w \in Threads : pc[w] = "picture wait" /\ call[w].set = call[t].set
                                   /\ call[w].picture = call[t].picture} IN
  /\ pc[t] = "picture notify"
  /\ pc' = [w \in Threads |-> IF w = t \/ w \in joined THEN "left" ELSE pc[w]]
  /\ UNCHANGED <<call, warned, aborted, room, askerVars, flightVars, keptVars, inline, budget,
                 retained, permits, calls, pictureVars>>

-----------------------------------------------------------------------------
Leases(s) ==
  Sum([p \in Pictures |-> IF memo[s][p] = None THEN 0 ELSE KeyBytes + memo[s][p].pixels])

\* The source is dropped with its memo, and a new one starts.
DropPictures(s) ==
  /\ CallsLeft
  /\ \A t \in Threads : pc[t] # "idle" => call[t].asker # s
  /\ seen[s] # {} \/ attempts[s] > 0
  /\ seen' = [seen EXCEPT ![s] = {}]
  /\ attempts' = [attempts EXCEPT ![s] = 0]
  /\ memo' = [memo EXCEPT ![s] = [p \in Pictures |-> None]]
  /\ inline' = [inline EXCEPT ![s] = @ - Leases(s)]
  /\ budget' = [budget EXCEPT ![s].pictures = 0]
  /\ retained' = retained - Leases(s)
  /\ UNCHANGED <<threadVars, flightVars, keptVars, permits, calls, locked, leased>>

PictureStep(t) ==
  \/ LockState(t) \/ ReturnUrl(t)
  \/ PictureKnown(t) \/ PictureNew(t) \/ PictureRegister(t)
  \/ PictureRoom(t) \/ PictureDecode(t) \/ PictureRelease(t) \/ PictureComplete(t)
  \/ PictureNotify(t)

PNext ==
  \/ Next /\ UNCHANGED pictureVars
  \/ \E t \in Threads :
       \/ \E s \in Sets, u \in Urls : Url(t, s, u)
       \/ \E s \in Sets, p \in Pictures : Data(t, s, p)
       \/ PictureStep(t)
  \/ \E s \in Sets : DropPictures(s)

PSpec == PInit /\ [][PNext]_allVars

\* Threads keep running, and providers and decoders end.
PFairSpec ==
  PSpec /\ \A t \in Threads :
             WF_allVars((Step(t) /\ UNCHANGED pictureVars) \/ PictureStep(t))
-----------------------------------------------------------------------------
PTypeOK ==
  /\ TypeOK
  /\ locked \in [Sets -> Threads \cup {None}]
  /\ memo \in [Sets -> [Pictures -> Entry \cup {None}]]
  /\ leased \in [Threads -> Nat]

Working(t, s, p) ==
  /\ call[t] # None /\ call[t].for = "picture" /\ call[t].set = s /\ call[t].picture = p
  /\ pc[t] \in {"permit", "asleep", "picture room", "picture decode", "picture release",
                "picture complete"}

\* Every key is charged to the page once, when it is first registered, and one
\* thread at a time works on it: its owner.
PictureChargedOnce ==
  \A s \in Sets :
    /\ budget[s].pictures = Cardinality({p \in Pictures : memo[s][p] # None})
    /\ \A p \in Pictures, t \in Threads :
         Working(t, s, p) <=> memo[s][p] # None /\ memo[s][p].owner = t

\* Every counter says what is kept, of each set and of the process over all
\* sets, and none is over its limit, however decodes of two sets interleave
\* between reading the room and reserving (image_cache.rs, inline.rs).  The
\* inline bytes are those of the leases alive: in memos and in owners' hands.
AccountsAgree ==
  /\ PTypeOK
  /\ CountersAgree
  /\ \A s \in Sets :
       inline[s] = Leases(s)
         + Sum([t \in {w \in Threads : call[w] # None /\ call[w].set = s} |-> leased[t]])

\* The thread waits for a flight whose owner panicked, or for the State that
\* such a thread holds.
Orphaned(t) == pc[t] = "wait" /\ call[t].url \in orphaned[call[t].set]

HeldUp(t) ==
  \/ Orphaned(t)
  \/ /\ pc[t] \in {"lock", "picture", "picture register", "picture complete", "picture wait"}
     /\ locked[call[t].set] # None /\ Orphaned(locked[call[t].set])

\* Every call returns: no circle of waits goes through a permit, a flight and
\* the State of a source of pictures.  A panic takes no permit and no lock with
\* it, and holds up only the calls of that set for that URL, and the pictures
\* of a source that asks for it.
EveryCallReturns ==
  \A t \in Threads : pc[t] # "idle" ~> pc[t] = "idle" \/ HeldUp(t)
=============================================================================
