------------------------------- MODULE Unwind -------------------------------
(* How one actor leaves its `trap` blocks and runs their `ensure`s: by the *)
(* end of a body, by a raise (in the frame, or through frames), by a tail  *)
(* call that keeps the ensures of the replaced frame as cleanup records,   *)
(* and by an exit signal, which unwinds the frames past every trap.  The   *)
(* code an actor runs is any sequence of these operations the compiler     *)
(* emits; values are left out, an ensure is the number of its registration.*)
EXTENDS Naturals, Sequences, SequencesExt, FiniteSetsExt

CONSTANTS MaxFrames,        \* frames on the stack at a time
          MaxHandlers,      \* open traps in a frame
          MaxEns,           \* ensures registered in a run
          Raises            \* may the code raise?

ASSUME UnwindBounds == /\ MaxFrames \in Nat \ {0} /\ MaxHandlers \in Nat
                       /\ MaxEns \in Nat /\ Raises \in BOOLEAN

VARIABLES frames,           \* the stack of frames, the running one last
          sig,              \* the exit signal (exitSig), ~on when none came
          alive,
          count, begun,     \* ensures registered; the last one started
          late              \* ensures started after the exit signal came

vars == <<frames, sig, alive, count, begun, late>>

\* trapHandler.  left: the ensures the block still has to start once this
\* handler is gone, the next one last; running: the ensure it guards, or 0 for
\* a body.
Trap   == [ensure |-> FALSE, left |-> <<>>, running |-> 0]
Guard(left, running) == [ensure |-> TRUE, left |-> left, running |-> running]

\* Frame.  mode "code" runs bytecode; "drain" starts the cleanups one by one,
\* "exit" does so for the exit unwind, "done" has no more.  running: the
\* cleanup whose closure runs in the frame above.
Frame == [handlers |-> <<>>, cleanups |-> <<>>, mode |-> "code", running |-> 0]

NoSig == [on |-> FALSE, kill |-> FALSE, unwinding |-> FALSE,
          ensFrame |-> 1, ensHandlers |-> 0]

Ids == 1 .. MaxEns
Lists == UNION {[1 .. n -> Ids] : n \in 0 .. MaxEns}
Handlers == [ensure : BOOLEAN, left : Lists, running : Ids \cup {0}]

TypeOK ==
    /\ Len(frames) <= MaxFrames
    /\ \A k \in DOMAIN frames :
          /\ frames[k].handlers \in Seq(Handlers)
          /\ Len(frames[k].handlers) <= MaxHandlers
          /\ frames[k].cleanups \in Lists
          /\ frames[k].mode \in {"code", "drain", "exit", "done"}
          /\ frames[k].running \in Ids \cup {0}
    /\ sig \in [on : BOOLEAN, kill : BOOLEAN, unwinding : BOOLEAN,
                ensFrame : 1 .. MaxFrames, ensHandlers : 0 .. MaxHandlers]
    /\ alive \in BOOLEAN
    /\ count \in 0 .. MaxEns /\ begun \in 0 .. MaxEns /\ late \subseteq Ids

Init == /\ frames = <<Frame>> /\ sig = NoSig /\ alive = TRUE
        /\ count = 0 /\ begun = 0 /\ late = {}

-----------------------------------------------------------------------------
(* Reading the stack. *)

Top == frames[Len(frames)]
Below == Front(frames)
SetTop(f) == frames' = [frames EXCEPT ![Len(frames)] = f]

\* exitPending: the signal came, and its unwind waits to (re)start.
ExitPending == sig.on /\ ~sig.unwinding

\* The slice looks at the signal before every reduction.
Runs(mode) == alive /\ ~ExitPending /\ Top.mode = mode

\* The owner of `ensure` number i starts it.
Begin(i) == begun' = i /\ late' = IF sig.on THEN late \cup {i} ELSE late
NothingBegins == UNCHANGED <<begun, late>>

\* ENSEND in frame k with h handlers left closes the block the unwind entered.
AtEnsureEnd(k, h) == sig.unwinding /\ sig.ensFrame = k /\ sig.ensHandlers = h

\* Frame f goes on to the next ensure of a block, if one is left.
NextEnsure(f, left) ==
    IF left = <<>> THEN f
    ELSE [f EXCEPT !.handlers = Append(@, Guard(Front(left), Last(left)))]

\* Control goes past handler j of frame k and drops what is above: a trap ends,
\* an ensure block starts its next ensure, or reaches its ENSEND.
Land(k, j) ==
    LET h == frames[k].handlers[j]
        f == [frames[k] EXCEPT !.handlers = SubSeq(@, 1, j - 1)]
    IN  /\ frames' = Append(SubSeq(frames, 1, k - 1), NextEnsure(f, h.left))
        /\ IF h.left = <<>> THEN NothingBegins ELSE Begin(Last(h.left))
        /\ sig' = [sig EXCEPT !.unwinding =
                      @ /\ ~(h.ensure /\ h.left = <<>> /\ AtEnsureEnd(k, j - 1))]

-----------------------------------------------------------------------------
(* Opcodes. *)

\* TRAPBEGIN.
TrapBegin ==
    /\ Runs("code") /\ Len(Top.handlers) < MaxHandlers
    /\ SetTop([Top EXCEPT !.handlers = Append(@, Trap)])
    /\ UNCHANGED <<sig, alive, count, begun, late>>

\* TRAPENSURE of a body.
TrapEnsure ==
    /\ Runs("code") /\ Len(Top.handlers) < MaxHandlers
    /\ SetTop([Top EXCEPT !.handlers = Append(@, Guard(<<>>, 0))])
    /\ UNCHANGED <<sig, alive, count, begun, late>>

\* The body passes the text of an `ensure`: its registration flag is set.
Register ==
    /\ Runs("code") /\ count < MaxEns
    /\ Top.handlers # <<>> /\ Last(Top.handlers).ensure
    /\ Last(Top.handlers).running = 0
    /\ count' = count + 1
    /\ LET n == Len(Top.handlers)
       IN  SetTop([Top EXCEPT !.handlers[n].left = Append(@, count')])
    /\ UNCHANGED <<sig, alive, begun, late>>

\* TRAPEND of a trap, of a body or of an ensure, and ENSEND after the last one.
TrapEnd ==
    /\ Runs("code") /\ Top.handlers # <<>>
    /\ Land(Len(frames), Len(Top.handlers))
    /\ UNCHANGED <<alive, count>>

\* CALL.
Call ==
    /\ Runs("code") /\ Len(frames) < MaxFrames
    /\ frames' = Append(frames, Frame)
    /\ UNCHANGED <<sig, alive, count, begun, late>>

\* TAILCALLENS: the body of the frame's only trap ends in a call; the ensures
\* become cleanups of the frame, which now runs the callee.  (The bound leaves
\* a frame for the closures the drain will call.)
TailCallEns ==
    /\ Runs("code") /\ Len(Top.handlers) = 1 /\ Len(frames) < MaxFrames
    /\ LET h == Last(Top.handlers)
       IN  /\ h.ensure /\ h.running = 0 /\ h.left # <<>>
           /\ SetTop([Top EXCEPT !.handlers = <<>>, !.cleanups = @ \o h.left])
    /\ UNCHANGED <<sig, alive, count, begun, late>>

\* The stack without its running frame: the cleanup it ran for is over.
Popped == [k \in DOMAIN Below |->
             IF k = Len(Below) THEN [Below[k] EXCEPT !.running = 0] ELSE Below[k]]

\* RETURN: a frame with cleanups drains them first.
Return ==
    /\ Runs("code") /\ Top.handlers = <<>>
    /\ \/ /\ Top.cleanups # <<>>
          /\ SetTop([Top EXCEPT !.mode = "drain"])
          /\ UNCHANGED alive
       \/ /\ Top.cleanups = <<>>
          /\ frames' = Popped
          /\ alive' = (Below # <<>>)
    /\ UNCHANGED <<sig, count, begun, late>>

\* A raise below the running frame stops at a frame with a handler, a drain or
\* cleanups (tryUnwindRaise).
Catches(f) == f.handlers # <<>> \/ f.mode # "code" \/ f.cleanups # <<>>
Catchers == {k \in DOMAIN Below : Catches(frames[k])}

\* catchCleanups: a drain takes the error of its closure and goes on.
CatchCleanups(k) ==
    /\ frames' = Append(SubSeq(frames, 1, k - 1),
                        [frames[k] EXCEPT !.mode = IF @ = "code" THEN "drain" ELSE @,
                                          !.running = 0])
    /\ NothingBegins /\ UNCHANGED sig

\* The raise leaves the running frame.
RaiseOut ==
    \/ /\ sig.on                                \* the unwind goes on from here
       /\ sig' = [sig EXCEPT !.unwinding = FALSE]
       /\ NothingBegins /\ UNCHANGED <<frames, alive>>
    \/ /\ ~sig.on /\ Top.cleanups # <<>>
       /\ SetTop([Top EXCEPT !.mode = "drain"])
       /\ NothingBegins /\ UNCHANGED <<sig, alive>>
    \/ /\ ~sig.on /\ Top.cleanups = <<>> /\ Catchers # {}
       /\ LET k == Max(Catchers)
          IN  IF frames[k].handlers # <<>>
              THEN Land(k, Len(frames[k].handlers))
              ELSE CatchCleanups(k)
       /\ UNCHANGED alive
    \/ /\ ~sig.on /\ Top.cleanups = <<>> /\ Catchers = {}
       /\ frames' = <<>> /\ alive' = FALSE
       /\ NothingBegins /\ UNCHANGED sig

\* RAISE, and every opcode that fails: the frame's own handler comes first.
Raise ==
    /\ Raises /\ Runs("code")
    /\ \/ /\ Top.handlers # <<>>
          /\ Land(Len(frames), Len(Top.handlers))
          /\ UNCHANGED alive
       \/ Top.handlers = <<>> /\ RaiseOut
    /\ UNCHANGED count

-----------------------------------------------------------------------------
(* drainRun.resume: the drain frame is on top of the stack. *)

\* The next closure runs in a frame of its own.
DrainNext ==
    /\ Runs("drain") \/ Runs("exit")
    /\ Top.cleanups # <<>>
    /\ frames' = Append(Append(Below,
                    [Top EXCEPT !.cleanups = Front(@), !.running = Last(Top.cleanups)]),
                    Frame)
    /\ Begin(Last(Top.cleanups))
    /\ UNCHANGED <<sig, alive, count>>

\* All are run: the frame returns, or the exit unwind goes on.
DrainEnd ==
    /\ Top.cleanups = <<>>
    /\ \/ /\ Runs("drain")
          /\ frames' = Popped /\ alive' = (Below # <<>>)
          /\ UNCHANGED sig
       \/ /\ Runs("exit")
          /\ SetTop([Top EXCEPT !.mode = "done"])
          /\ sig' = [sig EXCEPT !.unwinding = FALSE]
          /\ UNCHANGED alive
    /\ UNCHANGED <<count, begun, late>>

Drain == alive /\ (DrainNext \/ DrainEnd)

-----------------------------------------------------------------------------
(* The exit signal. *)

\* signalExit, from another actor or by the actor itself: the first signal
\* counts, and a :kill over it.
Exit ==
    /\ alive
    /\ \E kill \in BOOLEAN :
          \/ ~sig.on /\ sig' = [NoSig EXCEPT !.on = TRUE, !.kill = kill]
          \/ /\ sig.on /\ kill /\ ~sig.kill
             /\ sig' = [sig EXCEPT !.kill = TRUE, !.unwinding = FALSE]
    /\ UNCHANGED <<frames, alive, count, begun, late>>

\* Handlers of frame f the unwind enters; the others it drops.
Entries(f) == {j \in DOMAIN f.handlers : f.handlers[j].ensure}

\* Mutants of Drains: cleanups are not looked at; a drain that is done is.
DrainsNot(f) == f.mode \in {"drain", "exit"}
DrainsDone(f) == f.cleanups # <<>> \/ f.mode # "code"

\* A frame with cleanups, or in the middle of a drain, is not dropped.
Drains(f) == f.cleanups # <<>> \/ f.mode \in {"drain", "exit"}
Stops == IF sig.kill THEN {}
         ELSE {k \in DOMAIN frames : Entries(frames[k]) # {} \/ Drains(frames[k])}

\* The unwind enters the block of handler j of frame k.
EnterEnsure(k, j) ==
    LET h == frames[k].handlers[j]
        f == [frames[k] EXCEPT !.handlers = SubSeq(@, 1, j - 1)]
    IN  /\ frames' = Append(SubSeq(frames, 1, k - 1), NextEnsure(f, h.left))
        /\ sig' = [sig EXCEPT !.unwinding = h.left # <<>>,
                              !.ensFrame = k, !.ensHandlers = j - 1]
        /\ IF h.left = <<>> THEN NothingBegins ELSE Begin(Last(h.left))

\* The unwind runs the cleanups of frame k.
EnterDrain(k) ==
    /\ frames' = Append(SubSeq(frames, 1, k - 1),
                        [frames[k] EXCEPT !.handlers = <<>>, !.mode = "exit",
                                          !.running = 0])
    /\ sig' = [sig EXCEPT !.unwinding = TRUE]
    /\ NothingBegins

\* exitStep: the frames above the next ensure block go; with none left the
\* actor dies with the signal's reason.
UnwindExit ==
    /\ alive /\ ExitPending
    /\ \/ /\ Stops # {}
          /\ LET k == Max(Stops)
             IN  IF Entries(frames[k]) # {}
                 THEN EnterEnsure(k, Max(Entries(frames[k])))
                 ELSE EnterDrain(k)
          /\ UNCHANGED alive
       \/ /\ Stops = {}
          /\ frames' = <<>> /\ alive' = FALSE
          /\ NothingBegins /\ UNCHANGED sig
    /\ UNCHANGED count

\* A dead actor takes no more steps.
Dead == ~alive /\ UNCHANGED vars

Open  == TrapBegin \/ TrapEnsure \/ Register \/ Call \/ TailCallEns
Close == TrapEnd \/ Return \/ Drain \/ UnwindExit

Next == Open \/ Close \/ Raise \/ Exit \/ Dead

Spec == Init /\ [][Next]_vars

\* The scheduler keeps running the actor.
FairSpec == Spec /\ WF_vars(Close)

-----------------------------------------------------------------------------
(* Properties. *)

\* Ensures whose code runs now.
Running == {f.running : f \in ToSet(frames)}
           \cup {h.running : h \in UNION {ToSet(f.handlers) : f \in ToSet(frames)}}

\* Ensures frame f registered and did not start: in its cleanups and its blocks.
OwedBy(f) == ToSet(f.cleanups) \cup UNION {ToSet(h.left) : h \in ToSet(f.handlers)}
Owed == UNION {OwedBy(f) : f \in ToSet(frames)}

Life == IF ~alive THEN "dead" ELSE IF sig.kill THEN "killed" ELSE "alive"

ES == INSTANCE EnsureStack WITH owed <- Owed, life <- Life

\* Once the signal came, the actor runs no code but that of ensures which
\* started after it: nothing of its body, nor of an ensure the exit cut short.
ExitRunsEnsures == Runs("code") /\ sig.on => Running \cap late # {}

\* However an actor leaves its blocks (their end, a raise from any depth, a
\* tail call that turned ensures into cleanups, a drain, an exit at any point
\* of these), every registered ensure starts exactly once, the newest first,
\* and before the actor stops; after :kill none does, and after any signal
\* nothing else runs (docs/01 12.7, 10.3).
EnsuresAreAStack == ES!Spec /\ []ExitRunsEnsures

\* A signal ends the actor, once its code opens no more traps and frames: the
\* unwind always finds its way out of ensures, drains and nested errors.
ExitEnds == <>[][~Open]_vars => (sig.on ~> ~alive)

\* Traps opened by the code of the innermost running ensure.
Inner == {k \in DOMAIN frames :
             frames[k].running # 0 \/ \E h \in ToSet(frames[k].handlers) : h.running # 0}
TrapsInside ==
    LET k == Max(Inner)
        own == {j \in DOMAIN frames[k].handlers :
                   \A i \in j .. Len(frames[k].handlers) :
                      frames[k].handlers[i].running = 0}
    IN  IF Inner = {} THEN {}
        ELSE {frames[k].handlers[j] : j \in own}
             \cup UNION {ToSet(frames[i].handlers) : i \in (k + 1) .. Len(frames)}

\* An ensure that the unwind runs may trap its own errors: only an error it
\* does not catch ends it early (the comment in runSlice, scheduler.go:1061).
TrapsHoldInEnsures ==
    [][Raise /\ sig.unwinding /\ TrapsInside # {} => sig'.unwinding]_vars

=============================================================================
