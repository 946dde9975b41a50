------------------------------- MODULE Session -------------------------------
(* vm/session.go: the scheduler of a REPL session.  One goroutine runs the   *)
(* loop; other goroutines submit inputs, interrupt them, ask for snapshots   *)
(* and close the session, through unbuffered channels, a one-place wake      *)
(* channel and two flags the loop polls between slices.                      *)
EXTENDS Naturals, Sequences, FiniteSets, SequencesExt

CONSTANTS Jobs,             \* inputs and Sync or Redefine portions, one caller each
          Nobody,           \* no job
          MaxInterrupts, MaxEvents    \* bounds

ASSUME SessionAssumption == Nobody \notin Jobs

VARIABLES lpc,              \* where the loop's goroutine is
          ready,            \* Scheduler.ready: the session actor S and one other, B
          sess, bg,         \* their Actor.status, "running" in its slice
          current, pending, \* the inputs taken from the channel
          interrupt, wake, stop, halt,
          inject,           \* an outside event waits in the inject queue
          kind, caller,     \* what each job is; submit of it, select by select
          done,             \* its result channel, one place
          snap,             \* Snapshot of another goroutine
          helper, stopErr,  \* the goroutine YieldUntil waits for, and why it was asked to end
          aimed,            \* history: inputs current when Interrupt was called
          poking, events

vars == <<lpc, ready, sess, bg, current, pending, interrupt, wake, stop, halt,
          inject, kind, caller, done, snap, helper, stopErr, aimed, poking, events>>
loopVars == <<lpc, ready, sess, bg, current, pending>>
helperVars == <<helper, stopErr>>
userVars == <<kind, stop, aimed, poking, events>>

\* ok: a value or the error of the input itself.
Results == {"ok", "interrupted", "closed", "halted"}

Init ==
    /\ lpc = "top" /\ ready = <<"B">> /\ sess = "blocked" /\ bg = "ready"
    /\ current = Nobody /\ pending = Nobody
    /\ interrupt = FALSE /\ wake = FALSE /\ stop = FALSE /\ halt = FALSE
    /\ inject = FALSE
    /\ kind \in [Jobs -> {"input", "sync"}]
    /\ caller = [j \in Jobs |-> "idle"] /\ done = [j \in Jobs |-> <<>>]
    /\ snap = "idle" /\ helper = "off" /\ stopErr = "none"
    /\ aimed = {} /\ poking = 0 /\ events = 0

\* ---- jobs ----

\* beginJob: a portion without an input is done at once; an input gets its frame.
Begin(j, cur, dn, rd) ==
    \/ /\ kind[j] = "sync"
       /\ current' = cur /\ done' = [dn EXCEPT ![j] = Append(@, "ok")]
       /\ ready' = rd /\ sess' = "blocked"
    \/ /\ kind[j] = "input"
       /\ current' = j /\ done' = dn
       /\ ready' = Append(rd, "S") /\ sess' = "ready"

\* Mutant: the pending input is begun without leaving `pending`.
CompleteKeepsPending(result, rd) ==
    LET dn == [done EXCEPT ![current] = Append(@, result)]
    IN  /\ interrupt' = FALSE
        /\ UNCHANGED pending
        /\ IF pending # Nobody THEN Begin(pending, Nobody, dn, rd)
           ELSE current' = Nobody /\ done' = dn /\ ready' = rd /\ sess' = "blocked"

\* completeJob, with the frames of the input dropped and its actor Blocked
\* (finishSessionJob, abortSession).
Complete(result, rd) ==
    LET dn == [done EXCEPT ![current] = Append(@, result)]
    IN  /\ interrupt' = FALSE
        /\ pending' = Nobody
        /\ IF pending # Nobody THEN Begin(pending, Nobody, dn, rd)
           ELSE current' = Nobody /\ done' = dn /\ ready' = rd /\ sess' = "blocked"

\* Mutant of NotReady: the entry of the dropped input stays.
StillReady(rd) == rd
\* unready: the entries of B are left.
NotReady(rd) == [n \in 1 .. Cardinality({i \in DOMAIN rd : rd[i] = "B"}) |-> "B"]

\* endSession: the pending input is set aside, so that the current one's
\* completion does not begin it.
EndSession(result) ==
    /\ lpc' = "ended"
    /\ done' = [j \in Jobs |-> IF j \in {current, pending}
                               THEN Append(done[j], result) ELSE done[j]]
    /\ interrupt' = IF current # Nobody THEN FALSE ELSE interrupt
    /\ sess' = IF current # Nobody THEN "blocked" ELSE sess
    /\ current' = Nobody /\ pending' = Nobody
    /\ UNCHANGED ready

\* ---- the loop ----

\* stopping, halt, consumeInterrupt.
Top ==
    /\ lpc = "top"
    /\ IF stop THEN EndSession("closed")
       ELSE IF halt THEN EndSession("halted")
       ELSE IF interrupt /\ current # Nobody
       THEN lpc' = "top" /\ Complete("interrupted", NotReady(ready))
       ELSE /\ lpc' = "poll" /\ interrupt' = FALSE
            /\ UNCHANGED <<ready, sess, current, pending, done>>
    /\ UNCHANGED <<bg, wake, halt, inject, caller, snap, helperVars, userVars>>

\* drainInject: the event goes to B, or to the session actor, and wakes it.
Drained ==
    IF ~inject THEN UNCHANGED <<bg, sess, inject, ready>>
    ELSE /\ inject' = FALSE
         /\ \/ /\ bg' = "ready" /\ UNCHANGED sess
               /\ ready' = IF bg = "blocked" THEN Append(ready, "B") ELSE ready
            \/ /\ sess = "blocked" /\ current # Nobody
               /\ sess' = "ready" /\ ready' = Append(ready, "S") /\ UNCHANGED bg

Sending == {j \in Jobs : caller[j] = "sending"}

\* takeJob.
Take(j) ==
    /\ caller' = [caller EXCEPT ![j] = "waiting"]
    /\ IF current # Nobody
       THEN pending' = j /\ UNCHANGED <<current, done, ready, sess>>
       ELSE /\ UNCHANGED pending
            /\ IF kind[j] = "sync"
               THEN done' = [done EXCEPT ![j] = Append(@, "ok")]
                    /\ UNCHANGED <<current, ready, sess>>
               ELSE current' = j /\ ready' = Append(ready, "S") /\ sess' = "ready"
                    /\ UNCHANGED done

Served == snap' = IF snap = "asking" THEN "idle" ELSE snap

Poll ==
    /\ lpc = "poll" /\ lpc' = "jobs"
    /\ Served /\ Drained
    /\ UNCHANGED <<current, pending, interrupt, wake, halt, caller, done, helperVars, userVars>>

\* pollJob, then the head of the queue or the wait.
PollJob ==
    /\ lpc = "jobs"
    /\ \/ pending = Nobody /\ \E j \in Sending : Take(j)
       \/ /\ pending # Nobody \/ Sending = {}
          /\ UNCHANGED <<ready, sess, current, pending, caller, done>>
    /\ lpc' = IF ready' = <<>> THEN "wait" ELSE "run"
    /\ UNCHANGED <<bg, interrupt, wake, halt, inject, snap, helperVars, userVars>>

\* waitSession(true) and, nested, waitSession(false) and waitYield: one ready
\* case of the select, at random.
Nest == [wait |-> "top", nestwait |-> "nest", yieldwait |-> "yield"]

Wait ==
    /\ lpc \in DOMAIN Nest
    /\ \/ /\ lpc = "wait" /\ pending = Nobody
          /\ \E j \in Sending : Take(j) /\ lpc' = "top"
          /\ UNCHANGED <<interrupt, wake, snap>>
       \/ /\ snap = "asking" /\ snap' = "idle" /\ lpc' = Nest[lpc]
          /\ UNCHANGED <<ready, sess, current, pending, interrupt, wake, caller, done>>
       \/ /\ wake /\ wake' = FALSE /\ lpc' = Nest[lpc]
          /\ UNCHANGED <<ready, sess, current, pending, interrupt, caller, done, snap>>
       \/ /\ inject \/ (lpc = "yieldwait" /\ helper = "done")
          /\ lpc' = Nest[lpc]
          /\ UNCHANGED <<ready, sess, current, pending, interrupt, wake, caller, done, snap>>
       \/ /\ stop /\ lpc = "wait" /\ EndSession("closed")
          /\ UNCHANGED <<wake, caller, snap>>
       \/ /\ stop /\ lpc # "wait" /\ lpc' = Nest[lpc]
          /\ UNCHANGED <<ready, sess, current, pending, interrupt, wake, caller, done, snap>>
    /\ UNCHANGED <<bg, halt, inject, helperVars, userVars>>

\* A slice of the other actor: mail to the session actor wakes it only while an
\* input waits (sessionIdle); Sys.halt stops the scheduler.
OtherSlice(rd, next) ==
    /\ lpc' = next
    /\ \E mail, again, halts \in BOOLEAN :
          /\ halt' = (halt \/ halts)
          /\ bg' = IF again THEN "ready" ELSE "blocked"
          /\ LET wakes == mail /\ sess = "blocked" /\ current # Nobody
             IN  /\ sess' = IF wakes THEN "ready" ELSE sess
                 /\ ready' = rd \o (IF wakes THEN <<"S">> ELSE <<>>)
                                \o (IF again THEN <<"B">> ELSE <<>>)

\* The head of the queue, with the interrupt looked at on the slice's border.
Run ==
    /\ lpc = "run"
    /\ \/ /\ Head(ready) = "B" /\ OtherSlice(Tail(ready), "top")
          /\ UNCHANGED <<current, pending, interrupt, done>>
       \/ /\ Head(ready) = "S" /\ interrupt /\ current # Nobody
          /\ lpc' = "top" /\ Complete("interrupted", Tail(ready))
          /\ UNCHANGED <<bg, halt>>
       \/ /\ Head(ready) = "S" /\ ~(interrupt /\ current # Nobody)
          /\ lpc' = "slice" /\ ready' = Tail(ready) /\ sess' = "running"
          /\ UNCHANGED <<bg, current, pending, interrupt, done, halt>>
    /\ UNCHANGED <<wake, inject, caller, snap, helperVars, userVars>>

\* The slice of the session actor: its reductions are over, it waits in recv,
\* the input ends or halts, or a native of a helper runs the loop inside it (at
\* most once in a slice: a bound).
Slice ==
    /\ lpc \in {"slice", "tail"}
    /\ \/ /\ lpc' = "top" /\ sess' = "ready" /\ ready' = Append(ready, "S")
          /\ UNCHANGED <<current, pending, interrupt, done, halt, helperVars>>
       \/ /\ lpc' = "top" /\ sess' = "blocked"
          /\ UNCHANGED <<ready, current, pending, interrupt, done, halt, helperVars>>
       \/ /\ lpc' = "top"
          /\ Complete("ok", ready)
          /\ UNCHANGED <<halt, helperVars>>
       \/ /\ lpc' = "top" /\ halt' = TRUE /\ sess' = "ready"
          /\ UNCHANGED <<ready, current, pending, interrupt, done, helperVars>>
       \/ /\ lpc = "slice" /\ lpc' = "nest" /\ sess' = "blocked"
          /\ UNCHANGED <<ready, current, pending, interrupt, done, halt, helperVars>>
       \/ /\ lpc = "slice" /\ lpc' = "yield" /\ helper' = "works" /\ stopErr' = "none"
          /\ UNCHANGED <<ready, sess, current, pending, interrupt, done, halt>>
    /\ UNCHANGED <<bg, wake, inject, caller, snap, userVars>>

\* awaitNested returns an error: of Sys.halt it stops the slice (halting), any
\* other ends the input.
NestFails ==
    /\ lpc' = "top"
    /\ \/ stop /\ Complete("closed", NotReady(ready))
       \/ ~stop /\ interrupt /\ Complete("interrupted", NotReady(ready))
       \/ ~stop /\ ~interrupt /\ UNCHANGED <<ready, sess, current, pending, interrupt, done>>

\* awaitNested: until the session actor is woken.
NestedAwait ==
    /\ lpc = "nest"
    /\ \/ /\ sess # "blocked"
          /\ lpc' = "tail" /\ sess' = "running" /\ ready' = NotReady(ready)
          /\ UNCHANGED <<bg, current, pending, interrupt, inject, done, snap>>
       \/ /\ sess = "blocked" /\ (stop \/ interrupt \/ halt)
          /\ NestFails
          /\ UNCHANGED <<bg, inject, snap>>
       \/ /\ sess = "blocked" /\ ~(stop \/ interrupt \/ halt)
          /\ Served /\ Drained
          /\ lpc' = IF ready' = <<>> THEN "nestwait" ELSE "nestrun"
          /\ UNCHANGED <<current, pending, interrupt, done>>
    /\ UNCHANGED <<wake, halt, caller, helperVars, userVars>>

\* Mutant: the other goroutine is not told of the interrupt.
AskedOnClose == IF stop \/ halt THEN "closed" ELSE "none"
\* requestStop: the first reason is kept and onStop is called once.
Asked == IF stop \/ halt THEN "closed" ELSE IF interrupt THEN "interrupted" ELSE "none"

\* YieldUntil: until the other goroutine lets the native return.  A closed
\* session only waits for it.
Yield ==
    /\ lpc = "yield"
    /\ \/ /\ helper = "done" /\ helper' = "off" /\ stopErr' = "none"
          /\ IF stopErr = "interrupted" \/ (stopErr = "none" /\ interrupt)
             THEN lpc' = "top" /\ Complete("interrupted", ready)
             ELSE lpc' = "tail" /\ UNCHANGED <<ready, sess, current, pending, interrupt, done>>
          /\ UNCHANGED <<bg, snap, inject>>
       \/ /\ helper = "works"
          /\ stopErr' = IF stopErr = "none" THEN Asked ELSE stopErr
          /\ IF stop \/ halt
             THEN stopErr = "none" /\ UNCHANGED <<lpc, ready, bg, sess, inject, snap>>
             ELSE /\ Served /\ Drained
                  /\ lpc' = IF ready' = <<>> THEN "yieldwait" ELSE "yieldrun"
          /\ UNCHANGED <<helper, current, pending, interrupt, done>>
    /\ UNCHANGED <<wake, halt, caller, userVars>>

\* A slice inside the native; a queued session actor is dropped.
InsideRun ==
    /\ \/ lpc = "nestrun" /\ OtherSlice(Tail(ready), "nest")
       \/ lpc = "yieldrun" /\ OtherSlice(Tail(ready), "yield")
    /\ Head(ready) = "B"
    /\ UNCHANGED <<current, pending, interrupt, wake, inject, caller, done, snap,
                   helperVars, userVars>>

\* The session actor woken by drainInject is not run by the loop it waits in.
InsideSkip ==
    /\ lpc = "nestrun" /\ Head(ready) = "S"
    /\ lpc' = "nest" /\ ready' = Tail(ready)
    /\ UNCHANGED <<sess, bg, current, pending, interrupt, wake, halt, inject, caller,
                   done, snap, helperVars, userVars>>

\* ---- the other goroutines ----

HelperEnds ==
    /\ helper \in {"works", "asked"} /\ helper' = "done"
    /\ UNCHANGED <<loopVars, interrupt, wake, halt, inject, caller, done, snap, stopErr,
                   userVars>>

Submit(j) ==
    /\ caller[j] = "idle"
    /\ caller' = [caller EXCEPT ![j] = "sending"]
    /\ UNCHANGED <<loopVars, interrupt, wake, halt, inject, done, snap, helperVars, userVars>>

\* The selects of submit end with the close, the end of the loop or the answer.
SubmitEnds(j) ==
    /\ \/ caller[j] \in {"sending", "waiting"} /\ (stop \/ lpc = "ended")
       \/ caller[j] = "waiting" /\ done[j] # <<>>
    /\ caller' = [caller EXCEPT ![j] = "over"]
    /\ UNCHANGED <<loopVars, interrupt, wake, halt, inject, done, snap, helperVars, userVars>>

\* Interrupt: the flag, then the poke.
Interrupt ==
    /\ \/ /\ poking < MaxInterrupts * 2 /\ poking % 2 = 0
          /\ interrupt' = TRUE /\ aimed' = aimed \cup ({current} \ {Nobody})
          /\ UNCHANGED wake
       \/ poking % 2 = 1 /\ wake' = TRUE /\ UNCHANGED <<interrupt, aimed>>
    /\ poking' = poking + 1
    /\ UNCHANGED <<loopVars, stop, halt, inject, kind, caller, done, snap, helperVars, events>>

CloseSession ==
    /\ ~stop /\ stop' = TRUE
    /\ UNCHANGED <<loopVars, interrupt, wake, halt, inject, kind, caller, done, snap, helperVars,
                   aimed, poking, events>>

\* Snapshot waits for the loop or for the close of the session.
Snapshot ==
    /\ \/ snap = "idle" /\ snap' = "asking"
       \/ snap = "asking" /\ stop /\ snap' = "idle"
    /\ UNCHANGED <<loopVars, interrupt, wake, halt, inject, caller, done, helperVars, userVars>>

OutsideEvent ==
    /\ ~inject /\ events < MaxEvents
    /\ inject' = TRUE /\ events' = events + 1
    /\ UNCHANGED <<loopVars, interrupt, wake, stop, halt, kind, caller, done, snap, helperVars,
                   aimed, poking>>

Rest == UNCHANGED vars

LoopStep == Top \/ Poll \/ PollJob \/ Wait \/ Run \/ Slice \/ NestedAwait \/ Yield
            \/ InsideRun \/ InsideSkip

Next == LoopStep \/ HelperEnds \/ Interrupt \/ CloseSession \/ Snapshot
        \/ OutsideEvent \/ Rest \/ (\E j \in Jobs : Submit(j) \/ SubmitEnds(j))

\* The loop's goroutine runs; the helper ends once asked; Interrupt pokes.
Fairness == /\ WF_vars(LoopStep)
            /\ WF_vars(stopErr # "none" /\ HelperEnds)
            /\ WF_vars(poking % 2 = 1 /\ Interrupt)

Spec == Init /\ [][Next]_vars /\ Fairness

-----------------------------------------------------------------------------
TypeOK ==
    /\ lpc \in {"top", "poll", "jobs", "wait", "run", "slice", "tail", "nest", "nestrun",
                "nestwait", "yield", "yieldrun", "yieldwait", "ended"}
    /\ current \in Jobs \cup {Nobody} /\ pending \in Jobs \cup {Nobody}
    /\ sess \in {"blocked", "ready", "running"} /\ bg \in {"blocked", "ready"}
    /\ \A j \in Jobs : done[j] \in Seq(Results)

\* An input gets one answer, whatever interrupts, errors, halts and closes meet
\* (a second send on the one-place channel would hang the loop), and the loop
\* does not end with a taken input unanswered.
OneResult ==
    \A j \in Jobs :
        /\ Len(done[j]) <= 1
        /\ lpc = "ended" /\ caller[j] = "waiting" => Len(done[j]) = 1

\* The session actor is queued once, and only with an input to run: a queue
\* entry left by an interrupted or nested input would run in the next one.
QueuedForItsInput ==
    LET n == Cardinality({i \in DOMAIN ready : ready[i] = "S"})
    IN  lpc # "ended" =>
          /\ n <= 1 /\ (n = 1 => sess = "ready" /\ current # Nobody)
          /\ sess = "ready" /\ lpc \notin {"slice", "tail", "nest"} /\ ~halt => n = 1

\* Interrupt stops the current input, in a computation, a recv, a nested call or
\* a long native.
InterruptLands ==
    \A j \in Jobs : (interrupt /\ current = j) ~> current # j

\* session.go:84: without a current input the flag is cleared and the next input
\* is not touched: an input is interrupted only by an Interrupt called while it
\* was current.
InterruptSparesNext ==
    \A j \in Jobs : (\E i \in DOMAIN done[j] : done[j][i] = "interrupted") => j \in aimed
=============================================================================
