# Brig: a verification project

TLA+ models, TLC runs and TLAPS proofs for the Brig language: its virtual
machine (`src/internal/vm`, with the command `src/cmd/brig`), the library in
Brig (`src/stdlib`), the compiler and the front end (`src/internal/lexer`,
`parser`, `ast`, `sema`, `loader`, `compiler`), the values (`runtime`) and the
code of a REPL session (`repl/modules.go`). Every definition is translated from
the Go or Brig code; `PROJECT.json` names the lines each one stands for.

Contents: 1 inventory, 2 modules, 3 runs, 4 bounds and fairness, 5 proofs,
6 findings and divergences, 7 what is not modelled, 8 plan.

## 1. Inventory

Brig is a functional language with actors. A program is read by a lexer that
knows about indentation and by a recursive descent parser, checked for names,
compiled to the bytecode of a register machine and run by one goroutine that
schedules the actors. Files, HTTP and signals live in goroutines of their own.

| part | code | state | operations | what is hard |
|---|---|---|---|---|
| actor scheduler | `vm/scheduler.go`, `exit.go`, `await.go`, `registry.go`, `budget.go` | actor table, ready queue, timer heap, names, watchers, links, reply slots, exit signals, turn budgets | the loop `runMain`, a slice of reductions `runSlice`, one opcode per actor primitive | wakeups from five sources, signals against `ensure`, death as one step over seven tables, fairness |
| frames, traps and ensures | `vm/exit.go`, `drain.go`, `scheduler.go`, `compiler/trap.go` | per frame: trap handlers, cleanup records, a drain; per actor: the place the exit unwind entered | trap and ensure opcodes, call, tail call with ensures, return, raise, exit unwind, drain | seven ways out of a block, one inside the other |
| timers | `vm/scheduler.go` | binary heap with the place of each entry kept in it, `sends` | arm, rearm, disarm, serve, `Timer.send_after` and `cancel` | entries leave from the middle of the heap; two kinds of timers in one order |
| ports and outside events | `vm/port.go`, `stream.go`, `cmd/brig/signal.go` | port table, list of ports of each actor, inject queue, request flag and write buffer per stream | open, request, write, give, close, `drainInject`, owner death, end of the program | goroutines of the resources against the loop, events of a port already closed or given away |
| file resource | `cmd/brig/file.go` | operations and state of one file | open, read, write, close | close against operations in flight, a failed file that must still answer |
| http server port | `vm/http.go`, `cmd/brig/http.go` | listener, waiting requests; per request: commands, disconnect, reply | accept, request, respond, write, close, abort | a goroutine per request and one per closing listener against the loop, drain time limit, clients that leave |
| observer session | `vm/session.go`, `introspect.go`, `global.go` | session actor, current and pending input, interrupt flag | `StartSession`, `Submit`, `Interrupt`, `Snapshot`, `CloseSession`, nested calls | four goroutines, an actor outside the ready queue, interrupts between two slices |
| code of a session | `repl/modules.go`, `project.go` | loaded modules with the sums of their files, roots, generation, globals of the VM | load, recompile, import, alias | functions swapped under frames of older texts, an editor that writes between two steps of a call |
| telemetry | `vm/telemetry.go` | subscriptions, delivery frames, queue of the events of the dead | attach, detach, emit, deliver | handlers that attach, detach, raise, send and die during a delivery |
| supervisor, server | `stdlib/supervisor.brig`, `server.brig` | children, restart log | start, restart by strategy, stop with deadline; call with timeout | late downs, deadline against `:down`, restart intensity |
| bytecode machine | `vm/vm.go`, `chunk.go`, `pattern.go`, `verify.go`, `scheduler.go` (`execFrame`) | frames of registers | the instructions; the verifier of chunks | what is written on every path; windows of calls; patterns that match in part |
| compiler | `internal/compiler` | registers, scopes, captures, lifted functions, jumps to patch | every production to code | captures through levels, local functions that see each other, loops and tails, registers reused |
| front end | `lexer`, `parser`, `ast`, `sema` | token list, stack of indents and brackets; scopes | text to tokens to tree to text; analysis of names | layout inside brackets, where a block and a statement end, rules written twice |
| module loader | `internal/loader` | graph under construction | `LoadFrom`, `resolve`, `add` | cycles, two files of one name, one file under two names |
| runtime values | `internal/runtime` | immutable | hash table, vector, equality, hash, order, arithmetic | equality, hash and order must agree; structure shared by versions; overflow |
| native prelude | `vm/prelude*.go` | none | natives on values | sequential |
| program driver, repl, views, tools | `cmd/brig`, `internal/repl`, `observe`, `corpus`, ... | terminal | command line, line editing, formatting | input and output only |

How they interact. One goroutine runs the loop: it takes the head of the ready
queue, executes at most a slice of reductions, and starts over; only when the
queue is empty does it wait for a timer or an outside event. Actors act on each
other only through scheduler operations (send, reply, exit, watch, link), each
of which completes inside one opcode. Resources run in goroutines of their own
and reach the loop through one queue under a mutex (`injectQueue`); the loop
sends them commands that never wait. The session takes over the loop between
two slices; a swap of functions (`Redefine`) is one of its jobs. A drain runs
inside a slice, as a frame of the actor; so does the delivery of a telemetry
event. Between compiler and machine stands the verifier: every chunk is checked
before it may run.

What makes each part correct:

* scheduler: the queue holds each runnable actor once; nobody sleeps over mail,
  an answer, a timeout or a signal; the dead leave nothing behind; every watch
  is answered once, with the reason of the death; the first exit reason survives until death; every ready
  actor runs;
* traps: ensures start newest first, each once, before the actor stops;
* ports: a request yields one event, no event follows a close, the owner of a
  port at delivery time gets its event, a dead owner's ports close, accepted
  data is written, every goroutine ends;
* supervisor: every listed child is watched, restarts are bounded in every
  window, a stop goes in reverse order and leaves nobody;
* session: every input is answered once, an interrupt ends the current input
  and no other; code is swapped whole, old code still finds its own functions;
* compiler and machine: a program does what its source means, and an accepted
  chunk never reads a register nobody wrote;
* front end: what is written is read back; the analysis rejects exactly the
  names that would be missing at run time;
* values: tables are maps, vectors are sequences, equality, hash and order
  agree.

The hazards are listed line by line in `PROJECT.json`, with the properties that
would catch each one.

## 2. Modules

### Scheduler

The loop and every actor opcode of `vm/scheduler.go`. What remains of the
program that an actor executes is the opcode it picks next, so that the model
has the behaviours of every program that uses the opcodes in `Ops`.

| model | code |
|---|---|
| `status`, `ready`, `active`, `reds` | `Actor.status`, `Scheduler.ready`, the running actor, the reductions left |
| `mailbox`, `downs` | `Actor.mailbox`, `Actor.downMsgs`, taken in this order: downs first |
| `watches`, `links`, `names` | the `watchers`, `links`/`owners` and `names` maps, as relations |
| `exit` | `Actor.exit` (`exitSig`): reason, kill, whether an ensure block runs for it |
| `handlers` | the `TRAPENSURE` handlers on all frames of the actor; `depth` is their number when the signal entered the current ensure block |
| `awaiting`, `slots`, `deadline`, `timers` | `Actor.awaiting`, the `RefSlot` of every ref, `recvDeadline` (zero, future, past), the members of the heap |
| `pc`, `aref` | the opcode a suspended actor executes again (`RECVTAKE`, `AWAIT` and its ref) |
| `outcome` | the return of `runMain` |
| `Finish`, `PickNext`, `WaitTimer`, `WaitNothing`, `Tick`, `Idle` | `runMain`, `waitEvent`, `wakeExpired`, the clock |
| `Call`, `Charge` | `reduce`, `charge`/`chargeBytes` with the turn budget of the actors in `Limited` |
| `Return`, `Raise`, `ExitStep` | `stepDone`, `stepFailed`, `exitStep` in `runSlice` |
| `PushEnsure`, `PopEnsure`, `EnsureEnd` | `TRAPENSURE`, `TRAPEND`, `ENSEND` |
| `Spawn` ... `Reply` | the opcode of the same name with the scheduler method it calls |
| `Death` | `notifyWatchers` with `dropNames`, `exitLinked`, `dropLinks`, then `reapActor`: one step, as it is one step of the loop |

Choices that hold throughout:

* A reduction is spent by a call or a return (`Call`, `Raise`); other opcodes
  cost none in the model. The code counts every step of `stepFrame`; which
  opcodes end a slice changes when an actor is preempted, and `Quantum` 1 and 2
  put a preemption after every or every second call.
* The order of map iterations in the code is any order in the model (`Death`).
* Time is a deadline that is in the future until `Tick` makes it past; the heap
  and the order of deadlines are in `Timers`.
* `Port` says whether the program has open ports: none, some that will not
  speak any more, or some that may; the ports themselves are in `Ports`.
* The frames and handlers of an actor are the counter `handlers`, which is what
  the scheduler looks at; the frames themselves are in `Unwind`.
* `dropped`, `SELF`, `WHEREIS` and `MAILBOXSIZE` have no effect on other state
  and are left out.

`MCScheduler` gives `Ops` its values: each run enables the opcodes its question
is about.

### Unwind, EnsureStack

One actor, seen from inside. The code it executes is any sequence of the
operations the compiler emits for traps, so that a run covers every program with
these bounds.

| model | code |
|---|---|
| `frames` | `Actor.frames`: handlers, cleanups, and whether the frame runs code or a drain |
| a handler's `left` | the registration flags of a `trap ... ensure` body whose ensures have not started |
| `cleanups` | `Frame.cleanups` and the levels and closures a `drainRun` has still to call |
| `sig` | `exitSig`: on, kill, unwinding, and `ensFrame`, `ensHandlers` |
| `TrapBegin`, `TrapEnsure`, `Register`, `TrapEnd` | `TRAPBEGIN`, `TRAPENSURE`, the register that marks an ensure, `TRAPEND` with `ENSEND` |
| `TailCallEns`, `Return` | `TAILCALLENS` with `pushCleanup`, `RETURN` with `startDrain` |
| `Raise` (`Land`, `RaiseOut`, `CatchCleanups`) | `Frame.catch`, `tryUnwindRaise`, `catchCleanups`, and `stepFailed` of `runSlice` |
| `DrainNext`, `DrainEnd` | `drainRun.resume` |
| `Exit`, `UnwindExit` | `signalExit`, `exitStep` with `unwindExit` |

An ensure is the number of its registration; values are left out (they are in
`Machine`). A frame that runs a closure of a drain is an ordinary frame above
the drain frame. Frames of the session and of telemetry handlers are left out.

`EnsureStack` is the abstract specification: ensures are numbered as they are
registered, of those that have not started the newest starts next, and the actor
stops when none is left or `:kill` came. `Unwind` implements it with the map
`Owed`: what the cleanups and the handlers of all frames still have to start. That
these places agree with the numbers, in whatever way an actor came to them, is
what the implementation shows. `EnsuresAreAStack` also has `ExitRunsEnsures`: an
actor that a signal reached runs code only inside an ensure that started after it.

### Timers, TimerQueue

`Timers` is the heap of `vm/scheduler.go` with its sift up and down, the place of
each entry kept in it (`pos`: `timerEntry.pos`, `Actor.timerPos`), removal from
the middle, sequence numbers, `Timer.send_after` and `cancel`, the timers of
`recv ... after` and `await`, the death of an actor, and `wakeExpired` with its
batch of due entries. A loop (`up`, `down`, `wakeExpired`) is a turn (`Climb`,
`Sink`, `Serve`) taken as often as it can be needed (`Turns`); a turn too many
changes nothing. `HeapHolds` says that the heap is in order, that the places kept
in the entries are those in the heap, and that `sends` has what `Timer.cancel` may
find. `TimerQueue` is the abstract specification: a set of armed
timers served in the order of deadline and arming, each once. `Timers`
implements it with the map that reads the pending set off the heap.

### Ports

| model | code |
|---|---|
| `port`, `owned` | `Scheduler.ports` with `openPort` and `streamPort` (request flag, pending bytes, promise), `Actor.ports` |
| `inject`, `batch` | `injectQueue.evs`, and what `drainInject` has taken from it |
| `res` | `osStream`: the operations, `failed`, the error not yet said, `closing`, and where its goroutine is |
| `OpenPort`, `Request`, `WritePort`, `Give`, `ClosePort` | the natives of `Port`, `File` and `Signal` |
| `Shut` | `shutPort`; of all ports of an actor for its death (`Die`), of all ports for the end (`Leave`, `Over`: `finishPorts`) |
| `Take`, `Parse`, `Event`, `Deliver` | `drainInject`, `streamEvent`, the message of a signal, `deliver` |
| `OpenFile`, `NextOp`, `DropOp`, `DoOp`, `CloseFile` | the goroutine of a file: `run`, `next`, `read`, `write` |
| `Signal` | the goroutine of `signal.go` |

Actors are owners here and nothing else: one may call any native when the loop
is not in the middle of `drainInject`, and may die between any two. The system
may fail any operation. `Leave` may happen at any moment between two events,
which covers `Sys.halt`, a failed main and the regular end. `asked`,
`accepted`, `got` and `file` are histories. Bytes are counted in units. The
conversion of iodata, the file modes and a machine without a file system
(`noStream`) are left out.

### HttpServer

| model | code |
|---|---|
| `lst`, `rp` | the port of the listener; the ports of the requests |
| `closing` | `Scheduler.closing`, the wait group of `finishPorts` |
| `tr`, `queue` | `httpListener`: bind, `want`, `closed`, `kill`, shutdown; its `queue` |
| `rq` | `httpReq` and the locals of `serve`: commands, disconnect, what was sent, the failure, what the client gets |
| `Accept` ... `Die`, `Leave`, `Take`, `Parse` | the natives and `httpEvent` in `vm/http.go`, `vm/stream.go` |
| `Bind`, `Shutdown`, `DrainTimeout` | `bind`, `Close` and `Abort` of the listener |
| `Serve`, `ClientGone` | `ServeHTTP` and `offer`; the client's connection (net/http, external) |
| `Top`, `Exec*`, `Wait`, `Wake`, `SeeGone`, `SeeShut`, `SeeKill` | `serve`: the critical section, one command, the select and its cases |

A command is executed in one step. Between the critical section at the top of
`serve` and the select, the loop and the other goroutines interleave freely.
Left out: syntax of heads and headers, size limits and their status codes,
204/304, the write buffer (it is the one of `Ports`).

### Supervisor

`supervisor.brig` over `server.brig`. `children`, `restarts` are `state`;
`task` is the child being started; `stop` is `stop_children` with what it has
still to stop, its phase and the downs it took out of order; `downs` and `inbox`
are the supervisor's mailbox. `ChildEnds` and `SupKilled` are what the outside
does at any moment: a child may end while it is started, watched, restarted or
stopped. `StartOk`, `StartFails`, `WatchChild` are `start_child`; `ChildDown` is
the handler of `:down` with the strategies and `over_limit`; `StopChild`,
`TakeDown`, `AwaitDown`, `Expire`, `KillChild` are the loop of `stop_children`;
`Call`, `CallTimeout`, `Request` are `Server.call`. `began` is a history.

### Session

The loop of `vm/session.go`, select by select: `sessionLoop`, `waitSession`,
`takeJob`, `beginJob`, `completeJob`, `awaitNested`, `YieldUntil`, and the
goroutines that call `Submit`, `Interrupt`, `Snapshot`, `CloseSession`. Another
actor B stands for the rest of the program: it may wake the session actor, halt,
or compute for ever. `aimed` is a history.

### Reload

`repl/modules.go`: what a session keeps of its modules (`loaded`, `roots`,
`generation`), the globals of the machine (`cells`) and the codes that frames
and function values hold (`held`), against an editor (`Edit`).

| model | code |
|---|---|
| `Graph`, `Closed`, `GraphFails` | `loadGraphs`, `mergeGraphs` (the loader itself is in `Modules`) |
| `LoadModules`, `Recompile`, `Changed` | `loadModulesAs`, `recompile`, `modulesChanged` |
| `Check`, `Stat`, `Install` | the comparison of sums; `install`: the analysis, the sums of the files, the swap and the records |
| `Names`, `Compiled`, `Defs`, `Undef`, `Globals`, `Apply` | what `install` defines, undefines and records; `applyGlobals` |
| `AliasModule` | `aliasModule` |
| `Get`, `Return` | a call by name, a frame that ends |

A file is one of a few texts, a text its imports, functions, functions with a
local function, and the names of other modules it uses. Several steps of a call
are steps of the model; loads and edits come between them. An edit always
changes time, size or content as `modulesChanged` sees them. A call that fails
changes nothing and is not a step. A graph is
the least set of files that holds what its members import, not the walk that
finds it. `told` remembers the last recompile that succeeded until somebody
edits or loads: only so long does `RecompileIsTrue` promise the code of the disk
(section 6 says why a load ends it), under the names of the modules the roots
reach and not under aliases, which keep the text they were taken of
(`AliasesOneText`). `torn` are the files that were written over after the call
under way had read them and before it took their sums; `RecompileIsTrue` excepts
these files and no others. `MCSession` puts it beside `Session`.

### Telemetry

`tele` are the subscriptions, `stack` the delivery frames of an actor of the
program and of the service actor, `queue` and `service` the events of the dead
and of timers with the actor that delivers them. A handler may attach, detach,
raise, send, emit and die; its delivery goes on with the handlers fixed at its
start. The death of E or T ends what it was delivering; a successor of T takes the
queue.

### Bytecode, Primitives, Machine

`Bytecode` has chunks and the verifier (`vm/verify.go`): registers and jumps,
`MATCHLOCAL`, tail calls under traps, the end of the code, definite assignment
as a fixpoint over the control flow. `Primitives` has values, operators,
indexing, spreads, records and pattern matching. `Machine` runs chunks: every
instruction but `POW` and `DIV`, frames, calls, variadic functions, tail calls,
trap handlers, ensures, drains, `recv` with and without a timer. It can be run
step by step (`Next`) or to its end (`Execute`). `MachineSources` assembles
chunks from small alphabets of instructions around calls, traps, ensures, tail
calls, patterns and receives; the unassigned register is the value `None`.

### Compiler, Semantics

`Compiler` turns trees into chunks as `internal/compiler` does: registers and
scopes, upvalues through levels, lambda lifting of local functions with the
fixpoint of their captures, clauses and patterns, `if`, `match`, `with`, `trap`,
`recv`, pipes, tail calls, modules and constructors. `Semantics` is the
reference: an evaluator over environments, written from the rules of
`docs/01-language-design.md` and not from the compiler. `LanguageSources` makes
the programs: contexts with a hole, twice nested, around small expressions.

### Layout, Parser, Format

`Layout` is the part of the lexer that knows lines: indents, blocks inside
brackets, continuation lines, closers, empty and joined lines. `Parser` is the
recursive descent of `internal/parser`, production by production. `Format`
writes a tree as `ast/format.go` does, and in three other layouts a person may
use. `SyntaxSources` has the trees.

### Modules, Names

`Modules` has the names and paths of modules, the loader (`Add`, `ResolveFile`,
`LoadImports`, `LoadFrom`) and what the compiler keeps of modules. `Names` is
the analysis of `internal/sema`: scopes, arities, privacy, directives, the world
of a program, misplaced `trap`s and local functions. `ModuleSources` has
programs for both.

### Hamt, VectorTrie, Values

`Hamt` is the persistent table (`put`, `remove`, `get`, nodes with slots, chains
of one hash, folding of a node with one leaf). `VectorTrie` is the persistent
vector (push, set, concatenation, builders, slices, iteration, comparison that
skips shared nodes). `Values` has equality, key equality, hash, order, the
comparison operators and the arithmetic of Int with its overflow to big;
`ValueSources` has a universe of values and the laws.

### MCMachine, MCSession

They put parts that share nothing into one run: the variable `part` says which
part a behaviour is of, the variables of the other parts stay idle.

### The proof modules

`SchedulerProofs`, `UnwindProofs`, `PortsProofs`, `SupervisorProofs`,
`SessionProofs`, `HttpProofs`, `TelemetryProofs`, `TimersProofs`: theorems about
the module they are named after, see section 5; `SessionProofs` is about `Session`
and `Reload`.

## 3. Runs

| run | question | result |
|---|---|---|
| `signals` | signals of others, of oneself and `:kill` against ensure blocks, errors, blocked receivers and preemption: no victim sleeps over one (`SignalAwake`), the first reason stands, a dead actor hears nothing, `:kill` runs no ensure (`SignalsStand`); every ready actor runs (`NoStarvation`), every killed one dies (`KillLands`) although others compute for ever | passes |
| `family` | links, watches, unwatches, names and deaths in every order: nothing leads to a dead actor (`NoDangling`), every watch stands until it is unwatched or its target dies and is then answered, once and with the reason of that death, or with `:noproc` at once (`WatchesAnswered`), linked children are signalled in the step of the owner's death (`ChildrenFall`) | passes |
| `waits` | `recv` with and without `after`, await and reply, sends into a full mailbox, timers, exits, turn budgets: `TypeOK`, `ReadyOnce`, `NoLostWakeup`, `SleeperHasTimer` | passes |
| `unwind` | every way out of a block: `EnsuresAreAStack` (refinement of `EnsureStack`, and nothing but ensures after a signal), `ExitEnds` | passes |
| `ports` | one port between two owners, the loop and its goroutine: `OneAnswerPerRequest`, `PromiseMeansFull`, `LiveWhileOwed`, `PortsOfTheLiving`, `AcceptedIsWritten`, `ClosedIsSilent`, `OwedIsAnswered`, `EndsAll` | passes |
| `http` | a listener and a request in every order: `OwesOneAnswer`, `RepliesAreTrue`, `EndsAll` | passes |
| `supervisor` | early deaths, failing starts, stop with its deadline, calls, a kill of the supervisor: `NobodyFallsUnnoticed`, `StopIsOrderly`, `RestartsAreBounded`, `StopEnds` | passes |
| `session` | the loop of a session: `OneResult`, `QueuedForItsInput`, `InterruptLands`; its code: `CodeIsWhole` | passes |
| `machine` | chunks, programs, telemetry, timers, tables, values, text, names, see below | passes |
| `stale_await` | a `recv` that mail does not wake | found |
| `unwind_traps` | a trap inside an ensure that does not catch | found |
| `http_orphan` | a request whose owner is never told | found |

`machine` is one run of eight parts that share nothing; its variable `part`
says which part a behaviour belongs to.

| property | what it says | over |
|---|---|---|
| `AcceptedIsSafe` | an accepted chunk never reads a register nobody wrote and never runs off the end of its code | chunks assembled from the alphabets of `MachineSources`, every step of each |
| `MeansTheSame` | a compiled program prints, does and ends as its source means, and its chunks are accepted | 18207 programs |
| `DeliveryGoesOn` | waiting events have a service actor awake for them and keep their places; no handler, by raising, detaching or attaching, costs another one its event; a death costs only what the dead actor was delivering | 2 ids, 3 attachments, 2 events, 3 levels, 1 kill |
| `ServesInOrder` | the heap is in order and knows its places (`HeapHolds`); it implements `TimerQueue` | 2 actors, 2 `send_after`, 3 armings |
| `CollectionsHold` | tables and vectors hold what was put into them; versions do not disturb each other | 7 keys, 4 of one hash (1, 1.0, a string, NaN), up to 4 pairs; leaves of 2, lengths to 11 |
| `ValueLaws` | equality, hash and order agree, order is total and transitive, Int results are exact or big | a universe of values, Ints of 4 bits |
| `ReadsBack` | a tree written by the formatter or in three other layouts reads back as itself | trees of `SyntaxSources`, 4 styles |
| `NamesAgree` | the names that the analysis calls undefined are the ones missing at run time; what it accepts reaches no private function and no module it may not; a loader gives each module once or fails | 2601 scope programs, 585 graphs of files, 583 graphs with 19 references each |

## 4. Bounds and fairness

`Scheduler`: three actors are a signaller, a victim and a bystander (or owner,
child and watcher), the most any property relates. Two refs give two watches,
of one target or of two, one answered while the other stands, or an await next to
a second slot. In `family` the constraint `FewTies` cuts what two watches and many
links would multiply: beside two watches there are no links, beside one at most
two, four without. `WatchesAnswered` and `ChildrenFall` are proved without it. A
mailbox of two distinguishes empty, partly full and full. Slices of one preempt
after every call, of two let an actor act before it is preempted.

`Unwind`: three frames are a frame that catches, one with cleanups or a drain,
and its closure or callee; two ensures are the fewest that have an order.

`Ports`: ports share nothing but the two queues, whose order between ports no
property relates, so that one port with two owners meets every race of a port;
three writes fill a buffer of two, overshoot it and are refused.

`HttpServer`: with one request the listener meets a full queue, no slot (while
the request is served, a second would get 503 by the same test) and every race
of its closing. Races between two requests of one
listener are beyond the run; the two invariants are proved for any number (section 5).

`Supervisor`: two children give a first and a last, a neighbour before and
after (the library has one strategy, `:one_for_one`); the second is transient. One restart in a window of
two clock steps is granted, a second is refused or, later, granted again. One
pid more than two restarts need.

`Session`: two jobs are a running and a waiting one, or an outer and a nested
one. `Reload`: two files import each other in one direction, three texts differ
in functions and imports, three calls with two edits are a load, a recompile
that sees one edit and a last call; one held frame outlives two generations.

`machine`: a chunk is a start, three or four instructions of a small alphabet
(calls, traps, patterns, ensures over a tail call, receives, collections) and an
end, enough for a trap inside a trap or a jump over a binding; programs put every expression inside every context
inside every context, which meets each pair of productions; keys of one hash
class make chains and folds, leaves of two give vectors of three levels at
eleven elements; 4-bit Ints overflow in every operator. Bounds are in the cfg.

No cfg turns the deadlock check off. In `Scheduler`, `Unwind`, `Ports` and
`HttpServer` only a state in which the program waits for the outside or is over
has a step that changes nothing (`Idle`, `Dead`, `Stopped`), so that a deadlock would be
found. In `Timers`, `Telemetry`, `Supervisor`, `Session` and `Reload` the actors
outside the component may do nothing at any moment (`Rest`), which no deadlock
check sees through; there `StopEnds`, `InterruptLands` and `OneResult` say that
the component goes on.

Fairness. `Scheduler`: the loop and the clock go on (weak fairness of `Loop` and
`Tick`), a running actor executes the step its signal or its suspended opcode
demands (`ExitStep`, `Resume`), and gets to a call again and again (strong
fairness of `Call`): Brig has no loop but recursion, so a computation that does
not end makes calls for ever. No fairness is assumed of sends, answers or
returns. `Unwind`: the actor is scheduled and ends what it opened (weak fairness
of `Close`); `ExitEnds` says of its code that it opens frames and traps finitely
often, because an ensure that recurses for ever ends for nobody. `Ports`,
`HttpServer`: the loop comes back to the inject queue (each slice is bounded),
and the goroutines of Go run; the natives of actors, signals of the system,
clients, the bind and the drain limit have none. `Supervisor`: the supervisor is
scheduled and its deadline passes (the two above), and a child that was killed
dies (`KillLands`); that a child stops by itself is not assumed. `Session`: the
loop goes on, the goroutine a native waits for ends once it is asked to
(`HelperEnds`), and a caller of `Interrupt` that has set the flag pokes the loop.

## 5. Proofs

`SchedulerProofs` proves `TypeCorrect`: `TypeOK` is an invariant for all values
of the constants that satisfy `SchedulerAssumption`. The inductive invariant
adds that the running actor has a reduction left (`SliceOK`). The lemmas on
`SetToSeqs`, `HurriedQueue`, `Append` and `\o` say what these do to a queue: its
members, and that each stands in it once; that a listing of a finite set has
all its members is the pigeonhole principle of `FiniteSetTheorems`.

Its second part proves `QueueCorrect` (`ReadyOnce`) and `WakeupCorrect`
(`NoLostWakeup`). `ReadyOnce` needs that a pid is unborn until `Spawn` hands it
out (`Unborn`): otherwise a spawn could queue an actor that is queued. One lemma
says what each kind of step does to the queue (a preemption, a wakeup, falling
asleep, a death, a signal), and each action is one of them. `NoLostWakeup`
rests on `ReadyOnce`: a step of the running actor never changes the mail of a
sleeping actor without waking it.

`PortsProofs` proves, from `PortBounds` alone, `OwnersCorrect`
(`PortsOfTheLiving`), `PromiseCorrect` (`PromiseMeansFull`) and `SilenceCorrect`
(the action property `ClosedIsSilent`). The inductive invariant `PortInv` is in
three parts: the port table, which only the loop changes (`Table`), the
goroutines' records (`GoType`) and the queues (`QueueType`). `PortsOfTheLiving`
is not inductive: a number that stands in some list before its port is opened
would give the new port two owners, so `Table` adds that a list holds open ports
of its actor only (`ListsAreOpen`). It needs nothing of the order of events,
only that an event names a port: `Parse` looks at the port when it acts.
`SilenceCorrect` follows from the invariant's types, since only `Parse` delivers
and it tests the state and the owner in the same step.

Its third part goes on from `ReadyInv`, the invariant of the second, with
`SchedulerAssumption` as the only hypothesis where no other is named:

* `DanglingCorrect` (`NoDangling`) and `ChildrenFallCorrect` (`ChildrenFall`): a
  death takes the running actor and nobody else (`DeathLive`), and every relation
  loses what leads to it in the same step. `ChildrenFall` needs `NoSelfLink`.
* `DownCorrect` (`WatchesAnswered`): a ref that was not handed out watches nobody
  and stands in no queue of downs (`FreshRefs`), so a watch is of a new ref, and
  each opcode moves a ref at most once, from `watches` to a queue or out of one
  (`DownOnce`). The rest is said step by step: a watch goes only by `Unwatch` or
  in the step of its target's death, which puts the down with the reason of that
  death behind what its living watcher has (`AnswerDeath`); a new watch stands or is
  answered `:noproc` (`AnswerWatch`); `recv` takes the first (`AnswerTaken`); every
  other step leaves all three alone (`AnswerSame`).
* `SignalsStandCorrect` (the action property `SignalsStand`).
* `SleepersSignalled`: the only signal an actor ever sleeps over is that of its
  own turn budget. `SignalAwake` is what is left of it where there are no
  budgets: `SignalAwakeCorrect` has the hypothesis that no actor charges or none
  is limited. It is not weaker than it must be: with budgets the property is
  false (section 6), and the run checks it without.
* `AwaitCorrect`: the `await` half of `SleeperHasTimer`, for every program.
* `SleeperCorrect` (`SleeperHasTimer`): the other half, that a `recv ... after`
  sleeps with its timer, has the hypothesis `WaitsApart`: `await`, `after` and
  ensure blocks do not all occur. The `waits` run satisfies it (it has no ensure
  blocks), and without it the property is false (section 6). The invariant says
  what a wait that a signal ended leaves behind (`Unmixed`) and that a branch
  loses its deadline only while a signal is about to end it (`Timeouts`).

`UnwindProofs` proves `EnsuresInOrder` (`EnsuresAreAStack`: the refinement of
`EnsureStack` and `ExitRunsEnsures`) and `TypeCorrect`, from `UnwindBounds` alone:
any number of frames, blocks and ensures, and code that may raise anywhere. The
property says nothing of where an ensure is kept; the invariant has to:

* `StackOK`: the numbers grow along the stack, from frame to frame, and in a frame
  from its cleanups over its blocks (`InOrder`). So whatever stands at the place
  where control lands is newer than all below it.
* A drain has no blocks open, and a trap owes nothing (`Whole`). So what lies
  above that place owes nothing (`ClearAbove`, `Reached`): `tryUnwindRaise` passes
  frames that have neither handlers nor cleanups, `unwindExit` drops handlers that
  are no ensures and frames that do not drain. This is what makes it right to drop
  them, and the ensure that starts next the newest of all (`PastCut`, `CutNewest`).
* `Anchored`: while the unwind is under way, the handler it entered
  (`ensFrame`, `ensHandlers`) guards an ensure that started after the signal, or a
  frame that the exit drains stands in the stack. The place is not cleared when the
  block is over, so this holds only together with `unwinding`, and the proof is that
  no step which leaves `unwinding` set takes the handler or the drain away
  (`KeepsAnchor`). It is stated for one handler and not for the running frame,
  because ensures nest: the code that runs may be frames above it, in a trap in an
  ensure in a drain.

Each step of `Next` has a lemma that it keeps the invariant and is a step of
`EnsureStack` or none. Those that cut the stack go through one of four: the
running frame or frame k is replaced by one that owes as much (`QuietTop`,
`QuietCut`), control goes past a handler (`PastStep`), a frame is popped
(`PopStep`). `MaxIs` (a set of numbers has a greatest) is by the well-founded
order of the library.

The second part of `PortsProofs` goes on from `PortInv` and does need the order
of events.
`AnswersCorrect` (`OneAnswerPerRequest`) and `LiveCorrect` (`LiveWhileOwed`) rest
on `ReadOK`: the request of an armed port is in the queue of its goroutine or its
answer is one event under way, never both, and a failed resource (`GoOK`) takes
nothing up again. `WritesCorrect` (`AcceptedIsWritten`) rests on `WriteOK`: what
was accepted is what is in the file, what failed and what is queued, in this
order. `pending` counts bytes of the writes whose answers the loop has not seen;
since a sum over a sequence is beyond the prover, `PendingOK` states it with a
function of partial sums that a step extends or keeps (`Sums`), and with the
places of the answers on the way (`OnTheWay`).

`SupervisorProofs` proves `TypeCorrect`, `NoticedCorrect`
(`NobodyFallsUnnoticed`), `StopCorrect` (`StopIsOrderly`) and `RestartsCorrect`
(`RestartsAreBounded`), for any number of children and clients, any window and
clock. The parts of `IInv` are what the library relies on without saying it:
incarnations and names in `children` do not repeat (`Listed`), what is being
started is not listed (`TaskOK`), every living child is listed or being started
(`LivingListed`), in `stop_children` what lives is still to be stopped, in
reverse order (`Stopping`), and `restarts` is the end of the history of restarts,
whose rest is out of the window for good (`Window`: this is why pruning the list
at each restart is enough, and it needs that the clock never goes back).
`OthersKeep` and the lemmas beside it say what filtering the list keeps.

`SessionProofs` proves `TypeCorrect`, `AnswersCorrect` (`OneResult`) and
`QueueCorrect` (`QueuedForItsInput`), for any inputs. An answer is sent once
because an input that is current or pending has none and the two differ
(`JobsOK`); the actor is queued once because of what its status and the queue may
be at each place of the loop (`LoopOK`, `QueueOK`): a loop nested in the actor's
own wait may have taken its entry off the queue and not yet have looked at it.

`HttpProofs` proves `OwesCorrect` (`OwesOneAnswer`) and `RepliesCorrect`
(`RepliesAreTrue`), for any number of requests and slots, while its run has one:
races between requests of one listener are proved and not model-checked. An accept
waits in the listener or its offer or refusal is on its way, whichever of bind,
`Accept` and `ServeHTTP` came first (`ListenerOK`); a request is offered once,
from the queue or past it (`OfferOK`); a read is among the commands pushed, among
those the goroutine took, or answered (`ReadOK`); a request without a port was
told nothing but 503 (`FreshOK`); and the goroutine was told to close only by a
port that is closed that way (`WorkOK`). Sequences are looked at as members that
join, leave and stand there once (`Added`, `Popped`, `Removed`, `Joined`,
`Counted`). `ClosingCorrect` (`ClosingCounts`): `closing`, which the end of the
program waits for, is the number of requests whose last command is
pushed and not executed, plus the listener while its `Shutdown` runs. That no
`done` is called twice or forgotten needs that a goroutine is told to end once
(`CloseOK`) and that the last command of one that left early is done by `exit`.
It counts a set of requests and so has the hypothesis that they are finitely many
(in any run of the program they are), as has `TypeCorrect`, which follows
(`closing` is a natural number; the other types need no such hypothesis).

`TelemetryProofs` proves `ServedCorrect` (`QueueIsServed`) and `DeliveryCorrect`
(`DeliveryGoesOn`), for any number of ids, attachments, events and levels of
delivery. The invariant says that the frame which reads the queue is the first one of the
service actor and of nobody else (`LoopsOK`), and that the actor exists as long
as its stack does. Every step but the death of its actor then leaves each frame
as it is, takes the first of its handlers, or ends a frame that has none left; new
frames come above (`Follows`). What the theorem does not say, because the code
does not do it: when the actor that delivers dies, the handlers it has not called
do not get the event. For the service actor the event is already off the queue
(telemetry.go:81-86, 464-473); what is still in the queue is kept (`QueueStep`).

The second part of `SessionProofs` proves `CodeCorrect` (`CodeIsWhole`) of
`Reload`, for any files, texts, aliases and bounds on edits. `OneText` is not
inductive: a name that `loaded`
does not list is never undefined, so `LoadedOK` relates the records to the names
in the machine, and `TextsOK` says which text the names of a module are of.
`OldCodeRuns` needs that a generation is never used twice (`CellsOK`).
`RecompileIsTrue` needs what a call knows of the disk it has read and compiled
(`CallOK`), up to the sums it takes afterwards, that what a loaded module
imports is loaded (`TextsOK`, but for files in `torn`), and that a graph is the
least closed set, so that
a set of files that is closed on the disk of now holds everything the roots reach
(`GraphLeast`).

`TimersProofs` proves `HeapCorrect` (`HeapHolds`) and `QueueCorrect`
(`ServesInOrder`: the refinement of `TimerQueue`), for any actors, waits and
bounds. The hypothesis `ConstantsOK` says that an actor is not a number and a wait
is one; `MCMachine` assumes it too, so TLC evaluates it. The loops of the heap
(`Up`, `Down`, the one of `WakeExpired`) are recursive functions of the number of
turns, and what they end in is proved, not assumed: a set of numbers that holds 0
and with each number the next holds all of them (`Induct`, from the well-foundedness
of `<`), so the states of a loop exist as a sequence (`LoopExists`), what a turn
keeps holds of each of them, and the number of turns is enough, since a turn that
is not the last moves up, moves down or takes an entry. The heart is the order of
a heap but for one entry: while an entry climbs, each pair of parent and child is
in order but the one above it, and its children are after its parent
(`OrderedBut`, `UpIs`); while one sinks, but the pairs below it (`OrderedAround`,
`DownIs`); `heap.Fix` and `heap.Remove` begin with an entry whose both sides may be
out of order, and one of the two loops puts it right (`SettleIs`). The root is
the least entry (`RootIs`), so `wakeExpired` serves what is due in the order
(`ServeIs`, `LoopIs`); that it is the order of `TimerQueue` needs that no two
armed timers have the same number of arming (`ArmedApart`).

Only model-checked:

* liveness: every `~>`, `WF_` and `SF_` property;
* what the other recursive definitions compute (`Machine`, `Compiler`, `Parser`,
  `Hamt`, `VectorTrie`, `Values`, and so `AcceptedIsSafe`, `MeansTheSame`,
  `CollectionsHold`, `ValueLaws`, `ReadsBack`, `NamesAgree`): they recur over trees,
  chunks and programs by RECURSIVE operators, and a module with one has no SMT
  backend; induction over data takes an operator as a parameter. `Timers` is
  within reach since its loops count turns, and a set of numbers can
  stand for the induction.

The theorems about `Session`, `Reload`, `Telemetry` and `Timers` are about these modules;
`MCSession` and `MCMachine` check the same behaviours, those in which `part` is
theirs.

## 6. Findings and divergences

Findings, each with a run that shows it and the quoted line in `PROJECT.json`:

* `stale_await`: after a timer has woken an actor in `await`, a signal that
  reaches it before it runs leaves `awaiting` set during its ensure blocks; a
  `recv ... after` there is not woken by mail or `:down` before its deadline.
* `unwind_traps`: in an ensure that an exit unwind runs, an error raised by a
  callee is not caught by a trap of that ensure, though one raised in the
  ensure's own frame is; the rest of the ensure is dropped.
* `http_orphan`: when the owner of a listener dies and the drain limit passes, a
  request that was given to a living actor loses its goroutine without an event.

Met while modelling and shown by TLC on these models, without a run of their own:

* A turn budget crossed inside an opcode is not acted upon when the next opcode
  blocks: the actor sleeps with its signal pending, and later signals other than
  `:kill` change nothing (`SignalAwake` with `BudgetOps` and an actor in
  `Limited`).
* A `recv ... after` may sleep without a timer (`SleeperHasTimer` with
  `UnwindWaitOps`, `reply` and one ensure block; a consequence of `stale_await`):
  an `await r` times out, a signal takes the actor before it resumes, its ensure
  block waits in `recv ... after` with `awaiting` still `r`, and the late answer to
  `r` wakes it and clears the timer. The `recv` runs again with the deadline at
  zero and goes back to sleep; its `after` branch never comes.
* The place of the block an exit entered outlives the block, so that the
  `ENSEND` of a trap inside a drained closure at the same depth ends the closure
  early (in `Unwind`, three frames, one trap in each and one ensure suffice: an
  ensure turned into a cleanup by a tail call, a callee in a trap, a signal, and
  a trap in the ensure; its end clears `unwinding`).
* An interrupt may end an input that it was not called for: the flag set while
  none is current outlives the look that would clear it (`InterruptSparesNext` of
  `Session`; session.go:84-86 against 361-374).
* A send that a full mailbox refuses emits `[:vm, :mailbox, :hwm]` and no
  `[:vm, :message, :send]` (`RefusedSendIsTold` of `Telemetry`; docs/01:2358,
  2361).
* A transient child that ends normally before the supervisor watches it is
  restarted: the watch answers `:noproc` (`TransientStaysDown` of `Supervisor`;
  supervisor.brig:11-13).
* A file saved after `install` read it and before it took its sum is never seen
  again as changed, until the next save (`RecompileIsTrue` of `Reload` without
  its `torn` clause). Here is the history: load A; an edit of A between the read
  and the stat of the load; recompile says that nothing changed, and the globals
  are those of the old text (modules.go:114-116 says an empty list means that
  nothing changed).

* A `recompile` that succeeded is no promise beyond the next load
  (`RecompileIsTrue` without its clause for loads, three files): load A, which
  imports B; drop the import from A and edit B; recompile, which reads the graph
  of the roots and leaves B alone; load C, which imports B. B is already loaded
  and is not installed again, so C runs with the old B.
* A load checks names against the file of a module that is loaded and does not
  install it (modules.go:80-85): load B, add a function k to its file, load A,
  which calls `B.k`. The load succeeds, and `B.k` is undefined at run time until
  the next `recompile()`.

Met while reading, and kept out of the domains of the runs (section 7). In all
of these the code and a document or comment disagree, or two parts of the code:

* compiler: two functions of a module may lift to one name `f$lambda$1$g`
  (compiler.go:335); an ensure in front of a shadowing binding or a pattern that
  matched in part sees the registers as they are; a local function in an inner
  block with the name of an outer local gives way to the outer (docs/01:790);
  a variadic function without a matching clause raises its arguments as the
  fixed ones and a list of the rest (docs/01:653, :681).
* verifier: `RegUse` lists `RECVTIMER` as writing a register that `execFrame`
  reads (verify.go:87); the balance of traps is the balance of the text
  (verify.go:214-246), which the code of the compiler always satisfies.
* values: `dec"0" ** -1` panics in `big.Rat.Inv`; comparing two values that
  share a subtree with a function answers 0 where unshared ones raise
  `:type_error`; the table keeps the new key although the comment says the old.
* layout: after a block only `(` and `[` start a new statement; a line that
  starts with `-`, `+` or `.name` continues the block (docs/01:174,
  lexer/token.go:243-245); an opener inside a header in brackets overrides
  `lexer.opener`; a closer line does not reset `lexer.lineIndent`; a header that
  spans lines inside brackets opens no block; `recv` with a one-line `after`
  inside brackets does not parse, and one in block form takes the NEWLINE of the
  element after it (expr.go:1190, 1216).
* formatter: nested `as` and `<>` patterns, operators applied to block
  expressions and one-line `if` with a block in `else` read back differently;
  `type T = Tuple` prints `()`; the type `() -> C` has one parameter `()`
  although the comment in parser/type.go says it has none.
* names: `alias A.B as C` binds `B` for the analysis and not for the compiler
  (docs/01:1318); an actor primitive as a value passes the analysis, unless it is
  `Prelude.send`, and is an undefined global (names.go:491); so is a constructor
  of a module not imported (names.go:484-489, docs/01:3475) and
  `v |> P.send(w)` under `alias Prelude as P` (sema.go:740-757).
* loader: the entry file may declare the name of another file or of a stdlib
  module, which it then replaces for all; an entry in a nested path without
  `module` gets its base name only; a file without `module` that imports itself
  may not call its own private function by its full name; the order of imports
  decides whether `import HTTP` finds a file http.brig.
* session: `alias M as N` copies the globals, so that `N.f` stays old after
  `recompile()` (in `Reload`: `AliasesOneText` says which text an alias has, and
  `RecompileIsTrue` speaks of modules only) and replaces those of a module `N` for
  all actors (docs/01:1318, :1495); an alias taken again of a newer text keeps the
  globals that the newer text dropped; a module loaded first through another never becomes a root, and
  `recompile()` stops looking at it once its importer drops it.

## 7. Not modelled

* Timers are looked at only when nobody is ready (scheduler.go:766), so that
  actors that compute delay due timers without bound, against docs/01:2135; it is
  in `Scheduler` (`WakeExpired`) and stated by no property.
* Two requests of one listener; the limits of sizes and the syntax of HTTP.
* Text: characters of literals, names and comments, formatting of values, error
  messages and their positions; numbers other than Int (`POW` and `DIV`
  included), and floating point in tables beyond NaN.
* The natives of the prelude, the other modules of the standard library: they
  are functions of their arguments. Snapshots and the views of the observer.
* The command line, line editing, the file system under the loader, the tools:
  input and output.

What the input sets leave out, because the parts are known to disagree there
(section 6) or because the layout of such a tree has no single form:

* `SyntaxSources`: a statement that begins with `-` after a block; a block
  expression elsewhere than at the end of its line (left operand, map key,
  then-branch of a one-line `if`, header); headers that span lines or hold an
  opener; open expressions in guards, heads of `cond` and `after` times; `recv`
  in block form before another element in brackets and one-line `after` inside
  brackets; nested `as` and `<>` patterns; patterns below patterns outside `let`.
* `ModuleSources`: a misspelled import of a loaded file that declares no name
  (`Misspelled`); references that only one part knows (`KnownToPart`): an actor
  primitive or `spawn_behavior` as a value, a constructor of a module that is not
  visible as a value, the last segment of a module that has an alias.
* `Reload`: an alias never has the name of a module; a failing call changes
  nothing and is no step; an edit always changes time, size or content; privacy
  and script files are left out.

## 8. Plan

What is stated as a safety property and does not depend on a recursive definition
is proved, and of the recursive ones the loops of `Timers`. Next are models: a second request in the run of `HttpServer`; the
resumable natives of the prelude; the wakeups of `Ports` and `Telemetry` composed
with `Scheduler`, whose rules of sleeping they now restate.
