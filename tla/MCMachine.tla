------------------------------ MODULE MCMachine ------------------------------
(***************************************************************************)
(* One run for the parts of the machine that share nothing: assembled       *)
(* chunks step by step (Machine), compiled programs against their meaning   *)
(* (Compiler, Machine, Semantics), telemetry (Telemetry), the timer heap    *)
(* (Timers), tables (Hamt), vectors (VectorTrie), the laws of values        *)
(* (Values), the way from a tree to text and back (Format, Layout, Parser)  *)
(* and the two implementations of the rules for names (Names, and Compiler  *)
(* with Modules).  part says which one a behaviour is of; the variables of  *)
(* the others keep the value Idle.                                          *)
(***************************************************************************)
EXTENDS Machine, Semantics, ModuleSources, MachineSources

CONSTANTS Ids, PathPrefixes, MaxAttach, MaxEvents, MaxDepth, MaxKills,
          Actors, MaxSends, MaxArmings, MaxNow, Waits,
          Lanes,       \* programs checked side by side
          IntBits, Keys, Vals, MaxPairs, LeafWidth, MaxLen, Odd, MaxOdd,
          LowerIdents, UpperIdents, IntLits, StrLits, AtomLits

VARIABLES part, prog,
          tele, insts, stack, queue, service, refused, events, kills,
          heap, pos, dl, sq, sends, nextRef, nextSeq, status, deadline, box, to,
          now, served,
          tableKind, table, chains, vec, vecElems

Tel == INSTANCE Telemetry
Tim == INSTANCE Timers
Tab == INSTANCE Hamt
Vec == INSTANCE VectorTrie
Values == INSTANCE ValueSources
Syntax == INSTANCE SyntaxSources

ASSUME TimersAssumption == Tim!ConstantsOK

telemetryVars == <<tele, insts, stack, queue, service, refused, events, kills>>
timersVars == <<heap, pos, dl, sq, sends, nextRef, nextSeq, status, deadline, box,
                to, now, served>>
collectionVars == <<tableKind, table, chains, vec, vecElems>>
vars == <<part, machine, prog, telemetryVars, timersVars, collectionVars>>

Idle == "idle"

telemetryIdle ==
    /\ tele = Idle /\ insts = Idle /\ stack = Idle /\ queue = Idle /\ service = Idle
    /\ refused = Idle /\ events = Idle /\ kills = Idle

timersIdle ==
    /\ heap = Idle /\ pos = Idle /\ dl = Idle /\ sq = Idle /\ sends = Idle
    /\ nextRef = Idle /\ nextSeq = Idle /\ status = Idle /\ deadline = Idle
    /\ box = Idle /\ to = Idle /\ now = Idle /\ served = Idle

tableIdle == tableKind = Idle /\ table = Idle /\ chains = Idle
vectorIdle == vec = Idle /\ vecElems = Idle
collectionsIdle == tableIdle /\ vectorIdle

\* The keys of a table: 1, 1.0 and a string of one hash, NaN, and keys whose
\* hashes part at every level.
TableKey(hash, class, form) == [hash |-> hash, class |-> class, form |-> form]
TableKeys == {TableKey(<<0, 0, 0>>, 1, "int"), TableKey(<<0, 0, 0>>, 1, "float"),
              TableKey(<<0, 0, 0>>, 2, "str"), TableKey(<<0, 0, 0>>, 0, "nan"),
              TableKey(<<0, 0, 1>>, 3, "str"), TableKey(<<0, 1, 0>>, 4, "str"),
              TableKey(<<1, 0, 0>>, 5, "str")}

\* prog is the number of the last program checked, in one of Lanes lanes.
PartsInit ==
    \/ /\ part = "chunks" /\ Init
       /\ prog = Idle /\ telemetryIdle /\ timersIdle /\ collectionsIdle
    \/ /\ part \in {"programs", "names"} /\ prog \in 1 - Lanes .. 0
       /\ machine = Idle /\ telemetryIdle /\ timersIdle /\ collectionsIdle
    \/ /\ part = "telemetry" /\ Tel!Init
       /\ machine = Idle /\ prog = Idle /\ timersIdle /\ collectionsIdle
    \/ /\ part = "timers" /\ Tim!Init
       /\ machine = Idle /\ prog = Idle /\ telemetryIdle /\ collectionsIdle
    \/ /\ part = "tables" /\ Tab!Init
       /\ machine = Idle /\ prog = Idle /\ telemetryIdle /\ timersIdle /\ vectorIdle
    \/ /\ part = "vectors" /\ Vec!Init
       /\ machine = Idle /\ prog = Idle /\ telemetryIdle /\ timersIdle /\ tableIdle
    \/ /\ part = "values" /\ prog = 0
       /\ machine = Idle /\ telemetryIdle /\ timersIdle /\ collectionsIdle
    \/ /\ part = "syntax" /\ prog \in 1 - Len(Syntax!Styles) .. 0
       /\ machine = Idle /\ telemetryIdle /\ timersIdle /\ collectionsIdle

chunksNext == /\ part = "chunks" /\ Next
              /\ UNCHANGED <<part, prog, telemetryVars, timersVars, collectionVars>>
\* A program that has ended stays as it is.
chunksEnd == part = "chunks" /\ ~Running(machine) /\ UNCHANGED vars
programsNext == /\ part = "programs" /\ prog + Lanes <= Sources /\ prog' = prog + Lanes
                /\ UNCHANGED <<part, machine, telemetryVars, timersVars, collectionVars>>
programsEnd == part = "programs" /\ prog + Lanes > Sources /\ UNCHANGED vars
namesNext == /\ part = "names" /\ prog + Lanes <= NumPrograms /\ prog' = prog + Lanes
             /\ UNCHANGED <<part, machine, telemetryVars, timersVars, collectionVars>>
namesEnd == part = "names" /\ prog + Lanes > NumPrograms /\ UNCHANGED vars
telemetryNext == /\ part = "telemetry" /\ Tel!Next
                 /\ UNCHANGED <<part, machine, prog, timersVars, collectionVars>>
timersNext == /\ part = "timers" /\ Tim!Next
              /\ UNCHANGED <<part, machine, prog, telemetryVars, collectionVars>>
tablesNext == /\ part = "tables" /\ Tab!Next
              /\ UNCHANGED <<part, machine, prog, telemetryVars, timersVars, vec, vecElems>>
vectorsNext == /\ part = "vectors" /\ Vec!Next
               /\ UNCHANGED <<part, machine, prog, telemetryVars, timersVars, tableKind, table, chains>>
\* The laws are checked at the one step.
valuesNext == /\ part = "values" /\ prog = 0 /\ prog' = 1
              /\ UNCHANGED <<part, machine, telemetryVars, timersVars, collectionVars>>
oneStepEnd == part \in {"values", "syntax"} /\ prog > 0 /\ UNCHANGED vars
\* One style of writing at each step.
syntaxNext == /\ part = "syntax" /\ prog <= 0 /\ prog' = prog + Len(Syntax!Styles)
              /\ UNCHANGED <<part, machine, telemetryVars, timersVars, collectionVars>>

PartsNext == \/ chunksNext \/ chunksEnd \/ programsNext \/ programsEnd \/ namesNext
             \/ namesEnd \/ telemetryNext \/ timersNext \/ tablesNext \/ vectorsNext \/ valuesNext
             \/ syntaxNext \/ oneStepEnd

PartsSpec == PartsInit /\ [][PartsNext]_vars

-----------------------------------------------------------------------------
\* Machine: what the verifier promises of every chunk it accepts.
AcceptedIsSafe == part = "chunks" => VerifiedIsSafe

RunOf(n) ==
    LET c == CompileProgram(Source(n - 1))
        image == FoldSet(LAMBDA f, x : Extend(x, f, c.image[f].chunk), <<>>, DOMAIN c.image)
        end == Execute(Started([image |-> image, mail |-> Mail]))
    IN  [clean |-> ~c.bad /\ ~c.twice /\ \A f \in DOMAIN image : Verify(image[f]),
         log |-> [i \in DOMAIN end.log |-> Plain(end.log[i])],
         outcome |-> IF end.outcome[1] \in {"ok", "raise"}
                     THEN <<end.outcome[1], Plain(end.outcome[2])>> ELSE end.outcome]

CompilesTo(n) ==
    LET is == RunOf(n)
        means == Meaning(Source(n - 1), Mail)
    IN  is.clean /\ is.log = means.log /\ is.outcome = means.outcome

\* Compiler and Machine: the compiler gives only chunks the verifier accepts,
\* and on the machine they print, do and end as the source means: the value or
\* the raise, through the drain of ensures, captures, patterns and receives.
MeansTheSame == [][part = "programs" => CompilesTo(prog')]_prog

\* Telemetry: while events wait there is a service actor awake for them; no handler,
\* by failing, detaching or attaching, costs another one its event; a death costs
\* only what the dead actor was delivering: what waits goes to the next service
\* actor, in order.
DeliveryGoesOn ==
    /\ [](part = "telemetry" => Tel!QueueIsServed)
    /\ [][part = "telemetry" => Tel!DeliveryStep /\ Tel!QueueStep]_vars

\* Timers: the heap is in order and knows its places, and it implements the queue
\* of TimerQueue (Tim!ServesInOrder): each timer that is due is served once, in
\* the order of deadline and arming.
ServesInOrder ==
    /\ [](part = "timers" => Tim!HeapHolds)
    /\ part = "timers" => Tim!Q!Init
    /\ [][part = "timers" => Tim!Q!Next \/ UNCHANGED Tim!Q!vars]_vars

\* Hamt and VectorTrie: whatever the order of the operations, a table or vector
\* holds what was put, has the one shape of its contents, and skipping what two
\* versions share changes no comparison.
CollectionsHold ==
    /\ [](part = "tables" => Tab!TableHolds)
    /\ [](part = "vectors" => Vec!VectorHolds)
    /\ [][part = "vectors" => Vec!SharingStep]_vars

\* Values: equal keys have one hash, the order is an order that agrees with
\* equality, the quick paths agree with the slow ones, and no Int overflows.
ValueLaws == [][part = "values" => Values!Laws]_prog

\* Format, Layout and Parser: every program, in the form the formatter gives it
\* or another that means the same, reads back as the tree that was written; no
\* layout of its lines, brackets and blocks changes what it says.
ReadsBack == [][part = "syntax" => Syntax!RoundTrip(Syntax!Styles[prog'])]_prog

\* Names, Modules and Compiler: the names the analysis calls undefined are the
\* ones that would be missing when the program runs; a program it accepts reaches
\* no private function, no module its file does not name and no function of the
\* entry that hides the prelude; the loader gives each module once or fails.
\* Left out, because the two are known to part there: an actor primitive or
\* spawn_behavior as a value, the constructor of a module that is not visible as a
\* value, the last segment of a module that has an alias (KnownToPart); and the
\* misspelled import of a loaded file that declares no name (Misspelled).
NamesAgree == [][part = "names" => Agrees(prog' - 1)]_prog
=============================================================================
