-------------------------------- MODULE Reload --------------------------------
(* repl/modules.go: modules loaded into a session of the REPL, and replaced by *)
(* recompile() under the actors that run them, while an editor writes their    *)
(* files.  A call of load or recompile reads, compares and compiles in several *)
(* steps of its goroutine; the functions are swapped in one step of the loop.  *)
(* A file is its module, and what it says is one of Texts.                     *)
EXTENDS Naturals, FiniteSets, Functions

CONSTANTS Files, Texts,
          Text(_, _),       \* [ok, imports, funs, locals, uses] of a file
          Aliases,          \* names for alias, none of them a module
          MaxEdits, MaxHeld, MaxLoads    \* bounds

ASSUME ReloadAssumption == Files \cap Aliases = {} /\ MaxEdits \in Nat

VARIABLES disk,             \* the text of each file
          loaded,           \* Session.mods: original file, sum, globals of each name
          roots,            \* Session.roots
          generation,       \* Session.gen
          cells,            \* the globals of the VM: the code under each name
          held,             \* codes in frames and function values
          load,             \* the call under way, NoCall if none
          edits, loads,     \* bounds
          told,             \* history: edits when the last call, a recompile that succeeded, began
          torn              \* history: files compiled from a text that was written over before
                            \* their sum was taken, which records what was never compiled

codeVars == <<disk, loaded, roots, generation, cells, held, load, edits, loads, told, torn>>
sessionVars == <<loaded, roots, generation, cells>>
historyVars == <<edits, loads, told, torn>>

\* A function of a module is Name(m, f, 0); its local functions, lifted out of
\* it, carry the generation in which they were compiled.
Name(m, f, g) == [mod |-> m, fun |-> f, gen |-> g]
Lifted(n) == n.gen > 0

NoCall == [phase |-> "none"]
Never == MaxEdits + 1

CodeInit ==
    /\ disk \in [Files -> Texts]
    /\ loaded = <<>> /\ roots = {} /\ generation = 0 /\ cells = <<>>
    /\ held = {} /\ load = NoCall
    /\ edits = 0 /\ loads = 0 /\ told = Never /\ torn = {}

\* ---- the loader ----

\* loadGraphs and mergeGraphs: the files S and what they import, as deep as it
\* goes; the smallest set of files that holds S and what its members import.
Closed(C) == \A m \in C : Text(m, disk[m]).imports \cap Files \subseteq C
Graph(S) == {m \in Files : \A C \in SUBSET Files : S \subseteq C /\ Closed(C) => m \in C}

\* The loader fails on a file it cannot parse (and as Modules says).
GraphFails(S) == \E m \in Graph(S) : ~Text(m, disk[m]).ok

\* ---- install ----

\* CheckNamesSession: a name of another module that no text defines.
Undefined(world) ==
    \E m \in DOMAIN world : \E u \in Text(m, world[m]).uses :
        u[1] \notin DOMAIN world \/ u[2] \notin Text(u[1], world[u[1]]).funs

\* Mutant of Generation: SetGeneration is not called.
GenerationOne == 1
Generation == generation + 1

\* What a text defines: its functions, and the local functions of those that
\* have some.
Names(m, text) == {Name(m, f, 0) : f \in Text(m, text).funs}
                  \cup {Name(m, f, Generation) : f \in Text(m, text).locals}
Compiled(n, text) == [mod |-> n.mod, fun |-> n.fun, text |-> text, gen |-> Generation]

\* The functions of the modules that are installed, out of what was read.
Defs(install, world) ==
    [n \in UNION {Names(m, world[m]) : m \in install} |-> Compiled(n, world[n.mod])]

\* The names of the old version that go: those of frames of that version stay.
Undef(m, defs) ==
    IF m \notin DOMAIN loaded THEN {}
    ELSE {n \in loaded[m].globals : n \notin DOMAIN defs /\ ~Lifted(n)}

Globals(m, defs) ==
    {n \in DOMAIN defs : n.mod = m}
    \cup IF m \in DOMAIN loaded THEN {n \in loaded[m].globals : Lifted(n)} ELSE {}

\* A map after the entries of new are put in it (new @@ old of module TLC).
Put(new, old) ==
    [x \in DOMAIN new \cup DOMAIN old |-> IF x \in DOMAIN new THEN new[x] ELSE old[x]]

\* applyGlobals, in one step of the loop: undefined first.
Apply(undef, defs) == Put(defs, Restrict(cells, DOMAIN cells \ undef))

\* ---- load and recompile ----

BeginCall(op, graph, install, root) ==
    /\ load = NoCall /\ loads < MaxLoads
    /\ load' = [phase |-> "read", op |-> op, began |-> edits, world |-> Restrict(disk, graph),
                install |-> install, root |-> root, sums |-> <<>>]
    /\ loads' = loads + 1
    /\ UNCHANGED <<disk, sessionVars, held, edits, told, torn>>

\* loadModulesAs: the graph of the file, then those of the roots; the modules
\* not yet loaded are to be installed.  A file that fails leaves all as it was.
LoadModules(m) ==
    /\ ~GraphFails({m} \cup roots)
    /\ Graph({m}) \ DOMAIN loaded # {}
    /\ BeginCall("load", Graph({m} \cup roots), Graph({m}) \ DOMAIN loaded, {m})

\* modulesChanged, for aliases too.
Changed == \E n \in DOMAIN loaded : disk[loaded[n].file] # loaded[n].sum

\* recompile: nothing has changed, or the graphs of the roots are read again.
Recompile ==
    \/ /\ load = NoCall /\ loads < MaxLoads /\ loads' = loads + 1
       /\ loaded # <<>> /\ ~Changed /\ told' = edits
       /\ UNCHANGED <<disk, sessionVars, held, load, edits, torn>>
    \/ /\ Changed /\ ~GraphFails(roots)
       /\ BeginCall("recompile", Graph(roots), {}, {})

\* The sums of the files are taken now, not of what was read.
ToInstall(world) ==
    {m \in DOMAIN world : m \notin DOMAIN loaded \/ disk[m] # loaded[m].sum}

Ends == load' = NoCall

\* recompile compares, and install checks and compiles what was read.
Check ==
    /\ load.phase = "read"
    /\ LET install == IF load.op = "load" THEN load.install ELSE ToInstall(load.world)
       IN  IF install = {}
           THEN Ends /\ told' = load.began
           ELSE /\ IF Undefined(load.world) THEN Ends
                   ELSE load' = [load EXCEPT !.phase = "compiled", !.install = install]
                /\ UNCHANGED told
    /\ UNCHANGED <<disk, sessionVars, held, edits, loads, torn>>

\* install takes the sums of the files it installs.
Stat ==
    /\ load.phase = "compiled"
    /\ load' = [load EXCEPT !.phase = "summed", !.sums = Restrict(disk, load.install)]
    /\ UNCHANGED <<disk, sessionVars, held, historyVars>>

\* SessionRedefine, RedefineHere, and the records of the session after it.
Install ==
    /\ load.phase = "summed"
    /\ LET defs == Defs(load.install, load.world)
           undef == UNION {Undef(m, defs) : m \in load.install}
           records == [m \in load.install |->
                          [file |-> m, sum |-> load.sums[m], globals |-> Globals(m, defs)]]
       IN  /\ cells' = Apply(undef, defs)
           /\ loaded' = Put(records, loaded)
    /\ generation' = generation + 1
    /\ roots' = roots \cup load.root
    /\ told' = IF load.op = "recompile" THEN load.began ELSE Never
    /\ torn' = (torn \ load.install)
               \cup {m \in load.install : load.sums[m] # load.world[m]}
    /\ Ends
    /\ UNCHANGED <<disk, held, edits, loads>>

\* aliasModule: the functions of m under another name, once m is loaded.
AliasModule(m, a) ==
    /\ load = NoCall /\ m \in DOMAIN loaded /\ m \in Files
    /\ LET names == {n \in loaded[m].globals : n.mod = m}
           under == [n \in {Name(a, x.fun, x.gen) : x \in names} |-> cells[Name(m, n.fun, n.gen)]]
           record == [x \in {a} |-> [loaded[m] EXCEPT !.globals = DOMAIN under]]
       IN  /\ cells' = Put(under, cells)
           /\ loaded' = Put(record, loaded)
    /\ UNCHANGED <<disk, roots, generation, held, load, historyVars>>

\* ---- around it ----

\* GETGLOBAL: an actor calls a function by its name, or keeps it as a value.
Get(n) ==
    /\ ~Lifted(n) /\ Cardinality(held) < MaxHeld
    /\ held' = held \cup {cells[n]}
    /\ UNCHANGED <<disk, sessionVars, load, historyVars>>

Return(c) ==
    /\ held' = held \ {c}
    /\ UNCHANGED <<disk, sessionVars, load, historyVars>>

\* The user saves a file.
Edit(m) ==
    /\ edits < MaxEdits /\ edits' = edits + 1
    /\ \E t \in Texts \ {disk[m]} : disk' = [disk EXCEPT ![m] = t]
    /\ UNCHANGED <<sessionVars, held, load, loads, told, torn>>

CodeNext == \/ \E m \in Files : LoadModules(m) \/ Edit(m)
            \/ Recompile \/ Check \/ Stat \/ Install
            \/ \E m \in Files, a \in Aliases : AliasModule(m, a)
            \/ \E n \in DOMAIN cells : Get(n)
            \/ \E c \in held : Return(c)

CodeSpec == CodeInit /\ [][CodeNext]_codeVars
-----------------------------------------------------------------------------
FunctionsOf(m) == {n \in DOMAIN cells : n.mod = m /\ ~Lifted(n)}

\* What an actor finds under a module's name are the functions of one text of
\* it, all of them and no other.
OneText ==
    \A m \in DOMAIN loaded \cap Files : \E t \in Texts :
        /\ {n.fun : n \in FunctionsOf(m)} = Text(m, t).funs
        /\ \A n \in FunctionsOf(m) : cells[n].text = t

\* Under the name of an alias stand the functions of one text of its module, all
\* of them: the one the session had when alias was called, since no recompile
\* renews an alias.
AliasesOneText ==
    \A a \in DOMAIN loaded \ Files : \E t \in Texts :
        LET m == loaded[a].file
            named == {n \in loaded[a].globals : ~Lifted(n)}
        IN  /\ {n.fun : n \in named} = Text(m, t).funs
            /\ \A n \in named : /\ n.mod = a /\ n \in DOMAIN cells
                                /\ cells[n].mod = m /\ cells[n].text = t

\* A frame or function value of an older text still finds its own local functions.
OldCodeRuns ==
    \A c \in held : c.fun \in Text(c.mod, c.text).locals =>
        LET n == Name(c.mod, c.fun, c.gen)
        IN  n \in DOMAIN cells /\ cells[n].text = c.text

\* A recompile that succeeded, with or without changes, leaves the text of the
\* disk under the name of every module the roots reach, as long as nobody edits
\* or loads again, but for the files in torn: their records say they are new.
\* Aliases keep what they have.
RecompileIsTrue ==
    told = edits =>
        /\ \A m \in (Graph(roots) \cap DOMAIN loaded) \ torn :
               \A n \in FunctionsOf(m) : cells[n].text = disk[m]
        /\ torn \cap Graph(roots) = {} => Graph(roots) \subseteq DOMAIN loaded

\* Whatever order loads, recompiles, aliases and edits come in, actors find one
\* text of each module, whole, under its own name and under an alias; code of an
\* older text still runs; and a recompile that succeeded has left no old text
\* under the name of a module the roots reach, unless its file was written over
\* between read and sum.
CodeIsWhole == OneText /\ AliasesOneText /\ OldCodeRuns /\ RecompileIsTrue
===============================================================================
