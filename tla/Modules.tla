------------------------------ MODULE Modules -------------------------------
(***************************************************************************)
(* The modules of a program: the names of modules and the paths of their    *)
(* files, the graph the loader builds from an entry file                    *)
(* (internal/loader), and what the compiler keeps of each module            *)
(* (compiler/module.go).                                                    *)
(*                                                                          *)
(* A module name is a sequence of segments, a segment a sequence of letters *)
(* with their case, a path a sequence of segments of small letters.  A file *)
(* is [declared, dirs, types, fns]: the name it declares (<<>> for none),   *)
(* its import and alias directives [of, as] (as = <<>> for an import), the  *)
(* constructors [n, arity, type] of its types and its functions             *)
(* [n, pub, cls].  files maps paths to files, or to Broken.                 *)
(***************************************************************************)
EXTENDS Naturals, SequencesExt, TLC

Cap(cs) == [i \in DOMAIN cs |-> [c |-> cs[i], up |-> i = 1]]
AllCaps(cs) == [i \in DOMAIN cs |-> [c |-> cs[i], up |-> TRUE]]
Key(name) == ToString(name)

MapModule == <<Cap(<<"m", "a", "p">>)>>
Prelude == <<Cap(<<"p", "r", "e", "l", "u", "d", "e">>)>>
ListModule == <<Cap(<<"l", "i", "s", "t">>)>>
Behavior == <<Cap(<<"b", "e", "h", "a", "v", "i", "o", "r">>)>>
NativeModules == {MapModule, Prelude}
StdlibModules == {ListModule, Behavior}
IsBuiltin(name) == name \in NativeModules \cup StdlibModules

\* modulePath: small letters, with _ where a capital follows a small letter.
SegmentPath(s) ==
    FlattenSeq([j \in DOMAIN s |->
        IF s[j].up /\ j > 1 /\ ~s[j - 1].up /\ s[j - 1].c # "_" THEN <<"_", s[j].c>> ELSE <<s[j].c>>])
ModulePath(name) == [i \in DOMAIN name |-> SegmentPath(name[i])]

\* pathName: the words between _ with a capital each.
PathSegment(p) ==
    LET at == SelectSeq([j \in DOMAIN p |-> j], LAMBDA j : p[j] # "_")
    IN  [i \in DOMAIN at |-> [c |-> p[at[i]], up |-> at[i] = 1 \/ p[at[i] - 1] = "_"]]
PathName(path) == [i \in DOMAIN path |-> PathSegment(path[i])]

-----------------------------------------------------------------------------
(* The graph: mods in the order of loading, each [path, name, file]. *)

Broken == [broken |-> TRUE]
Graph(mods) == [mods |-> mods, err |-> ""]
Add(g, path, name, file) ==
    [g EXCEPT !.mods = Append(@, [path |-> path, name |-> name, file |-> file])]
Wrong(g, err) == [g EXCEPT !.err = err]

RECURSIVE LoadImports(_, _, _)

\* A module already loaded is not loaded again; the name must give the path
\* back, and a declared name must be the name it is found by.
ResolveFile(files, g, name) ==
    LET path == ModulePath(name)
        known == SelectInSeq(g.mods, LAMBDA m : m.path = path)
        file == files[path]
        declares == Wrong(g, "file declares another module")
    IN  CASE IsBuiltin(name) -> g
          [] known # 0 -> IF g.mods[known].file.declared \in {<<>>, name} THEN g ELSE declares
          [] PathName(path) # name \/ path \notin DOMAIN files -> Wrong(g, "module not found")
          [] file = Broken -> Wrong(g, "parse")
          [] file.declared \notin {<<>>, name} -> declares
          [] OTHER -> LoadImports(files, Add(g, path, name, file), file.dirs)

LoadImports(files, g, dirs) ==
    FoldLeft(LAMBDA x, d : IF x.err # "" THEN x ELSE ResolveFile(files, x, d.of), g, dirs)

\* LoadFrom: the entry file may declare any name.
LoadFrom(files, entry) ==
    LET file == files[entry]
        name == IF file.declared = <<>> THEN PathName(<<Last(entry)>>) ELSE file.declared
    IN  IF file = Broken THEN Wrong(Graph(<<>>), "parse")
        ELSE LoadImports(files, Add(Graph(<<>>), entry, name, file), file.dirs)

-----------------------------------------------------------------------------
(* What the compiler keeps of a module. *)

\* addLocal: one local name for two modules is an error.
AddLocal(m, local, full) ==
    IF local \in DOMAIN m.locals /\ m.locals[local] # full THEN [m EXCEPT !.clash = TRUE]
    ELSE [m EXCEPT !.locals = (local :> full) @@ @]

DeclareDirective(m, d) ==
    LET x == AddLocal(m, IF d.as = <<>> THEN d.of ELSE d.as, d.of)
    IN  AddLocal(x, IF d.as = <<>> THEN <<Last(d.of)>> ELSE d.of, d.of)

\* declareCtors: a constructor of arity 0 is a value, another one a function.
DeclareCtor(m, v) ==
    IF v.n \in DOMAIN m.ctors THEN [m EXCEPT !.clash = TRUE]
    ELSE [m EXCEPT !.ctors = (v.n :> <<"ctor", Append(m.prefix, v.type), v.n>>) @@ @]

\* newModule and declareModule; the prefix of the entry module is empty.
DeclareModule(mod, prefix) ==
    LET m == [name |-> mod.name, prefix |-> prefix, ctors |-> <<>>, locals |-> <<>>,
              fns |-> {mod.file.fns[i].n : i \in DOMAIN mod.file.fns}, clash |-> FALSE]
    IN  FoldLeft(DeclareCtor, FoldLeft(DeclareDirective, m, mod.file.dirs), mod.file.types)

\* declareProgram: of two modules of one name the later one has the name.
DeclareProgram(mods) ==
    [i \in DOMAIN mods |-> DeclareModule(mods[i], IF i = 1 THEN <<>> ELSE <<Key(mods[i].name)>>)]
Named(all, name) ==
    LET at == {i \in DOMAIN all : all[i].name = name}
    IN  all[CHOOSE i \in at : \A j \in at : j <= i]
HasModule(all, name) == \E i \in DOMAIN all : all[i].name = name

\* resolveModule: the directives of the file, then the built-in modules; what
\* the reference gives is the prefix of the functions' global names.
ModRef(known, builtin, ctors, prefix) ==
    [known |-> known, builtin |-> builtin, ctors |-> ctors, prefix |-> prefix]
ResolveModule(all, cur, name) ==
    LET full == IF name \in DOMAIN cur.locals THEN cur.locals[name] ELSE name
        own == HasModule(all, full)
    IN  CASE name \notin DOMAIN cur.locals /\ ~IsBuiltin(name) ->
               ModRef(FALSE, FALSE, <<>>, <<Key(name)>>)
          [] full \in NativeModules \/ (full \in StdlibModules /\ ~own) ->
               ModRef(TRUE, TRUE, <<>>, <<Key(full)>>)
          [] own -> ModRef(TRUE, FALSE, Named(all, full).ctors, Named(all, full).prefix)
          [] OTHER -> ModRef(TRUE, FALSE, <<>>, <<Key(full)>>)
=============================================================================
