--------------------------- MODULE ModuleSources ----------------------------
(***************************************************************************)
(* Programs for the two implementations of the rules for names: references  *)
(* in nested scopes, and references between the modules of a program of up  *)
(* to four files whose directives name, rename, misspell and lose each      *)
(* other.                                                                   *)
(***************************************************************************)
EXTENDS Names, LanguageSources

-----------------------------------------------------------------------------
(* Scopes: every name some context binds, as a value and as a callee.       *)

ScopeNames == <<<<"y", "k", "r", "m", "o">>, <<"z", "w", "a", "q", "v">>, <<"t", "b", "e", "f", "g">>,
                <<"ev", "x", "nope">>>>
Row(es) == Seq_("LIST", es)
EveryName ==
    Row([i \in DOMAIN ScopeNames |-> Row([j \in DOMAIN ScopeNames[i] |-> V(ScopeNames[i][j])])]
        \o <<Row(<<Cal("y", <<>>), Cal("g", <<>>), Cal("od", <<>>), Cal("nope", <<>>)>>)>>)
ScopeProgram(n) ==
    LET inner == Contexts(EveryName)[(n % NumContexts) + 1]
    IN  Program(Contexts(inner)[(n \div NumContexts) + 1])

-----------------------------------------------------------------------------
(* Modules. *)

Main == <<Cap(<<"m">>)>>
Ab == <<Cap(<<"a", "b">>)>>
AB == <<AllCaps(<<"a", "b">>)>>
HC == <<Cap(<<"h">>), Cap(<<"c">>)>>
C == <<Cap(<<"c">>)>>
KkL == <<Cap(<<"k", "k">>) \o Cap(<<"l">>)>>
X_ == <<Cap(<<"x">>)>>
Nowhere == <<Cap(<<"z">>)>>

Import(m) == [of |-> m, as |-> <<>>]
Alias(m, as) == [of |-> m, as |-> as]
PubFn(n, ps, e) == [n |-> n, pub |-> TRUE, cls |-> <<Cl(ps, NoExpr, <<Ex(e)>>)>>]
PrivFn(n, ps, e) == [PubFn(n, ps, e) EXCEPT !.pub = FALSE]
Ctor(n, arity) == [n |-> n, arity |-> arity, type |-> "T"]

\* The entry hides two names of the prelude.
MainFile(dirs, e) ==
    File(Main, dirs, <<Ctor("Red", 0)>>,
         <<PubFn("main", <<>>, e), PrivFn("p", <<>>, N(1)), PubFn("to_str", <<PId("x")>>, V("x")),
           PrivFn("say", <<PId("x")>>, N(1)), PubFn("self", <<>>, N(1))>>)
AbFile(declared, dirs, e) ==
    File(declared, dirs, <<Ctor("Red", 0), Ctor("Box", 1)>>,
         <<PubFn("f", <<>>, e), PrivFn("p", <<>>, N(1)), PubFn("id", <<PId("x"), PRest("r")>>, V("x"))>>)
HCFile ==
    File(HC, <<Import(Ab)>>, <<Ctor("Box", 1)>>,
         <<PubFn("f", <<>>, [t |-> "call", f |-> [t |-> "path", m |-> Ab, n |-> "f"], es |-> <<>>]),
           PrivFn("p", <<PId("x")>>, V("x"))>>)
KkLFile == File(<<>>, <<>>, <<>>, <<PubFn("f", <<>>, N(1))>>)

Directives == <<
    <<>>, <<Import(Ab)>>, <<Import(HC)>>, <<Alias(Ab, X_)>>, <<Alias(HC, X_)>>,
    <<Import(HC), Alias(Ab, X_)>>, <<Alias(Ab, C), Import(HC)>>, <<Import(AB)>>,
    <<Import(Ab), Import(AB)>>, <<Import(Nowhere)>>, <<Alias(ListModule, X_)>>, <<Import(Main)>>,
    <<Import(KkL), Import(Ab)>> >>
AbDirectives == <<<<Import(HC)>>, <<Import(Main)>>, <<>>>>

Files(main, ab, hc) ==
    (ModulePath(Main) :> main) @@ (ModulePath(Ab) :> ab) @@ (ModulePath(HC) :> hc)
    @@ (ModulePath(KkL) :> KkLFile)

-----------------------------------------------------------------------------
(* Graphs: files that are missing, broken or declare another name.          *)

Absent == [absent |-> TRUE]
AbFiles(dirs) == <<AbFile(Ab, dirs, N(1)), AbFile(<<>>, dirs, N(1)), AbFile(HC, dirs, N(1)), Broken, Absent>>
HCFiles == <<HCFile, Broken, Absent>>
NumGraphs == 13 * 3 * 5 * 3
GraphFiles(n) ==
    LET files == Files(MainFile(Directives[(n % 13) + 1], N(1)),
                       AbFiles(AbDirectives[((n \div 13) % 3) + 1])[((n \div 39) % 5) + 1],
                       HCFiles[(n \div 195) + 1])
    IN  [p \in {q \in DOMAIN files : files[q] # Absent} |-> files[p]]

\* A misspelled import of a file that is loaded and declares no name passes.
Misspelled(n) == n % 13 = 8 /\ (n \div 39) % 5 = 1

\* The paths directives lead to from the entry, in as many steps as files.
Reached(files) ==
    LET Next_(ps) == ps \cup {p \in DOMAIN files : \E q \in {x \in ps : files[x] # Broken} :
                          \E k \in DOMAIN files[q].dirs :
                             ~IsBuiltin(files[q].dirs[k].of) /\ ModulePath(files[q].dirs[k].of) = p}
        reach[k \in 0 .. Cardinality(DOMAIN files)] ==
          IF k = 0 THEN {ModulePath(Main)} ELSE Next_(reach[k - 1])
    IN  reach[Cardinality(DOMAIN files)]

\* The file of a name is there, can be read and says the name or none.
Found(files, name) ==
    LET path == ModulePath(name)
    IN  IsBuiltin(name) \/ /\ PathName(path) = name /\ path \in DOMAIN files
                           /\ files[path] # Broken /\ files[path].declared \in {<<>>, name}

\* The loader gives each file behind the entry once and under its name, or
\* fails where a directive of one of them does not find its module.
LoadsItsGraph(n) ==
    LET files == GraphFiles(n)
        g == LoadFrom(files, ModulePath(Main))
        reached == Reached(files)
        whole == \A p \in reached : /\ files[p] # Broken
                                    /\ \A k \in DOMAIN files[p].dirs : Found(files, files[p].dirs[k].of)
    IN  ~Misspelled(n) =>
          /\ g.err = "" <=> whole
          /\ g.err = "" => /\ {g.mods[i].path : i \in DOMAIN g.mods} = reached
                           /\ Len(g.mods) = Cardinality(reached)
                           /\ \A i \in DOMAIN g.mods : ModulePath(g.mods[i].name) = g.mods[i].path

-----------------------------------------------------------------------------
(* References. *)

Modules_ == <<Ab, HC, C, KkL, X_, Main, MapModule, ListModule, Prelude, Nowhere>>
FnNames == <<"f", "p", "id", "to_str", "say", "self", "spawn_behavior", "get", "take", "go", "nope",
             "Red", "Box">>
Path(m, n) == [t |-> "path", m |-> m, n |-> n]
Forms(f) == <<f, CallE(f, <<>>), CallE(f, <<N(1)>>), [t |-> "pipe", l |-> N(1), f |-> f, es |-> <<>>]>>
References ==
    FlattenSeq([i \in DOMAIN FnNames |-> Forms(V(FnNames[i]))
        \o FlattenSeq([j \in DOMAIN Modules_ |-> Forms(Path(Modules_[j], FnNames[i]))])])
    \o [j \in DOMAIN Modules_ |-> [t |-> "module", m |-> Modules_[j]]]
    \o <<[t |-> "interp", parts |-> <<<<<<"text", "a">>>>, <<>>>>, es |-> <<N(1)>>]>>

\* The reference stands in Main, or in Ab behind Main.
NumRefs == Len(References)
NumReferences == NumRefs * (Len(Directives) + 2 * Len(AbDirectives))
InMain(n) == n \div NumRefs < Len(Directives)
RefAt(n) == References[(n % NumRefs) + 1]
DirsAt(n) ==
    LET k == n \div NumRefs
    IN  IF InMain(n) THEN Directives[k + 1] ELSE AbDirectives[((k - Len(Directives)) \div 2) + 1]
ReferenceFiles(n) ==
    IF InMain(n) THEN Files(MainFile(DirsAt(n), RefAt(n)), AbFile(Ab, <<Import(HC)>>, N(1)), HCFile)
    ELSE Files(MainFile(<<Import(Ab)>>, N(1)),
               AbFile(IF n % 2 = 0 THEN Ab ELSE <<>>, DirsAt(n), RefAt(n)), HCFile)

\* Where the two are known to part: an actor primitive or spawn_behavior as a
\* value, the constructor of a module that is not visible as a value, the last
\* segment of a module that has an alias.
KnownToPart(n) ==
    LET ref == RefAt(n)
        locals == DeclareModule([name |-> Main, file |-> MainFile(DirsAt(n), N(1))], <<>>).locals
        path == IF ref.t \in {"call", "pipe"} THEN ref.f ELSE ref
    IN  \/ ref.t = "var" /\ ref.n \in {"self", "spawn_behavior"}
        \/ ref.t = "path" /\ IsConstructor(ref.n) /\ ref.m \notin DOMAIN locals
        \/ path.t = "path" /\ path.m = C /\ DirsAt(n) = <<Alias(HC, X_)>>

-----------------------------------------------------------------------------
(* What must agree. *)

RECURSIVE GlobalsOf(_)
GlobalsOf(chunk) ==
    {chunk.code[k].k : k \in {j \in DOMAIN chunk.code : chunk.code[j].op = "GETGLOBAL"}}
    \cup UNION {GlobalsOf(chunk.code[k].k[3]) : k \in
           {j \in DOMAIN chunk.code : chunk.code[j].op = "LOADK" /\ chunk.code[j].k[1] = "func"}}

Qualified(m, names) == {<<Key(m), n>> : n \in names}
PublicGlobals ==
    {<<n>> : n \in DOMAIN Natives} \cup UNION {Qualified(m, DOMAIN ModBuiltins[m] \ DOMAIN ActorOps) : m \in NativeModules}
    \cup UNION {Qualified(m, DOMAIN StdlibWorld[m].sigs \ StdlibWorld[m].priv) : m \in StdlibModules}
PrivateGlobals == UNION {Qualified(m, StdlibWorld[m].priv) : m \in StdlibModules}

UsedBy(c, f) == GlobalsOf(c.image[f].chunk)
Unresolved(c) ==
    UNION {UsedBy(c, f) : f \in DOMAIN c.image} \ (DOMAIN c.image \cup PublicGlobals \cup PrivateGlobals)
NamesIn(errs, kinds) == {x[2] : x \in {y \in errs : y[1] \in kinds}}
UndefinedIn(errs) == NamesIn(errs, {"undefined name", "undefined function", "module value"})

\* What fails when it runs is what was told before: each name the image does
\* not know is an error, and each unknown name but a constructor's is in it.
SameUndefined(c, errs) ==
    LET unknown == {Last(g) : g \in Unresolved(c)}
    IN  /\ unknown \subseteq {x[2] : x \in errs}
        /\ {n \in UndefinedIn(errs) : ~IsConstructor(n)} \subseteq unknown

\* The module of a function of the image, by the prefix of its name.
OwnerOf(mods, f) == Max({1} \cup {i \in 2 .. Len(mods) : f[1] = Key(mods[i].name)})
GlobalName(mods, j, n) == IF j = 1 THEN <<n>> ELSE <<Key(mods[j].name), n>>

\* A global the i-th module may use: its own function, a public function of a
\* module its directives name, or of a built-in one; a bare name is never a
\* function of the entry that hides the prelude.
MayUse(mods, i, g) ==
    LET dirs == mods[i].file.dirs
        fns(j) == {mods[j].file.fns[k].n : k \in DOMAIN mods[j].file.fns}
        Of(j) == IF j = i THEN fns(j)
                 ELSE IF \E k \in DOMAIN dirs : dirs[k].of = mods[j].name
                 THEN fns(j) \ PrivateFns(mods[j].file) ELSE {}
        hidden == IF i = 1 THEN {} ELSE {<<n>> : n \in fns(1)}
    IN  \/ \E j \in DOMAIN mods : g \in {GlobalName(mods, j, n) : n \in Of(j)}
        \/ g \in PublicGlobals \ hidden

ScopesAgree(n) ==
    LET fns == ScopeProgram(n)
        file == File(<<>>, <<>>, <<>>, [i \in DOMAIN fns |-> fns[i] @@ [pub |-> FALSE]])
        mods == <<[name |-> <<>>, file |-> file]>>
    IN  SameUndefined(CompileModules(mods), CheckNames(mods, 1))

CompilerOnly == {"clash", "unknown constructor", "actor primitive as a value"}
ReferencesAgree(n) ==
    LET mods == LoadFrom(ReferenceFiles(n), ModulePath(Main)).mods
        c == CompileModules(mods)
        errs == UNION {CheckNames(mods, i) : i \in DOMAIN mods}
    IN  LoadFrom(ReferenceFiles(n), ModulePath(Main)).err = "" /\ ~KnownToPart(n) =>
          IF c.err # "" THEN errs # {} \/ c.err \in CompilerOnly
          ELSE /\ SameUndefined(c, errs)
               /\ errs = {} => \A f \in DOMAIN c.image : \A g \in UsedBy(c, f) :
                                  MayUse(mods, OwnerOf(mods, f), g)

NumPrograms == NumContexts * NumContexts + NumGraphs + NumReferences
Agrees(n) ==
    LET k == n - NumContexts * NumContexts
    IN  IF k < 0 THEN ScopesAgree(n)
        ELSE IF k < NumGraphs THEN LoadsItsGraph(k) ELSE ReferencesAgree(k - NumGraphs)
=============================================================================
