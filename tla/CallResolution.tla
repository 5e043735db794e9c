--------------------------- MODULE CallResolution ---------------------------
(***************************************************************************)
(* From source files to call edges (backend/repository/analyze.py and      *)
(* resolve_v2.py), as operators: which files are looked at, what their     *)
(* statements and declarations bind and which file an                      *)
(* import names, what a call refers to, and which calls become edges.      *)
(*                                                                         *)
(* A program maps a file to [defs, imports, reexports, types, calls].  A   *)
(* definition is [name, owner, within, class, bases]: owner is the class   *)
(* it is a member of, within the owner and name of the function around it, *)
(* "" and <<>> for none.  An import is [kind, file, name] under the local  *)
(* name it binds, a type belongs to a scope and a variable, and a call is  *)
(* [kind, name, recv, scope], the scope being the keys of the definitions  *)
(* around it, the innermost first.  Parsing is the parser's.               *)
(***************************************************************************)
EXTENDS Naturals, Sequences, FiniteSets, SequencesExt, FiniteSetsExt

MaxChain == 6           \* _MAX_CHAIN
Module   == "<module>"

\* _discover: sources and other files are counted apart; sources come first.
Discover(paths, parsed, maxSources, maxOthers) ==
  LET Cut(s, n) == SubSeq(s, 1, IF Len(s) < n THEN Len(s) ELSE n)
      sources == Cut(SelectSeq(paths, LAMBDA p : p \in parsed), maxSources)
      others  == Cut(SelectSeq(paths, LAMBDA p : p \notin parsed), maxOthers)
  IN  [files |-> sources, all |-> sources \o others]

-----------------------------------------------------------------------------
(* Imports.  A path is a sequence of folders and, last, of the parts of a  *)
(* name between its dots: <<"pkg", <<"user", "ts">>>>.                     *)

Extensions == <<"ts", "tsx", "js", "jsx", "mjs", "py">>

\* Path.with_suffix: the last part goes if there is one to replace.
WithSuffix(name, ext) == Append(IF Len(name) > 1 THEN Front(name) ELSE name, ext)

\* The spelling itself, then a file before a folder, language by language.
Candidates(name) ==
  << <<name>> >>
  \o FoldLeft(LAMBDA cs, e : cs \o << <<WithSuffix(name, e)>>, <<name, <<"index", e>>>>, <<name, <<"__init__", e>>>> >>, <<>>, Extensions)

\* The repository's own folder has no name to put a suffix to.
PathsIn(folder, names) == [i \in DOMAIN names |-> folder \o names[i]]
Places(path) ==
  IF path = <<>> THEN FoldLeft(LAMBDA cs, e : cs \o << << <<"index", e>> >>, << <<"__init__", e>> >> >>, <<>>, Extensions)
  ELSE PathsIn(Front(path), Candidates(Last(path)))

\* _resolve_relative: the first candidate that is a file of the repository.
FirstOf(s) == IF s = <<>> THEN <<>> ELSE s[1]
ResolvedImport(path, files) == FirstOf(SelectSeq(Places(path), LAMBDA c : c \in files))

\* A path seen from a folder, so many folders up; nothing lies outside.
Beside(dir, up, path, files) ==
  IF up > Len(dir) THEN <<>> ELSE ResolvedImport(SubSeq(dir, 1, Len(dir) - up) \o path, files)

\* What a statement binds: local names to symbols of a file or to whole files.
\*   [form |-> "from", level, module, names]    names of [name, local], level dots
\*   [form |-> "import", names]                 names of [path, local], "" without one
\*   [form |-> "ts", relative, up, path, default, space, names]   and "reexport" alike
Sym(file, name) == [kind |-> "sym", file |-> file, name |-> name]
Mod(file)       == [kind |-> "mod", file |-> file, name |-> ""]
Bind(bs, local, file, what)  == IF file = <<>> \/ local = "" THEN bs ELSE (local :> what) @@ bs
BindModule(bs, local, file)  == Bind(bs, local, file, Mod(file))
BindSymbol(bs, n, file)      == Bind(bs, n.local, file, Sym(file, n.name))

\* _py_module_file
ModuleFile(dir, level, module, files) ==
  IF level = 0 THEN ResolvedImport(module, files) ELSE Beside(dir, level - 1, module, files)

\* A name imported from a module is the file of that name in it, or a symbol of it.
FromBinds(bs, n, whole, sub) ==
  IF sub \notin {whole, <<>>} THEN BindModule(bs, n.local, sub) ELSE BindSymbol(bs, n, whole)
FromBindings(dir, s, files) ==
  LET File(module) == ModuleFile(dir, s.level, module, files)
  IN  FoldLeft(LAMBDA bs, n : FromBinds(bs, n, File(s.module), File(Append(s.module, <<n.name>>))), <<>>, s.names)

\* A dotted import without an alias binds nothing that is followed.
ImportBindings(s, files) ==
  LET Local(n) == IF n.local # "" THEN n.local ELSE IF Len(n.path) = 1 THEN n.path[1][1] ELSE ""
  IN  FoldLeft(LAMBDA bs, n : BindModule(bs, Local(n), ResolvedImport(n.path, files)), <<>>, s.names)

\* Only a relative source is of this repository.
TsSource(dir, s, files) == IF s.relative THEN Beside(dir, s.up, s.path, files) ELSE <<>>
NamedIn(file, names)    == FoldLeft(LAMBDA bs, n : BindSymbol(bs, n, file), <<>>, names)
TsBinds(s, file) ==
  NamedIn(file, s.names) @@ BindModule(Bind(<<>>, s.default, file, Sym(file, "default")), s.space, file)
TsBindings(dir, s, files)  == TsBinds(s, TsSource(dir, s, files))
TsReexports(dir, s, files) == NamedIn(TsSource(dir, s, files), s.names)

\* _py_import_specs and _js_import_specs: the files a statement names; a re-export
\* names none.
Specs(dir, s, files) ==
  CASE s.form = "from"   -> {ModuleFile(dir, s.level, s.module, files)}
    [] s.form = "import" -> { ResolvedImport(n.path, files) : n \in ToSet(s.names) }
    [] s.form = "ts"     -> {TsSource(dir, s, files)}
    [] OTHER             -> {}
\* The import edges a statement of a file makes.
ImportEdges(file, s, files) == { <<file, to>> : to \in Specs(Front(file), s, files) \ {<<>>, file} }

\* What a statement of a file binds in it.
Bindings(file, s, files) ==
  CASE s.form = "from"   -> FromBindings(Front(file), s, files)
    [] s.form = "import" -> ImportBindings(s, files)
    [] s.form = "ts"     -> TsBindings(Front(file), s, files)
    [] OTHER             -> <<>>

-----------------------------------------------------------------------------
(* Names.  A key is <<file, owner, name>>: a nested function has the key   *)
(* of a top-level one of its name.  An answer is a sequence of one key or  *)
(* none.                                                                   *)

KeyOf(f, d) == <<f, d.owner, d.name>>

\* The one answer, or else the other.
Else(answer, other) == IF answer # <<>> THEN answer ELSE other

KeyOfFirst(f, defs)   == IF defs = <<>> THEN <<>> ELSE <<KeyOf(f, defs[1])>>
FirstKey(p, f, Is(_)) == KeyOfFirst(f, SelectSeq(p[f].defs, Is))

Top(p, f, name)      == FirstKey(p, f, LAMBDA d : d.name = name /\ d.owner = "" /\ d.within = <<>>)
NestedIn(p, key, name) == FirstKey(p, key[1], LAMBDA d : d.name = name /\ d.owner = "" /\ d.within = <<key[2], key[3]>>)
Own(p, class, name)  == IF class[2] # "" THEN <<>>
                        ELSE FirstKey(p, class[1], LAMBDA d : d.name = name /\ d.owner = class[3] /\ d.within = <<>>)
DefAt(p, key)        == SelectSeq(p[key[1]].defs, LAMBDA d : KeyOf(key[1], d) = key)
IsClass(p, key)      == \E d \in ToSet(DefAt(p, key)) : d.class

Everywhere(p, Is(_)) ==
  UNION { { KeyOf(f, p[f].defs[i]) : i \in { j \in DOMAIN p[f].defs : p[f].defs[j].within = <<>> /\ Is(p[f].defs[j]) } } : f \in DOMAIN p }

\* _bases: the names a class is given as bases, the last name of a dotted one; another
\* expression is none, nor is a dotted name in TypeScript.
BasesOf(py, exprs) ==
  LET named == SelectSeq(exprs, LAMBDA b : b.form = "name" \/ (py /\ b.form = "dotted"))
  IN  [i \in DOMAIN named |-> named[i].name]

\* _var_type: a variable is of the class it is annotated with, or else of what it is
\* built by, which in TypeScript takes a new; any other assignment leaves it as it is.
TypesOf(py, assignments) ==
  LET Type(a) == IF a.annotated # "" THEN a.annotated ELSE IF a.value.form = (IF py THEN "call" ELSE "new") THEN a.value.name ELSE ""
  IN  FoldLeft(LAMBDA ts, a : IF Type(a) = "" THEN ts ELSE (<<a.scope, a.var>> :> Type(a)) @@ ts, <<>>, assignments)

\* _call: a call is by name, by new, or of a member; the receiver is a name or "" for
\* anything else, but for a call of super.  A require is none.
CallOf(e) ==
  LET recv == IF e.of.form \in {"name", "this"} THEN e.of.name
              ELSE IF e.of.form = "super" THEN "super" ELSE ""
      call(kind, r) == <<[kind |-> kind, name |-> e.name, recv |-> r]>>
  IN  CASE e.callee = "name" /\ e.new -> call("new", "")
        [] e.callee = "name" /\ ~e.new /\ e.name # "require" -> call("name", "")
        [] e.callee = "member" /\ ~e.new -> call("attr", recv)
        [] OTHER -> <<>>

OnlyOne(S) == IF Cardinality(S) = 1 THEN <<CHOOSE k \in S : TRUE>> ELSE <<>>

\* _export: the chain of imports and re-exports behind a module's name.
RECURSIVE Export(_, _, _, _)
Export(p, f, name, depth) ==
  IF f \notin DOMAIN p \/ depth > MaxChain THEN <<>>
  ELSE Else(Top(p, f, name),
            LET on == IF name \in DOMAIN p[f].imports /\ p[f].imports[name].kind = "sym" THEN <<p[f].imports[name]>>
                      ELSE IF name \in DOMAIN p[f].reexports THEN <<p[f].reexports[name]>> ELSE <<>>
            IN  IF on = <<>> THEN <<>> ELSE Export(p, on[1].file, on[1].name, depth + 1))

\* What the functions around a place define inside themselves.
Nearest(p, scope, name) ==
  LET around == SelectSeq(scope, LAMBDA k : NestedIn(p, k, name) # <<>>)
  IN  IF around = <<>> THEN <<>> ELSE NestedIn(p, around[1], name)

\* ident: the scopes, the module, its imports, and then the only one of that name.
Ident(p, f, scope, name) ==
  Else(Nearest(p, scope, name), Else(Top(p, f, name),
    IF name \notin DOMAIN p[f].imports THEN OnlyOne(Everywhere(p, LAMBDA d : d.name = name /\ d.owner = ""))
    ELSE IF p[f].imports[name].kind = "sym" THEN Export(p, p[f].imports[name].file, p[f].imports[name].name, 0) ELSE <<>>))

\* member: a class's own, then its bases', depth first.
RECURSIVE Member(_, _, _, _, _)
Member(p, class, name, depth, skipSelf) ==
  LET bases == IF DefAt(p, class) = <<>> THEN <<>> ELSE DefAt(p, class)[1].bases
      keys  == FoldLeft(LAMBDA ks, b : ks \o Ident(p, class[1], <<>>, b), <<>>, bases)
      hits  == FoldLeft(LAMBDA hs, k : IF hs # <<>> \/ k = class THEN hs ELSE Member(p, k, name, depth + 1, FALSE), <<>>, keys)
  IN  IF depth > MaxChain THEN <<>> ELSE Else(IF skipSelf THEN <<>> ELSE Own(p, class, name), hits)

\* _class_of
ClassOf(p, f, scope) ==
  LET classes == FoldLeft(LAMBDA ks, k : IF ks # <<>> \/ DefAt(p, k) = <<>> THEN ks
                                         ELSE IF IsClass(p, k) THEN <<k>>
                                         ELSE IF k[2] # "" /\ DefAt(p, <<f, "", k[2]>>) # <<>> THEN << <<f, "", k[2]>> >> ELSE ks,
                          <<>>, scope)
  IN  classes

\* _var_type: the innermost scope that knows the variable, then the module.
TypeOf(p, f, scope, var) ==
  LET known == SelectSeq(Append(scope, <<f, "", Module>>), LAMBDA k : <<k, var>> \in DOMAIN p[f].types)
  IN  IF known = <<>> THEN "" ELSE p[f].types[<<known[1], var>>]

\* The receiver's members: a typed local's class, a module, or a class by name; a
\* receiver that is known to be something else has none.
OfReceiver(p, f, c) ==
  LET type  == TypeOf(p, f, c.scope, c.recv)
      typed == IF type = "" THEN <<>> ELSE Ident(p, f, c.scope, type)
      Members(of) == IF of # <<>> /\ IsClass(p, of[1]) THEN Member(p, of[1], c.name, 0, FALSE) ELSE <<>>
      bound == c.recv \in DOMAIN p[f].imports /\ p[f].imports[c.recv].kind = "mod"
      named == Ident(p, f, c.scope, c.recv)
  IN  Else(Members(typed), IF bound THEN Export(p, p[f].imports[c.recv].file, c.name, 0)
                           ELSE IF named # <<>> THEN Members(named)
                           ELSE OnlyOne(Everywhere(p, LAMBDA d : d.name = c.name /\ d.owner # "")))

\* call
Resolved(p, f, c) ==
  LET class == ClassOf(p, f, c.scope) IN
  CASE c.kind \in {"name", "new"} -> Ident(p, f, c.scope, c.name)
    [] c.kind = "attr" /\ c.recv \in {"self", "this", "super"} ->
         IF class = <<>> THEN <<>> ELSE Member(p, class[1], c.name, 0, c.recv = "super")
    [] c.kind = "attr" /\ c.recv = "" -> OnlyOne(Everywhere(p, LAMBDA d : d.name = c.name /\ d.owner # ""))
    [] OTHER -> OfReceiver(p, f, c)

-----------------------------------------------------------------------------
(* The first version, by bare name (analyze_repo).                         *)

Named(p, name) == UNION { { KeyOf(f, p[f].defs[i]) : i \in { j \in DOMAIN p[f].defs : p[f].defs[j].name = name } } : f \in DOMAIN p }

\* The only one of the file, the caller's own class's, or the only one anywhere.
ResolvedByName(p, f, c) ==
  LET here == { k \in Named(p, c.name) : k[1] = f }
      mine == <<f, IF c.scope = <<>> THEN "" ELSE c.scope[1][2], c.name>>
  IN  IF c.scope = <<>> \/ c.name = c.scope[1][3] THEN <<>>
      ELSE IF Cardinality(here) = 1 THEN OnlyOne(here)
      ELSE IF here # {} THEN IF mine \in here THEN <<mine>> ELSE <<>>
      ELSE OnlyOne(Named(p, c.name))

-----------------------------------------------------------------------------
(* Edges (analyze_repo_v2).                                                *)

Caller(f, c) == IF c.scope = <<>> THEN <<f, "", Module>> ELSE c.scope[1]

Linked(edges, from, to, perSymbol, maxEdges) ==
  IF \/ to = <<>> \/ to = <<from>>
     \/ Len(edges) >= maxEdges \/ Len(SelectSeq(edges, LAMBDA e : e[1] = from)) >= perSymbol
     \/ <<from, to[1]>> \in ToSet(edges)
  THEN edges ELSE Append(edges, <<from, to[1]>>)

\* The edges of all files, in order, and the modules that need a symbol of their own.
CallEdges(p, files, perSymbol, maxEdges) ==
  FoldLeft(LAMBDA es, f : FoldLeft(LAMBDA xs, c : Linked(xs, Caller(f, c), Resolved(p, f, c), perSymbol, maxEdges), es, p[f].calls), <<>>, files)
Modules(edges) == { e[1][1] : e \in { x \in ToSet(edges) : x[1][3] = Module } }

=============================================================================
