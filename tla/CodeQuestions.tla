--------------------------- MODULE CodeQuestions ---------------------------
(***************************************************************************)
(* The questions about code, for TLC: small Python programs of three files *)
(* with one call in them, what a statement binds and an import names,      *)
(* pictures of a graph whose edges come and go, lookups in a graph of four *)
(* symbols, and changes described in two repositories.                     *)
(***************************************************************************)
EXTENDS CallResolution, TLC

L == INSTANCE CodeLookup
G == INSTANCE GraphQueries

Def(name, owner, within, class, bases) == [name |-> name, owner |-> owner, within |-> within, class |-> class, bases |-> bases]
Fn(name)    == Def(name, "", <<>>, FALSE, <<>>)
Class(name) == <<Def(name, "", <<>>, TRUE, <<>>), Def("m", name, <<>>, FALSE, <<>>)>>
If(has, defs) == IF has THEN defs ELSE <<>>

\* a has a function g and a class D of base C with a method run.  Both a and b may
\* define f, h and C; a may nest an h in g and define m in D, and c may define f.
DefsOfA(has) ==
  If("f" \in has, <<Fn("f")>>) \o <<Fn("g")>> \o If("nested" \in has, <<Def("h", "", <<"", "g">>, FALSE, <<>>)>>)
  \o If("h" \in has, <<Fn("h")>>) \o If("C" \in has, Class("C"))
  \o <<Def("D", "", <<>>, TRUE, BasesOf(TRUE, <<[form |-> "other"], [form |-> "name", name |-> "C"]>>))>>
  \o If("m" \in has, <<Def("m", "D", <<>>, FALSE, <<>>)>>) \o <<Def("run", "D", <<>>, FALSE, <<>>)>>
DefsOfB(has) == If("f" \in has, <<Fn("f")>>) \o If("h" \in has, <<Fn("h")>>) \o If("C" \in has, Class("C"))

Scopes == { <<>>, << <<"a", "", "g">> >>, << <<"a", "D", "run">>, <<"a", "", "D">> >> }
Site(callee, name, recv, scope) ==
  CallOf([callee |-> callee, new |-> FALSE, name |-> name,
          of |-> [form |-> IF recv = "super" THEN "super" ELSE "name", name |-> recv]])[1] @@ [scope |-> scope]
Sites == { Site("name", n, "", s) : n \in {"f", "h", "C"}, s \in Scopes }
    \cup { Site("member", "m", r, s) : r \in {"self", "super", "s", "C", "D"}, s \in Scopes }
    \cup { Site("member", "f", "b", s) : s \in Scopes }

\* What bears on a call: what a and b define, and what a imports.
About(site) == CASE site.name = "f" -> [a |-> {"f"}, b |-> {"f"}, imports |-> {<<>>, "f" :> Sym("b", "f"), "b" :> Mod("b")}]
                 [] site.name = "h" -> [a |-> {"h", "nested"}, b |-> {"f", "h"}, imports |-> {<<>>, "h" :> Sym("b", "f")}]
                 [] OTHER -> [a |-> {"C", "m"}, b |-> {"C"}, imports |-> {<<>>, "C" :> Sym("b", "C"), "b" :> Mod("b")}]
Chains == {"none", "import", "reexport", "dangling"}

\* In g, the variable s is a C.  The call occurs twice.
Assigned(form, name) == [scope |-> <<"a", "", "g">>, var |-> "s", annotated |-> "", value |-> [form |-> form, name |-> name]]
Program(ofA, ofB, imports, chain, site) ==
  LET through == "f" :> Sym("c", "f")
      File(defs, ims, res, types, calls) == [defs |-> defs, imports |-> ims, reexports |-> res, types |-> types, calls |-> calls]
  IN  ("a" :> File(DefsOfA(ofA), imports, <<>>, TypesOf(TRUE, <<Assigned("call", "C"), Assigned("literal", "")>>), <<site, site>>))
      @@ ("b" :> File(DefsOfB(ofB), IF chain = "import" THEN through ELSE <<>>, IF chain \in {"reexport", "dangling"} THEN through ELSE <<>>, <<>>, <<>>))
      @@ ("c" :> File(If(chain # "dangling", <<Fn("f")>>), <<>>, <<>>, <<>>, <<>>))

-----------------------------------------------------------------------------
(* What the language says a call refers to: a set of at most one key.      *)

Defined(p, f, owner, within, name) ==
  { KeyOf(f, p[f].defs[i]) : i \in { j \in DOMAIN p[f].defs : LET d == p[f].defs[j] IN
                                       d.name = name /\ d.owner = owner /\ d.within = within } }

\* A module's name is what it defines, or what that is where it comes from.
Binding(p, f, name) ==
  LET Comes(r) == IF r = <<>> \/ Defined(p, r[1], "", <<>>, r[2]) # {} THEN r
                  ELSE LET ways == { w \in {p[r[1]].imports, p[r[1]].reexports} : r[2] \in DOMAIN w } IN
                       IF ways = {} THEN <<>> ELSE LET w == CHOOSE x \in ways : TRUE IN
                       IF w[r[2]].kind = "mod" THEN <<>> ELSE <<w[r[2]].file, w[r[2]].name>>
      origin == Comes(Comes(Comes(<<f, name>>)))
  IN  IF origin = <<>> THEN {} ELSE Defined(p, origin[1], "", <<>>, origin[2])

\* A name in a is one of the function around it, or the module's.
InScope(p, scope, name) ==
  LET inner == IF scope = <<>> THEN {} ELSE Defined(p, "a", "", <<scope[1][2], scope[1][3]>>, name)
  IN  IF inner # {} THEN inner ELSE Binding(p, "a", name)

\* A method is the class's own or its base's.
Method(p, class, name, own) ==
  LET mine == Defined(p, class[1], class[3], <<>>, name)
  IN  IF own /\ mine # {} THEN mine
      ELSE IF class = <<"a", "", "D">> THEN UNION { Defined(p, k[1], k[3], <<>>, name) : k \in Binding(p, "a", "C") }
      ELSE {}

Means(p, c) ==
  CASE c.recv = "s" /\ c.scope # << <<"a", "", "g">> >> -> {}
    [] c.kind = "name" -> InScope(p, c.scope, c.name)
    [] c.recv \in {"self", "super"} -> IF c.scope = <<>> \/ c.scope[1][2] = "" THEN {} ELSE Method(p, <<"a", "", "D">>, c.name, c.recv = "self")
    [] c.recv = "b" -> IF "b" \in DOMAIN p["a"].imports THEN Binding(p, "b", c.name) ELSE {}
    [] OTHER -> UNION { Method(p, k, c.name, TRUE) : k \in InScope(p, c.scope, IF c.recv = "s" THEN "C" ELSE c.recv) }

\* What a says nothing about, a guess may fill: a name that nothing binds by the only
\* definition of that name, a method of such a class by that class's, and a method of
\* a receiver that leads to nothing by the only one of that name.
Guesses(p, c) ==
  LET unbound(name) == InScope(p, c.scope, name) = {} /\ name \notin DOMAIN p["a"].imports
      open(name) == { k \in Named(p, name) : k[2] # "" \/ Defined(p, k[1], "", <<>>, name) # {} }
      only(S) == IF Cardinality(S) = 1 THEN S ELSE {}
      ofC     == IF unbound("C") THEN UNION { Defined(p, k[1], "C", <<>>, c.name) : k \in only(open("C")) } ELSE {}
  IN  IF c.kind = "name" THEN IF unbound(c.name) THEN only(open(c.name)) ELSE {}
      ELSE IF c.recv \in {"self", "super", "D"} THEN ofC
      ELSE ofC \cup (IF c.recv = "s" \/ (InScope(p, c.scope, c.recv) = {} /\ c.recv # "b") \/ unbound(c.recv) THEN only(open(c.name)) ELSE {})

\* A call refers to what the language says it does, and where that is nothing, to
\* nothing or to a guess; it is an edge, once; and by name alone, what has one
\* definition is found too.
RefersRight(p, c, to, edges) ==
  /\ Means(p, c) # {} => ToSet(to) = Means(p, c)
  /\ Means(p, c) = {} => ToSet(to) \subseteq Guesses(p, c)
  /\ edges = (IF to = <<>> \/ to = <<Caller("a", c)>> THEN <<>> ELSE << <<Caller("a", c), to[1]>> >>)
  /\ Modules(edges) = (IF edges # <<>> /\ c.scope = <<>> THEN {"a"} ELSE {})
  /\ c.kind = "name" /\ c.scope # <<>> /\ Cardinality(Named(p, c.name)) = 1 /\ Means(p, c) # {} /\ c.name \notin DOMAIN p["a"].imports
       => ResolvedByName(p, "a", c) = to
CallsAreResolved(p, c) == RefersRight(p, c, Resolved(p, "a", c), CallEdges(p, <<"a", "b", "c">>, 64, 100))

-----------------------------------------------------------------------------
Files == { << <<"u">> >>, << <<"u", "ts">> >>, << <<"u", "py">> >>, << <<"u">>, <<"index", "ts">> >>, << <<"u">>, <<"__init__", "py">> >>,
           << <<"v", "ts">> >> }

\* What is imported is a file of that name or the index of a folder of that name,
\* found whenever there is one, and a file rather than the index in its language;
\* no other file keeps a source from being looked at (_discover).
IsFound(hit, files) ==
  LET Is(f) == f[1][1] = "u"
  IN  /\ hit = <<>> <=> \A f \in files : ~Is(f)
      /\ hit # <<>> => hit \in files /\ Is(hit)
      /\ \A e \in ToSet(Extensions) : Len(hit) = 2 /\ Last(hit)[2] = e => << <<"u", e>> >> \notin files
      /\ \A n, k \in 1 .. 2 :
           LET sources == { f \in files : Len(Last(f)) > 1 }
               found   == Discover(SetToSeq(files), sources, n, k)
           IN  /\ ToSet(found.files) \subseteq sources /\ (Len(found.files) < n => ToSet(found.files) = sources)
               /\ IsPrefix(found.files, found.all) /\ Len(found.all) <= n + k
ImportsAreFound(files) == IsFound(ResolvedImport(<< <<"u">> >>, files), files)

\* Modules of a folder pkg and of the root, and the statements of a file in either.
Sources == { << <<"u", "py">> >>, << <<"u">>, <<"__init__", "py">> >>, << <<"pkg", "py">> >>, << <<"pkg">>, <<"__init__", "py">> >>,
             << <<"pkg">>, <<"u", "py">> >>, << <<"u", "ts">> >>, << <<"pkg">>, <<"u", "tsx">> >> }
Froms == [form : {"from"}, level : 0 .. 2, module : {<<>>, << <<"u">> >>, << <<"pkg">> >>, << <<"pkg">>, <<"u">> >>},
          names : {<<[name |-> "u", local |-> "u"], [name |-> "f", local |-> "g"]>>}]
Statements == { s \in Froms : s.level > 0 \/ s.module # <<>> }
  \cup [form : {"import"}, names : { <<[path |-> p, local |-> l]>> : p \in {<< <<"u">> >>, << <<"pkg">>, <<"u">> >>}, l \in {"", "w"} }]
  \cup [form : {"ts"}, relative : BOOLEAN, up : 0 .. 1, path : {<< <<"u">> >>}, default : {"d"}, space : {"", "n"},
        names : {<<>>, <<[name |-> "f", local |-> "g"]>>}]
Importing == { << <<"a", "py">> >>, << <<"pkg">>, <<"a", "py">> >>, << <<"u", "py">> >> }

\* The files a dotted path from a folder may be: a source of that name or the package.
ModulesAt(path, files) ==
  LET exts == {"py", "ts", "tsx"}
      own  == { Append(path, <<"__init__", "py">>) }
  IN  files \cap (IF path = <<>> THEN own ELSE own \cup { Append(Front(path), Append(Last(path), e)) : e \in exts })

\* Where a statement of a file looks, a set of one path or none.
LooksAt(file, s) ==
  LET above(n) == IF n > Len(file) - 1 THEN {} ELSE { SubSeq(file, 1, Len(file) - 1 - n) }
  IN  CASE s.form = "from"   -> { p \o s.module : p \in IF s.level = 0 THEN {<<>>} ELSE above(s.level - 1) }
        [] s.form = "import" -> { s.names[1].path }
        [] s.form = "ts"     -> { p \o s.path : p \in IF s.relative THEN above(s.up) ELSE {} }

\* A name that is imported is bound wherever there is a module it can come from, to
\* that module or to its symbol under the name it has there; what comes from another
\* package is bound to nothing; and the file an import names is the one its bindings
\* lead to, or the folder's in which they are.
BindsWhatItFinds(file, s, bound, edges, in, sub) ==
  /\ \A e \in edges : e[1] = file /\ e[2] \in in \ {file}
  /\ in \ {file} # {} => edges # {} \/ Cardinality(in) > 1
  /\ \A l \in DOMAIN bound : bound[l].file \in in \/ (s.form = "from" /\ l = "u" /\ bound[l].file \in sub)
  /\ CASE s.form = "from" ->
            /\ "u" \in DOMAIN bound <=> in \cup sub # {}
            /\ "u" \in DOMAIN bound => bound["u"].kind = (IF sub # {} THEN "mod" ELSE "sym")
            /\ in # {} => bound["g"].kind = "sym" /\ bound["g"].name = "f"
       [] s.form = "import" ->
            DOMAIN bound = IF in = {} THEN {} ELSE IF s.names[1].local = "w" THEN {"w"} ELSE IF Len(s.names[1].path) = 1 THEN {"u"} ELSE {}
       [] s.form = "ts" ->
            /\ DOMAIN bound = IF in = {} THEN {} ELSE {"d"} \cup ({s.space} \ {""}) \cup { n.local : n \in ToSet(s.names) }
            /\ \A n \in ToSet(s.names) : in # {} => bound[n.local] = Sym(bound["d"].file, n.name)
StatementsBind(file, s, files) ==
  LET In(paths) == UNION { ModulesAt(p, files) : p \in paths }
  IN  BindsWhatItFinds(file, s, Bindings(file, s, files), ImportEdges(file, s, files),
                       In(LooksAt(file, s)), In({ Append(p, <<"u">>) : p \in LooksAt(file, s) }))

-----------------------------------------------------------------------------
Symbol(file, owner, name, kind, repo) ==
  [type |-> "CodeSymbol", repo |-> repo, file |-> file, name |-> name, owner |-> owner, kind |-> kind, hash |-> name]

\* Two functions of one name in two files, a method, and the calls of a file itself,
\* which may be another repository's.
Symbols(other) == << Symbol("a", "", "f", "function", "r"), Symbol("b", "", "f", "function", "r"),
                     Symbol("a", "C", "g", "method", "r"), Symbol("a", "", Module, "module", IF other THEN "s" ELSE "r") >>

\* The symbols from which i is called, through k calls or fewer in the repository.
CalledFrom(nodes, edges, i, k) ==
  LET From[n \in 0 .. k] ==
        IF n = 0 THEN {i}
        ELSE From[n - 1] \cup { e.from : e \in { d \in ToSet(edges) : d.to \in From[n - 1] /\ nodes[d.from].repo = "r" } }
  IN  From[k]

\* A symbol's references are all of its repository's, at their distance, and a bare
\* name of several is not resolved; who calls is called, in both directions; and what
\* is said of a symbol was written for the code it has.  Refs(q, depth) answers a query,
\* and of[i] is what is said of i.
Agree(nodes, edges, depth, Refs(_, _), of) ==
  /\ \A i \in 1 .. 3 : \A hops \in {1, depth} :
       LET Nodes(refs) == { r.node : r \in ToSet(refs) } IN
       Nodes(Refs(L!Identity(nodes[i]), hops).refs) = CalledFrom(nodes, edges, i, hops) \ {i}
  /\ \A i \in 1 .. 3 : \A r \in ToSet(Refs(L!Identity(nodes[i]), depth).refs) : r.node \notin CalledFrom(nodes, edges, i, r.hop - 1)
  /\ Refs(<<"", "", "f">>, depth).says = "ambiguous"
  /\ \A i, j \in 1 .. 3 : i # j => (j \in ToSet(of[i].callers) <=> i \in ToSet(of[j].calls))
  /\ \A i \in 1 .. 3 : \A d \in ToSet(L!Dependencies(nodes, edges, "r", nodes[i].name)) :
       d.node = i => ToSet(d.usedBy) = ToSet(of[i].callers)
  /\ \A name \in {"f", "g"} :
       LET named  == { i \in 1 .. 3 : nodes[i].name = name }
           sure   == UNION { CalledFrom(nodes, edges, i, 1) \ {i} : i \in named }
           byName == ToSet(L!ReferencesByName(nodes, edges, "r", name).refs)
       IN  sure \subseteq byName /\ byName \subseteq sure \cup named
  /\ ToSet(L!FileOutline(nodes, "r", "a")) = ToSet(L!ListSymbols(nodes, "r", "a", ""))
LookupsAgree(arrows, depth, other) ==
  LET nodes == Symbols(other)
      edges == [k \in DOMAIN arrows |-> [from |-> arrows[k].from, to |-> arrows[k].to, type |-> "calls"]]
      Said(i) == CHOOSE c \in ToSet(L!LookupSymbol(nodes, edges, nodes[i].repo, <<nodes[i].owner, nodes[i].name>>, <<>>)) : c.node = i
  IN  Agree(nodes, edges, depth, LAMBDA q, hops : L!FindReferences(nodes, edges, "r", q, hops), [i \in 1 .. 3 |-> Said(i)])

\* Two nodes and two edges, dated back or not, ended or not; a third node is gone.
Nodes == { [id |-> 1, created |-> c] : c \in 1 .. 3 }
Spans == { s \in [from : {1}, to : {2, 3}, since : 1 .. 2, until : {G!Open, 2, 3}, created : 2 .. 3] : s.until \in {G!Open} \cup s.since + 1 .. 3 }
Stores == { [nodes |-> {n, [id |-> 2, created |-> 2]}, edges |-> {d, e}] : n \in Nodes, d, e \in Spans }

\* A picture of the past shows no edge without its ends and nothing that came later;
\* nothing it knew is missing, what is written afterwards does not change it, and at
\* the ends of the timeline it is empty and the present one (service.py, snapshot_at).
PicturesAreOfTheirTime(store, t) ==
  LET s == G!SnapshotAt(store.nodes, store.edges, t)
      then  == { [e EXCEPT !.until = IF @ > t THEN G!Open ELSE @] : e \in { d \in store.edges : d.since <= t } }
      line  == G!Timeline(store.nodes, store.edges)
      ids(ns) == { n.id : n \in ns }
      now   == G!SnapshotAt(store.nodes, store.edges, G!Now)
      Spans2(es) == { <<e.from, e.to>> : e \in es }
  IN  /\ G!EndsOf(s.edges) \subseteq ids(s.nodes)
      /\ { n \in store.nodes : n.created <= t } \subseteq s.nodes
      /\ \A e \in store.edges : G!HeldAt(e, t) /\ {e.from, e.to} \subseteq ids(store.nodes) => e \in s.edges
      /\ LET past == G!SnapshotAt(store.nodes, then, t) IN past.nodes = s.nodes /\ Spans2(past.edges) = Spans2(s.edges)
      /\ t < line[1] => s.nodes = {} /\ s.edges = {}
      /\ t >= line[2] => s.nodes = now.nodes /\ s.edges = { e \in now.edges : e.to \in ids(store.nodes) }

\* What is said of a symbol was written for the code it has, where its code is known.
MeaningsAreCurrent(code, written) ==
  LET nodes == <<[Symbol("a", "", "f", "function", "r") EXCEPT !.hash = code]>>
      said  == L!LookupSymbol(nodes, <<>>, "r", <<"", "f">>, <<"a", "", "f">> :> [says |-> "old", hash |-> written])
  IN  code # "" => (said[1].means = <<"old">> <=> code = written)

-----------------------------------------------------------------------------
Node(id, type, path, names, repo) == [id |-> id, type |-> type, path |-> path, names |-> names, repo |-> repo]
Edge(type, from, to, conf) == [type |-> type, from |-> from, to |-> to, conf |-> conf]

\* Two files of one name, what is in them, a route, another repository and the cause
\* of an incident, which is in none.
Repositories ==
  << Node(1, "File", <<"web", "app">>, {"app"}, "r"), Node(2, "File", <<"srv", "app">>, {"app"}, "r"),
     Node(3, "File", <<"main">>, {"main"}, "r"), Node(4, "CodeSymbol", <<"web", "app">>, {"f"}, "r"),
     Node(5, "CodeSymbol", <<"srv", "app">>, {"g"}, "r"), Node(6, "ApiRoute", <<>>, {"health"}, "r"),
     Node(7, "File", <<"web", "app">>, {"app"}, "s"), Node(8, "CodeSymbol", <<"web", "app">>, {"f"}, "s"),
     Node(9, "root_cause", <<>>, {}, "") >>
Links ==
  << Edge("imports", 3, 1, 10), Edge("imports", 2, 1, 3), Edge("calls", 5, 4, 10), Edge("depends_on", 6, 5, 10),
     Edge("depends_on", 6, 2, 3), Edge("correlates_with", 2, 1, 3), Edge("calls", 8, 7, 10),
     Edge("correlates_with", 1, 9, 10) >>
Graphs == { SelectSeq(Links, LAMBDA e : e \in es) : es \in SUBSET ToSet(Links) }

Says(mentions, words) == [mentions |-> mentions, near |-> [m \in mentions |-> IF m = <<"apq">> THEN <<"apt", "app">> ELSE <<>>],
                          words |-> words, cosmetic |-> FALSE]
Descriptions == { Says({<<"web", "app">>}, {"app"}), Says({<<"app">>}, {"app"}), Says({<<"apq">>}, {}), Says({<<"x">>}, {"f"}),
                  Says({}, {"health", "app"}), Says({}, {"g"}), Says({}, {}) }

\* An app that imports n files, and another file that imports one; main may mount it.
Star(n) == << Node(1, "File", <<"app">>, {}, "r"), Node(2, "File", <<"main">>, {}, "r"), Node(3, "File", <<"tool">>, {}, "r") >>
           \o [i \in 1 .. n |-> Node(i + 3, "File", <<"page", ToString(i)>>, {}, "r")]
Imports(n, mounted) == [i \in 1 .. n |-> Edge("imports", 1, i + 3, 10)] \o <<Edge("imports", IF mounted THEN 2 ELSE 3, 1, 10)>>

\* The nodes of the repository from which k dependencies or fewer lead to a change.
Depending(edges, changed, k) ==
  LET Near[i \in 0 .. k] == IF i = 0 THEN changed ELSE Near[i - 1] \cup { e.from : e \in { d \in ToSet(edges) : d.to \in Near[i - 1] } }
  IN  Near[k] \ changed

\* A card is of the repository a change is made in, whatever else is loaded; a file
\* that is named is its target, not another of its name; what it lists is all that
\* depends on the target or on what is in it, and each way it shows leads there
\* (ImpactRequest.repository: "a blast radius computed over the wrong repository is
\* worse than none at all"; _resolve_targets: "that file, not every file whose name
\* overlaps it").
CardIsExact(card, edges, d, limit) ==
  LET named == { n \in ToSet(Repositories) : n.type = "File" /\ n.repo = "r" /\ n.path \in d.mentions }
      own(n) == Repositories[n].repo = "r"
      changed == G!Changed(SelectSeq(Repositories, LAMBDA n : n.repo = "r"), card.targets)
  IN  /\ named # {} => ToSet(card.targets) = named
      /\ \A t \in ToSet(card.targets) : t.repo = "r"
      /\ card.affected = Depending(edges, changed, limit)
      /\ <<card>> = G!Card(SelectSeq(Repositories, LAMBDA n : n.repo = "r"), SelectSeq(edges, LAMBDA e : own(e.from) /\ own(e.to)), d, "r", limit)
      /\ Len(card.chains) < 3 => card.affected \subseteq UNION { ToSet(w) : w \in ToSet(card.chains) }
      /\ \A w \in ToSet(card.chains) :
           /\ w[1] \in changed /\ \A i \in 2 .. Len(w) : w[i] \in card.affected /\ \E e \in ToSet(edges) : e.from = w[i] /\ e.to = w[i - 1]
           /\ Len(w) <= Len(card.chains[1])
CardsAreExact(edges, d, limit) ==
  LET cards == G!Card(Repositories, edges, d, "r", limit)
  IN  IF cards = <<>> THEN d.mentions \cap { n.path : n \in ToSet(Repositories) } = {} /\ d.words = {}
      ELSE CardIsExact(cards[1], edges, d, limit)

\* A file the entry mounts is graded by what it renders, not by who imports it (the
\* comment above composes: "a mistake there takes every one down"), and no other is.
RootsAreGraded(n, mounted) ==
  LET d    == Says({<<"app">>}, {})
      card == G!Card(Star(n), Imports(n, mounted), d, "r", 3)[1]
  IN  card.level = (IF mounted /\ n >= 10 THEN 3 ELSE IF mounted /\ n >= 5 THEN 2 ELSE 1)

\* Not so: who was implicated in an incident is shown with it ("the join that lets
\* blast-radius/coupling analysis ... discover 'a file you're about to touch has a real
\* incident history'", incident.py).  The cause has no repository and is not in scope.
IncidentsAreSurfaced(edges, d, limit) ==
  \A c \in ToSet(G!Card(Repositories, edges, d, "r", limit)) :
    \A e \in ToSet(edges) : e.type = "correlates_with" /\ e.to = 9 /\ e.from \in G!Ids(c.targets) \cup c.affected
      => <<e.from, e.to>> \in c.risks

\* Not so: a call that a change reaches is counted as one; those of the symbols in the
\* target are not, though who calls them is listed.
CallersAreCounted(edges, d, limit) ==
  \A c \in ToSet(G!Card(Repositories, edges, d, "r", limit)) :
    (\E e \in ToSet(edges) : e.type = "calls" /\ e.from \in c.affected) => c.calls > 0
=============================================================================
