-------------------------- MODULE IntentQuestions --------------------------
(***************************************************************************)
(* The questions about a repository's intent, for TLC: servers of two or   *)
(* three files, routes with handlers of one name, manifests against a      *)
(* small catalogue, short histories, and passes of annotation.             *)
(***************************************************************************)
EXTENDS RepositoryIntent

Put(topic, f) == [topic |-> topic] @@ f

(* Servers: an app that may mount a router, and the router's statements.   *)
AppFile    == <<"app", "js">>
RouterFile == <<"routes", "exam", "js">>
RoutesDir  == [up |-> 0, to |-> <<"routes", "exam">>]
Require(var) == [kind |-> "require", var |-> var, spec |-> RoutesDir]
UseIt(prefix, args, inline) == [kind |-> "use", prefix |-> prefix, args |-> args, inline |-> inline]
Direct(method, path, args) == [kind |-> "direct", method |-> method, path |-> path, args |-> args]
Server == [kind |-> "server"]

Apps == { <<Server>> \o t : t \in
  { <<>>, <<Require("exams"), UseIt(<<"api">>, <<"exams">>, <<>>)>>, <<Require("exams"), UseIt(<<"api", "v1">>, <<"guard", "exams">>, <<>>)>>,
    <<UseIt(<<"api">>, <<"inline">>, <<RoutesDir>>)>>, <<Require("exams"), UseIt(<<"api">>, <<"other">>, <<>>)>>,
    <<Require("exams"), Direct("GET", <<"x">>, <<"inline">>), UseIt(<<"api">>, <<"exams">>, <<>>)>>,
    <<Require("exams"), UseIt(<<>>, <<"exams">>, <<>>), Direct("GET", <<"api", "x">>, <<"show">>)>> } }
RouterParts == { Server, Direct("GET", <<"x">>, <<"guard", "show">>), Direct("ALL", <<"x">>, <<"inline">>),
                 [kind |-> "chain", path |-> <<"y">>, steps |-> <<[method |-> "GET", args |-> <<"list">>], [method |-> "POST", args |-> <<"guard", "make">>]>>],
                 [kind |-> "table", method |-> "ALL", path |-> <<"t">>, handler |-> "turn"],
                 [kind |-> "mount", path |-> <<"m">>, handler |-> ""], [kind |-> "mount", path |-> <<"n">>, handler |-> "near"],
                 [kind |-> "subpath", path |-> <<"s">>], [kind |-> "subpath", path |-> <<>>] }
Routers == UNION { [1 .. n -> RouterParts] : n \in 0 .. 3 }
Servers == { << [name |-> AppFile, text |-> a], [name |-> RouterFile, text |-> r] >> : a \in Apps, r \in Routers }
           \cup { << [name |-> RouterFile, text |-> <<Server>> \o r], [name |-> AppFile, text |-> a] >> : a \in Apps, r \in { q \in Routers : Len(q) < 3 } }

NextNames == { <<"app", "route", "ts">>, <<"app", "(shop)", "cart", "[id]", "route", "ts">>, <<"src", "app", "api", "app", "route", "js">>,
               <<"pages", "api", "index", "ts">>, <<"pages", "api", "users", "[id]", "js">>, <<"web", "pages", "api", "users", "index", "tsx">>,
               <<"app", "pages", "api", "users", "ts">> }
Exports == { << >>, << [kind |-> "export", method |-> "GET"] >>, << [kind |-> "export", method |-> "GET"], [kind |-> "export", method |-> "POST"] >> }

Decorated(obj, path, methods) == [kind |-> "deco", obj |-> obj, path |-> path, methods |-> methods, fn |-> "f"]
PyParts == { Decorated("router", <<"x">>, <<"GET">>), Decorated("app", <<"x">>, <<"GET", "POST">>), Decorated("app", <<"api", "x">>, <<"GET">>),
             [kind |-> "prefix", obj |-> "router", prefix |-> <<"api">>] }

(* Handlers, manifests, routes' paths and areas.                           *)
SymbolSet == [file : {"r", "h", "z"}, name : {<<"show">>, <<"K", "show">>}]

Catalogue == << [category |-> "http", title |-> "Express", packages |-> {"express"}], [category |-> "data", title |-> "SQL", packages |-> {"pg", "mysql"}],
                [category |-> "http", title |-> "Koa", packages |-> {"koa"}] >>
Manifests == UNION { { {a}, {a, b} } : a, b \in SUBSET {"express", "pg", "koa", "lodash"} }
Importers == { [i \in DOMAIN s |-> [name |-> i, imports |-> s[i]]] : s \in UNION { [1 .. n -> {{}, {"express"}, {"koa", "pg"}, {"koa"}}] : n \in 0 .. 3 } }

Paths == << <<"api", "users">>, <<"api", "users", ":id">>, <<"api">>, <<"health">>, <<":id", "x">>, <<>> >>
PathLists == { FlattenSeq([i \in DOMAIN Paths |-> [k \in 1 .. n[i] |-> Paths[i]]]) : n \in { m \in [DOMAIN Paths -> 0 .. 4] : FoldFunction(+, 0, m) \in 2 .. 6 } }

Shown == UNION { [1 .. n -> {"TypeScript", "Python"}] : n \in {0, 3, 4} }
Areas == { [web |-> w, api |-> a] @@ "." :> r : w, a \in Shown, r \in {<<>>, <<"Python", "Python", "Python">>} }

(* Histories and annotation.                                               *)
Commits == [at : 1 .. 2, merge : BOOLEAN, files : {<<"a">>, <<"a", "b">>, <<"b", "c">>, <<>>}]
Histories == UNION { [1 .. n -> Commits] : n \in 0 .. 2 } \cup [1 .. 3 -> { c \in Commits : ~c.merge }]
Together == UNION { [1 .. n -> {<<"a", "b">>, <<"a", "c">>, <<"b">>, <<"a", "b", "c">>}] : n \in 3 .. 6 }

Sym(name, kind, test, hash) == [file |-> IF test THEN "t" ELSE "m", name |-> name, kind |-> kind, test |-> test, private |-> FALSE, hash |-> hash]
Code == << Sym("A", "class", FALSE, 1), Sym("f", "function", FALSE, 1), Sym("f", "function", TRUE, 1), Sym("g", "function", FALSE, 1) >>
Policies == {"callers", "callers_exact", "degree", "git_churn", "file_order", "lazy"}

\* By topic.
Questions == {
  { Put("server", [files |-> s, most |-> MAX_ROUTES]) : s \in Servers },
  { Put("server", [files |-> s, most |-> 2]) : s \in { x \in Servers : x[1].name = RouterFile } },
  { Put("next", [file |-> [name |-> n, text |-> e]]) : n \in NextNames, e \in Exports },
  { Put("python", [file |-> [name |-> <<"api", "py">>, text |-> t]]) : t \in UNION { [1 .. n -> PyParts] : n \in 0 .. 3 } },
  { Put("handler", [symbols |-> s, imports |-> i]) : s \in SUBSET SymbolSet, i \in SUBSET {<<"r", "h">>, <<"r", "z">>} },
  { Put("decisions", [manifests |-> m, files |-> f]) : m \in Manifests, f \in Importers },
  { Put("prefix", [paths |-> p]) : p \in PathLists },
  { Put("areas", [areas |-> a]) : a \in Areas },
  { Put("history", [log |-> l, own |-> o, limit |-> n]) : l \in Histories, o \in BOOLEAN, n \in {1, 5} },
  { Put("coupling", [log |-> [i \in DOMAIN t |-> [at |-> i, merge |-> FALSE, files |-> t[i]]]]) : t \in Together },
  { Put("annotation", [policy |-> p, calls |-> c, budget |-> b, silent |-> s, edited |-> e]) :
           p \in Policies, c \in SUBSET {<<1, 2>>, <<2, 4>>, <<3, 3>>, <<1, 4>>}, b \in 0 .. 2, s \in {{}, {2}, {1, 4}}, e \in {{}, {1}, {2, 4}} } }

-----------------------------------------------------------------------------
\* What a server of these files answers: the method and path of every statement that
\* declares a route, below the prefix its file is mounted at.
Answers(files) ==
  LET Below(f) == { m.prefix : m \in { x \in ToSet(Mounts(files)) : x.router = f.name } }
      At(f)    == IF Below(f) = {} THEN <<>> ELSE CHOOSE p \in Below(f) : TRUE
      All(m)   == IF m = "ALL" THEN "ANY" ELSE m
  IN  UNION { { <<All(s.method), s.path>> : s \in ToSet(Of(f, "table")) }
              \cup { <<"ANY", s.path>> : s \in ToSet(Of(f, "mount")) }
              \cup { <<"ANY", f.text[i].path \o f.text[j].path>> : <<i, j>> \in
                       { p \in (DOMAIN f.text) \X (DOMAIN f.text) : /\ p[1] < p[2] /\ f.text[p[1]].kind = "mount" /\ f.text[p[2]].kind = "subpath"
                                                                   /\ f.text[p[2]].path # <<>>
                                                                   /\ \A k \in p[1] + 1 .. p[2] : f.text[k].kind # "mount" } }
              \cup (IF Server \in ToSet(f.text)
                    THEN { <<All(s.method), At(f) \o s.path>> : s \in ToSet(Of(f, "direct")) }
                         \cup UNION { { <<All(s.method), At(f) \o c.path>> : s \in ToSet(c.steps) } : c \in ToSet(Of(f, "chain")) }
                    ELSE {}) : f \in ToSet(files) }

\* Every route of a server is listed once, at the address it answers at, and nothing
\* else is, a client's requests least of all (intent.py: "no evidence, no node"; "an
\* HTTP *client* is not a route definition").
Listed(routes, answers, most) ==
  LET keys == [i \in DOMAIN routes |-> <<routes[i].method, routes[i].path>>]
  IN  IsInjective(keys) /\ ToSet(keys) \subseteq answers /\ Len(routes) = Min({most, Cardinality(answers)})
RoutesAreServed(files, most) == Listed(ExtractRoutes(files, most), Answers(files), most)

\* A page's route has a path without groups and without the file's own name, and one
\* for each method it exports.
AreOfPage(rs, f) ==
  /\ IsAppRoute(f) => Len(rs) = Len(f.text)
  /\ ~IsAppRoute(f) => Len(rs) >= 1 /\ rs[1].path[1] = "api"
  /\ \A i \in DOMAIN rs : ToSet(rs[i].path) \cap (Groups \cup DOMAIN Dynamic \cup {"route", "index"}) = {}
PagesAreRoutes(f) == AreOfPage(ExtractRoutes(<<f>>, MAX_ROUTES), f)

\* A decorated function answers below its router's prefix, wherever that is set.
DecoratedAreRoutes(f) ==
  LET set == \E s \in ToSet(f.text) : s.kind = "prefix"
      rs  == ExtractRoutes(<<f>>, MAX_ROUTES)
  IN  { <<rs[i].method, rs[i].path>> : i \in DOMAIN rs }
        = UNION { { <<m, (IF d.obj = "router" /\ set THEN <<"api">> ELSE <<>>) \o d.path>> : m \in ToSet(d.methods) } : d \in ToSet(Of(f, "deco")) }

\* A route flows into the function its file names, if it has or imports just one of
\* that name, and never into another when it has one (add_intent_to_graph).
HandlersAreMeant(symbols, imports) ==
  LET to    == Handler([file |-> "r", handler |-> "show"], symbols, imports)
      meant == { s \in symbols : s.name = <<"show">> /\ (s.file = "r" \/ <<"r", s.file>> \in imports) }
  IN  /\ to # <<>> => to[1] \in symbols /\ (meant # {} => meant = {to[1]})
      /\ meant # {} /\ meant = { s \in symbols : s.file = "r" \/ <<"r", s.file>> \in imports } /\ Cardinality(meant) = 1 => to # <<>>
      /\ Handler([file |-> "r", handler |-> ""], symbols, imports) = <<>>

\* Each category that is declared is decided once, for what most files use, and is
\* linked to files that import it (intent.py: "declared dependencies ... linked to the
\* files that actually import them").
DecisionsAreEvidenced(manifests, files) ==
  LET ds == ExtractDecisions(Catalogue, manifests, files)
      declared == UNION manifests
      In(e) == SelectSeq(files, LAMBDA f : f.imports \cap e.packages \cap declared # {})
  IN  /\ { d.category : d \in ToSet(ds) } = { e.category : e \in { x \in ToSet(Catalogue) : x.packages \cap declared # {} } }
      /\ IsInjective([i \in DOMAIN ds |-> ds[i].category])
      /\ \A d \in ToSet(ds) :
           /\ \A f \in ToSet(d.files) : f.imports \cap d.packages # {}
           /\ \A e \in ToSet(Catalogue) : e.category = d.category /\ e.packages \cap declared # {} => Len(In(e)) <= Len(d.files)

\* A prefix that is called a convention is above at least half of the routes, and one
\* above three in four of three or more is (intent.py: "A prefix most routes share is
\* an API convention").
PrefixesAreShared(paths) ==
  LET p == ApiPrefix(paths)
      Under(k) == Len(SelectSeq(paths, LAMBDA q : ApiKey(q) = k))
  IN  /\ p # <<>> => 2 * Len(SelectSeq(paths, LAMBDA q : IsPrefix(p[1], q))) >= Len(paths)
      /\ \A i \in DOMAIN paths : ApiKey(paths[i]) # <<>> /\ paths[i][1] \notin Parameters /\ Len(paths) >= 3
                                 /\ Under(ApiKey(paths[i])) >= 3 /\ 4 * Under(ApiKey(paths[i])) >= 3 * Len(paths) => p = << ApiKey(paths[i]) >>

\* An area is said to be in the language of at least half of its files, and only when
\* another is in another.
AreasDiffer(areas) ==
  LET split == LanguageSplit(areas)
      Modules(a) == [i \in DOMAIN areas[a] |-> [import |-> areas[a][i] = "TypeScript", require |-> areas[a][i] = "Python"]]
      systems == ModuleSystems([a \in DOMAIN areas |-> Modules(a)])
  IN  /\ split # <<>> => DOMAIN split = {"web", "api"} /\ split["web"] # split["api"]
      /\ \A a \in DOMAIN split : 2 * Len(SelectSeq(areas[a], LAMBDA l : l = split[a])) >= Len(areas[a])
      /\ systems # <<>> => \A a \in DOMAIN systems :
           systems[a] = "ES modules" <=> 2 * Len(SelectSeq(areas[a], LAMBDA l : l = "TypeScript")) >= Len(areas[a])

\* A commit's edges never lead to a file before it was first seen, when the dates of a
\* history do not go back, an edge begins when one of its files is first seen, and
\* nothing is read off the history of a repository around this one (intent.py,
\* owns_git, file_first_seen; api.py, _edge_from).
HistoryIsOwn(log, own, limit) ==
  LET known   == {"a", "b"}
      seen    == FileFirstSeen(own, log, known)
      mined   == MineCommits(own, log, known, limit)
      forward == \A i, j \in DOMAIN Plain(log) : i <= j => Plain(log)[i].at <= Plain(log)[j].at
  IN  /\ ~own => seen = <<>> /\ mined = <<>>
      /\ Len(mined) <= limit
      /\ forward => /\ \A i \in DOMAIN mined : \A f \in ToSet(mined[i].files) : f \in DOMAIN seen /\ seen[f] <= mined[i].at
                    /\ \A i, j \in DOMAIN mined : i <= j => mined[i].at >= mined[j].at
                    /\ \A f \in DOMAIN seen : \A c \in ToSet(Plain(log)) : f \in ToSet(c.files) => seen[f] <= c.at
      /\ \A a, b \in known : EdgeFrom(seen, a, b) = <<>> <=> {a, b} \cap DOMAIN seen = {}

\* Files that are coupled changed together as often as they must, in at least three of
\* ten of the changes one of them shares with others; more such changes never uncouple
\* them (coupling.py: "at least 30% of the time these two files change together", for
\* the commits it counts).
CouplingIsShared(log) ==
  LET known == {"a", "b", "c"}
      now   == MineCoupling(TRUE, log, known)
      Together1(p) == Cardinality({ i \in DOMAIN log : p \subseteq ToSet(log[i].files) })
      Alone(f)  == Cardinality({ i \in DOMAIN log : f \in ToSet(log[i].files) /\ Len(log[i].files) > 1 })
  IN  /\ MineCoupling(FALSE, log, known) = {}
      /\ \A p \in now : Together1(p) >= 3 /\ \E f \in p : 10 * Together1(p) >= 3 * Alone(f)
      /\ \A p \in now : p \in MineCoupling(TRUE, Append(log, [at |-> 9, merge |-> FALSE, files |-> SetToSeq(p)]), known)

\* A meaning that is kept is of the code as it is, one whose code stands is never lost
\* or paid for again, the best ranked of those that need one come first, no pass writes
\* more than its budget, and passes over code that stands end in a meaning for all
\* (semantic.py: "a stale one tells it something untrue").
MeaningsFollowTheCode(q) ==
  LET churn  == FileChurn(<< [files |-> <<"m", "t">>], [files |-> <<"m">>] >>, 50)
      edited == [i \in DOMAIN Code |-> IF i \in q.edited THEN [Code[i] EXCEPT !.hash = 2] ELSE Code[i]]
      ranked == RankSymbols(Code, q.calls, churn, q.policy)
      first  == Annotate(<<>>, Code, ranked, q.budget, {})
      second == Annotate(first, edited, ranked, q.budget, q.silent)
      Kept(blob, code) == { i \in DOMAIN code : Described(blob, Key(code[i]), code[i].hash) }
      Passes[n \in 0 .. Len(Code)] == IF n = 0 THEN second ELSE Annotate(Passes[n - 1], edited, ranked, q.budget, {})
  IN  /\ Kept(first, Code) = ToSet(SelectSymbols(Code, q.calls, churn, q.policy, q.budget))
      /\ \A k \in DOMAIN second : second[k] = Current(edited)[k]
      /\ Kept(first, Code) \ q.edited \subseteq Kept(second, edited)
      /\ Cardinality(DOMAIN second \ { Key(edited[i]) : i \in Kept(first, edited) }) <= q.budget
      /\ q.budget > 0 /\ q.policy # "lazy" => Kept(Passes[Len(Code)], edited) = DOMAIN Code
      /\ LET more == Annotate(<<>>, Code, RankSymbols(Code, q.calls \cup {<<3, 4>>}, churn, q.policy), q.budget, {})
         IN  Key(Code[4]) \in DOMAIN first => Key(Code[4]) \in DOMAIN more
      /\ \A i \in DOMAIN Code : Kept(second, edited) \cup {i} = Kept(AnnotateOnDemand(second, edited[i], FALSE), edited)

Holds(q) ==
  CASE q.topic = "server"     -> RoutesAreServed(q.files, q.most)
    [] q.topic = "next"       -> PagesAreRoutes(q.file)
    [] q.topic = "python"     -> DecoratedAreRoutes(q.file)
    [] q.topic = "handler"    -> HandlersAreMeant(q.symbols, q.imports)
    [] q.topic = "decisions"  -> DecisionsAreEvidenced(q.manifests, q.files)
    [] q.topic = "prefix"     -> PrefixesAreShared(q.paths)
    [] q.topic = "areas"      -> AreasDiffer(q.areas)
    [] q.topic = "history"    -> HistoryIsOwn(q.log, q.own, q.limit)
    [] q.topic = "coupling"   -> CouplingIsShared(q.log)
    [] q.topic = "annotation" -> MeaningsFollowTheCode(q)
=============================================================================
