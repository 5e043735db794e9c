-------------------------- MODULE RepositoryIntent --------------------------
(***************************************************************************)
(* What a repository says of itself beyond its symbols, as operators: in   *)
(* its text (backend/repository/intent.py) the routes and their handlers,  *)
(* the decisions its manifests are evidence of, and its conventions; in    *)
(* its history, when things began and which files change together; and     *)
(* which of its symbols a model has described.  A path is a sequence of    *)
(* segments.  A file is [name, text]: name is its folders, its base and its *)
(* extension, text a sequence of the statements that the patterns look for. *)
(***************************************************************************)
EXTENDS Integers, Sequences, FiniteSets, SequencesExt, FiniteSetsExt, TLC

JS_EXT == <<"js", "jsx", "mjs", "cjs", "ts", "tsx">>
IsJs(f) == Last(f.name) \in ToSet(JS_EXT)
Of(f, kind) == SelectSeq(f.text, LAMBDA s : s.kind = kind)

\* _resolve_js: the file a relative import names, spec climbing up some folders.
ResolveJs(spec, from, names) ==
  LET dir    == SubSeq(from, 1, Len(from) - 2)
      target == SubSeq(dir, 1, Len(dir) - spec.up) \o spec.to
      wanted == <<target>> \o FlattenSeq([i \in DOMAIN JS_EXT |-> << Append(target, JS_EXT[i]), target \o <<"index", JS_EXT[i]>> >>])
      found  == SelectSeq(wanted, LAMBDA n : n \in names)
  IN  IF spec.up > Len(dir) \/ found = <<>> THEN <<>> ELSE found[1]

\* _last_identifier: the handler comes last, and is nobody's name when it is inline.
LastIdentifier(args) == IF args = <<>> \/ "inline" \in ToSet(args) THEN "" ELSE Last(args)

-----------------------------------------------------------------------------
(* Routes.                                                                 *)

\* The routers that files mount, in order; a name stands for what it was last
\* bound to, imports after requires.
Mounts(files) ==
  LET names == { f.name : f \in ToSet(files) }
      Bound(f, var) == FoldLeft(LAMBDA at, s : LET to == ResolveJs(s.spec, f.name, names) IN IF s.var = var /\ to # <<>> THEN to ELSE at,
                                <<>>, Of(f, "require") \o Of(f, "import"))
      Router(f, use) == IF use.inline # <<>> THEN ResolveJs(use.inline[1], f.name, names) ELSE Bound(f, LastIdentifier(use.args))
  IN  SelectSeq(FlattenSeq([i \in DOMAIN files |-> [j \in DOMAIN Of(files[i], "use") |->
                              [by |-> files[i].name, router |-> Router(files[i], Of(files[i], "use")[j]), prefix |-> Of(files[i], "use")[j].prefix]]]),
                LAMBDA m : m.router # <<>>)
Prefix(files, name) == FoldLeft(LAMBDA prefix, m : IF m.router = name THEN m.prefix ELSE prefix, <<>>, Mounts(files))

Route(method, path, f, handler) == [method |-> IF method = "ALL" THEN "ANY" ELSE method, path |-> path, file |-> f.name, handler |-> handler]

\* Next.js: the path is the file's, below the first app folder or below pages/api.
Folders(f)    == SubSeq(f.name, 1, Len(f.name) - 2)
RouteBases    == "route" :> <<>> @@ "examroute" :> <<"exam">>
Groups        == {"(shop)"}
Dynamic       == "[id]" :> ":id"
Base(f)       == f.name[Len(f.name) - 1]
NextFile(f)   == Last(f.name) \in {"ts", "js", "tsx", "jsx"}
IsAppRoute(f) == NextFile(f) /\ "app" \in ToSet(Folders(f)) /\ Base(f) \in DOMAIN RouteBases
PagesAt(f)    == { i \in 1 .. Len(Folders(f)) - 1 : Folders(f)[i] = "pages" /\ Folders(f)[i + 1] = "api" }
IsPagesApi(f) == NextFile(f) /\ PagesAt(f) # {}
NextPath(f) ==
  LET at   == Min(IF IsAppRoute(f) THEN { i \in DOMAIN Folders(f) : f.name[i] = "app" } ELSE PagesAt(f))
      raw  == SubSeq(f.name, at + 1, Len(f.name) - 2) \o (IF IsAppRoute(f) THEN RouteBases[Base(f)] ELSE <<Base(f)>>)
      segs == SelectSeq(raw, LAMBDA s : s \notin Groups)
      kept == IF segs # <<>> /\ Last(segs) = "index" THEN Front(segs) ELSE segs
  IN  [i \in DOMAIN kept |-> IF kept[i] \in DOMAIN Dynamic THEN Dynamic[kept[i]] ELSE kept[i]]
NextRoutes(f) ==
  LET exports == Of(f, "export") IN
  IF exports = <<>> /\ IsPagesApi(f) THEN << Route("ANY", NextPath(f), f, "") >>
  ELSE [i \in DOMAIN exports |-> Route(exports[i].method, NextPath(f), f, IF IsAppRoute(f) THEN exports[i].method ELSE "")]

\* Tables, middleware with the paths it dispatches on, and Express, which is looked for
\* only in files that speak of a server.
TableRoutes(f) == LET ts == Of(f, "table") IN [i \in DOMAIN ts |-> Route(ts[i].method, ts[i].path, f, ts[i].handler)]
MiddlewareRoutes(f) ==
  LET Mount(i) == SelectSeq(SubSeq(f.text, 1, i - 1), LAMBDA s : s.kind = "mount") IN
  FlattenSeq([i \in DOMAIN f.text |->
    CASE f.text[i].kind = "mount" -> << Route("ANY", f.text[i].path, f, f.text[i].handler) >>
      [] f.text[i].kind = "subpath" /\ Mount(i) # <<>> /\ f.text[i].path # <<>> -> << Route("ANY", Last(Mount(i)).path \o f.text[i].path, f, "") >>
      [] OTHER -> <<>>])
ExpressRoutes(f, prefix) ==
  LET chains == Of(f, "chain")
      direct == Of(f, "direct")
      Steps(c) == [i \in DOMAIN c.steps |-> Route(c.steps[i].method, prefix \o c.path, f, LastIdentifier(c.steps[i].args))]
  IN  IF Of(f, "server") = <<>> THEN <<>>
      ELSE FlattenSeq([i \in DOMAIN chains |-> Steps(chains[i])])
             \o [i \in DOMAIN direct |-> Route(direct[i].method, prefix \o direct[i].path, f, LastIdentifier(direct[i].args))]

\* Decorators, below the prefix of the router they are written on.
PyRoutes(f) ==
  LET Own(obj) == LET set == SelectSeq(Of(f, "prefix"), LAMBDA s : s.obj = obj) IN IF set = <<>> THEN <<>> ELSE Last(set).prefix
      decos == Of(f, "deco")
  IN  FlattenSeq([i \in DOMAIN decos |-> [j \in DOMAIN decos[i].methods |-> Route(decos[i].methods[j], Own(decos[i].obj) \o decos[i].path, f, decos[i].fn)]])

FileRoutes(files, f) ==
  IF ~IsJs(f) THEN PyRoutes(f) ELSE IF IsAppRoute(f) \/ IsPagesApi(f) THEN NextRoutes(f)
  ELSE TableRoutes(f) \o MiddlewareRoutes(f) \o ExpressRoutes(f, Prefix(files, f.name))

MAX_ROUTES == 150

\* extract_routes: the first of each method and path, up to a number (MAX_ROUTES).
ExtractRoutes(files, most) ==
  FoldLeft(LAMBDA rs, r : IF Len(rs) >= most \/ \E i \in DOMAIN rs : rs[i].method = r.method /\ rs[i].path = r.path THEN rs ELSE Append(rs, r),
           <<>>, FlattenSeq([i \in DOMAIN files |-> FileRoutes(files, files[i])]))

\* add_intent_to_graph: the symbol a route flows into, among those near it if there
\* are any; <<>> is the route's file.  A symbol is [file, name], name qualified.
Handler(r, symbols, imports) ==
  LET named == { s \in symbols : r.handler # "" /\ Last(s.name) = r.handler }
      near  == { s \in named : s.file = r.file \/ <<r.file, s.file>> \in imports }
      pick  == IF near # {} THEN near ELSE named
  IN  IF Cardinality(pick) = 1 THEN SetToSeq(pick) ELSE <<>>

-----------------------------------------------------------------------------
(* Decisions.  The catalogue is a sequence of [category, title, packages], *)
(* the packages being those its patterns match; a manifest is a set of     *)
(* packages, without their versions, and a file has the set of its imports. *)

MAX_FILES_PER_DECISION == 60

Decision(entry, manifests, files) ==
  LET hits == UNION { m \cap entry.packages : m \in manifests }
      uses == SelectSeq(files, LAMBDA f : f.imports \cap hits # {})
  IN  [category |-> entry.category, title |-> entry.title, packages |-> hits,
       files |-> SubSeq(uses, 1, IF Len(uses) < MAX_FILES_PER_DECISION THEN Len(uses) ELSE MAX_FILES_PER_DECISION)]

\* Only so many packages are kept as evidence.
Evidence(d) == IF Cardinality(d.packages) < 8 THEN Cardinality(d.packages) ELSE 8
MoreEvidence(d, e) == Len(d.files) > Len(e.files) \/ (Len(d.files) = Len(e.files) /\ Evidence(d) > Evidence(e))

\* extract_decisions: one per category, in the order of the catalogue.
ExtractDecisions(catalogue, manifests, files) ==
  LET all == SelectSeq([i \in DOMAIN catalogue |-> Decision(catalogue[i], manifests, files)], LAMBDA d : d.packages # {})
      Best(c) == FoldLeft(LAMBDA b, d : IF d.category = c /\ (b = <<>> \/ MoreEvidence(d, b[1])) THEN <<d>> ELSE b, <<>>, all)
      first == SelectSeq([i \in DOMAIN catalogue |-> i], LAMBDA i : \A j \in 1 .. i - 1 : catalogue[j].category # catalogue[i].category)
  IN  FlattenSeq([k \in DOMAIN first |-> Best(catalogue[first[k]].category)])

-----------------------------------------------------------------------------
(* Conventions.                                                            *)

\* The first of a sequence's members that is there most often.
Commonest(s) ==
  LET Count(x) == Len(SelectSeq(s, LAMBDA y : y = x)) IN
  CHOOSE x \in ToSet(s) : \A y \in ToSet(s) : Count(y) < Count(x) \/ (Count(y) = Count(x) /\ ~\E j \in DOMAIN s : s[j] = y /\ \A i \in 1 .. j : s[i] # x)

\* The segments a route counts for: of the first two, those that are no parameter.
Parameters == { Dynamic[d] : d \in DOMAIN Dynamic }
ApiKey(path) == SelectSeq(SubSeq(path, 1, IF Len(path) < 2 THEN Len(path) ELSE 2), LAMBDA s : s \notin Parameters)

\* The prefix most routes share, or none.
ApiPrefix(paths) ==
  LET keyed == SelectSeq(paths, LAMBDA p : p # <<>> /\ p[1] \notin Parameters)
      keys  == [i \in DOMAIN keyed |-> ApiKey(keyed[i])]
      need  == IF (6 * Len(paths)) \div 10 < 3 THEN 3 ELSE (6 * Len(paths)) \div 10
  IN  IF Len(paths) < 3 \/ keys = <<>> \/ Len(SelectSeq(keys, LAMBDA k : k = Commonest(keys))) < need THEN <<>> ELSE << Commonest(keys) >>

\* The main language of each area that has enough files, and the module system of each
\* that shows one: an area is a sequence of languages, or of [import, require] in its
\* JavaScript.  Nothing is said unless the areas differ.
IfTheyDiffer(of) == IF Cardinality({ of[a] : a \in DOMAIN of }) > 1 THEN of ELSE <<>>
LanguageSplit(areas) == IfTheyDiffer([a \in { b \in DOMAIN areas \ {"."} : Len(areas[b]) >= 3 } |-> Commonest(areas[a])])
ModuleSystems(areas) ==
  LET Esm(a) == Len(SelectSeq(areas[a], LAMBDA f : f.import))
      Cjs(a) == Len(SelectSeq(areas[a], LAMBDA f : f.require))
  IN  IfTheyDiffer([a \in { b \in DOMAIN areas : Len(areas[b]) >= 3 /\ Esm(b) + Cjs(b) > 0 } |-> IF Esm(a) >= Cjs(a) THEN "ES modules" ELSE "CommonJS"])

-----------------------------------------------------------------------------
(* Commits, and when edges began (intent.py and api.py).  A history is a   *)
(* sequence of commits, oldest first, each [at, merge, files]; its dates   *)
(* are its authors'.                                                       *)

MAX_FILES_PER_COMMIT == 40
Upto(s, n) == SubSeq(s, 1, Min({n, Len(s)}))
Plain(log) == SelectSeq(log, LAMBDA c : ~c.merge)

\* mine_commits, newest first; own says whether the directory is the top of its work
\* tree (owns_git), and nobody else's history is read.
MineCommits(own, log, known, limit) ==
  LET mined == Upto(Reverse(Plain(log)), limit)
      Changed(c) == SelectSeq(c.files, LAMBDA f : f \in known)
  IN  IF ~own THEN <<>>
      ELSE [i \in DOMAIN mined |-> [at |-> mined[i].at, files |-> Upto(Changed(mined[i]), MAX_FILES_PER_COMMIT), total |-> Len(Changed(mined[i]))]]

\* file_first_seen: the date of the first commit that lists a file.
FileFirstSeen(own, log, known) ==
  LET commits == Plain(log)
      Lists(f) == { i \in DOMAIN commits : own /\ f \in ToSet(commits[i].files) }
  IN  [f \in { g \in known : Lists(g) # {} } |-> commits[Min(Lists(f))].at]

\* _edge_from: when an edge between the symbols of two files began, <<>> for now.
EdgeFrom(seen, a, b) == IF a \in DOMAIN seen THEN << seen[a] >> ELSE IF b \in DOMAIN seen THEN << seen[b] >> ELSE <<>>

-----------------------------------------------------------------------------
(* Change coupling (coupling.py).                                          *)

MinSharedCommits == 3
MaxCoupledFiles  == 20
MaxCouplingCommits == 250
MaxPairs == 150

\* The commits that say something, as sets of known files.
Telling(log, known) ==
  SelectSeq([i \in DOMAIN Upto(Reverse(log), MaxCouplingCommits) |-> IF Reverse(log)[i].merge THEN {} ELSE ToSet(Reverse(log)[i].files) \cap known],
            LAMBDA fs : Cardinality(fs) \in 2 .. MaxCoupledFiles)
With(commits, fs) == Len(SelectSeq(commits, LAMBDA c : fs \subseteq c))

\* mine_change_coupling: the pairs that share enough commits, and enough of those of
\* the file that has fewer; the strongest if there are many.
MineCoupling(own, log, known) ==
  LET commits == Telling(log, known)
      Fewer(p) == Min({ With(commits, {f}) : f \in p })
      pairs == { p \in SUBSET known : Cardinality(p) = 2 /\ With(commits, p) >= MinSharedCommits /\ 10 * With(commits, p) >= 3 * Fewer(p) }
      order == SetToSortSeq(pairs, LAMBDA p, q : With(commits, p) * Fewer(q) > With(commits, q) * Fewer(p))
  IN  IF ~own THEN {} ELSE IF Cardinality(pairs) <= MaxPairs THEN pairs ELSE ToSet(Upto(order, MaxPairs))

\* mine_file_churn: how many of the last commits touched each file.
FileChurn(log, last) ==
  LET recent == Upto(Reverse(log), last) IN
  [f \in UNION { ToSet(c.files) : c \in ToSet(recent) } |-> Len(SelectSeq(recent, LAMBDA c : f \in ToSet(c.files)))]

-----------------------------------------------------------------------------
(* The meanings a model writes of the symbols: in which order they are     *)
(* written (annotation_policy.py) and which are kept (semantic.py).  A     *)
(* symbol is [file, name, kind, test, private, hash], a call a pair of     *)
(* places in the sequence of symbols, and a blob a function from keys to   *)
(* the hash of the code that was described.                                *)

ClassWeight == 3

CallsOf(symbols, calls, policy, i) ==
  Cardinality({ c \in calls :
    CASE policy = "callers_exact" -> c[2] = i
      [] policy = "degree" -> i \in {c[1], c[2]}
      [] OTHER -> symbols[c[2]].name = symbols[i].name })
  + IF policy = "degree" THEN Cardinality({ c \in calls : c = <<i, i>> }) ELSE IF symbols[i].kind = "class" THEN ClassWeight ELSE 0

Bit(b) == IF b THEN 1 ELSE 0
ChurnOf(churn, s) == IF s.file \in DOMAIN churn THEN churn[s.file] ELSE 0

\* What a policy compares, the weightiest first.
Score(symbols, calls, churn, policy, i) ==
  LET s == symbols[i]
      libraryFirst == << Bit(~s.test), Bit(~s.private), CallsOf(symbols, calls, policy, i) >>
  IN  CASE policy \in {"callers", "callers_exact"} -> libraryFirst
        [] policy = "git_churn" -> << ChurnOf(churn, s) >> \o libraryFirst
        [] policy = "degree" -> << CallsOf(symbols, calls, policy, i) >>
        [] policy = "file_order" -> <<>>

Above(x, y) == \E k \in DOMAIN x : x[k] > y[k] /\ \A j \in 1 .. k - 1 : x[j] = y[j]

\* rank_symbols, ties in the parser's order, and select_symbols.
RankSymbols(symbols, calls, churn, policy) ==
  IF policy = "lazy" THEN <<>>
  ELSE SetToSortSeq(DOMAIN symbols, LAMBDA i, j :
         LET x == Score(symbols, calls, churn, policy, i)
             y == Score(symbols, calls, churn, policy, j)
         IN  Above(x, y) \/ (x = y /\ i < j))
SelectSymbols(symbols, calls, churn, policy, budget) ==
  LET ranked == RankSymbols(symbols, calls, churn, policy) IN SubSeq(ranked, 1, Min({budget, Len(ranked)}))

-----------------------------------------------------------------------------
Key(s) == <<s.file, s.name>>
Described(blob, key, hash) == key \in DOMAIN blob /\ blob[key] = hash

\* The code of each key, of the last symbol that has it.
Current(symbols) ==
  [k \in { Key(s) : s \in ToSet(symbols) } |-> Last(SelectSeq(symbols, LAMBDA s : Key(s) = k)).hash]

\* annotate_repository_symbols: what is current is kept, the first of the ranking that
\* are not are described, and what describes other code is dropped; silent are the
\* symbols no model describes.
Annotate(blob, symbols, ranked, budget, silent) ==
  LET Described1(r, i) ==
        LET s == symbols[i] IN
        IF Described(r.blob, Key(s), s.hash) \/ r.new >= budget \/ i \in silent THEN r
        ELSE [blob |-> Key(s) :> s.hash @@ r.blob, new |-> r.new + 1]
      done == FoldLeft(Described1, [blob |-> blob, new |-> 0], ranked).blob
      now  == Current(symbols)
  IN  [k \in { x \in DOMAIN done \cap DOMAIN now : done[x] = now[x] } |-> done[k]]

\* annotate_on_demand: the first lookup of a symbol describes it.
AnnotateOnDemand(blob, s, silent) ==
  IF silent \/ Described(blob, Key(s), s.hash) THEN blob ELSE Key(s) :> s.hash @@ blob
=============================================================================
