--------------------------- MODULE ModelQuestions ---------------------------
(***************************************************************************)
(* The questions about models, for TLC: environments with some providers   *)
(* and some keys, schedules of a limit, times of calls, short replies, and *)
(* answers with up to two claims in a small world.                         *)
(***************************************************************************)
EXTENDS ModelRouting, ModelReplies

Ask(topic, f) == [topic |-> topic] @@ f

Some == {"gemini", "groq", "nvidia", "aerolink", "upstage", "inception", "inception_debug", "dashscope"}
Env(keys, default) == [keys |-> [p \in PROVIDER_ENV |-> IF p \in DOMAIN keys THEN keys[p] ELSE {}], default |-> default]
Environments ==
  { Env([p \in ps |-> {1}], d) : ps \in SUBSET Some, d \in {<<>>, <<"groq", "qwen">>, <<"dashscope", "qwen-character">>} }
Pools == { Env([gemini |-> g, upstage |-> u, inception |-> u, inception_debug |-> d], <<>>) :
             g \in SUBSET (1 .. 5), u \in {{}, {1}, {1, 2}, {2}, {1, 3}}, d \in {{}, {1}, {1, 2}} }

Marks == {"{", "}", "quote", "backslash", "x"}
Texts == UNION { [1 .. n -> Marks] : n \in 0 .. 5 } \cup { <<"{">> \o t : t \in [1 .. 5 -> Marks] }

Claim(type, target, count) == [type |-> type, target |-> target, negated |-> FALSE, count |-> count]
Claims ==
  { Claim("file_exists", t, -1) : t \in {<<"f">>, <<"g">>} }
  \cup { Claim("symbol_exists", t, -1) : t \in {<<"s">>, <<"A", "s">>, <<"z">>} }
  \cup { Claim("symbol_used_n_times", <<"s">>, n) : n \in {-1, 1, 2} }
  \cup { Claim("test_passed", <<"tests">>, -1), Claim("action_performed", <<"write_file">>, -1),
         Claim("action_performed", <<"reflection">>, -1),
         Claim("opinion", <<"f">>, -1), [Claim("file_exists", <<"g">>, -1) EXCEPT !.negated = TRUE] }
Worlds == [files : {{}, {<<"f">>}}, graph : BOOLEAN, symbols : SUBSET {<<"A", "s">>, <<"B", "s">>}, uses : {{}, {<<1, <<"A", "s">> >>}, {<<1, <<"A", "s">> >>, <<2, <<"B", "s">> >>}},
           calls : {{}, {[tool |-> "run_tests", code |-> 1]}, {[tool |-> "run_command", code |-> 0]}, {[tool |-> "write_file", code |-> -1]}}]

Answers == UNION { [1 .. n -> Claims] : n \in 0 .. 2 }
Records == [model : {"m", "n"}, verified : {0, 2, 3}, failed : {0, 2}]

\* By topic.
Questions == {
  { Ask("route", [env |-> e]) : e \in Environments },
  { Ask("keys", [env |-> e]) : e \in Pools },
  { Ask("embed", [until |-> u, batches |-> b]) : u \in UNION { [1 .. n -> {0, 1, 4, 7, 30}] : n \in 1 .. 3 }, b \in 1 .. 2 },
  { Ask("calls", [asks |-> a]) : a \in { t \in [1 .. 5 -> 0 .. 4] : \A i \in 1 .. 4 : t[i] <= t[i + 1] } },
  { Ask("text", [text |-> t]) : t \in Texts },
  { Ask("record", [cards |-> cs]) : cs \in UNION { [1 .. n -> Records] : n \in 0 .. 2 } } }

-----------------------------------------------------------------------------
Working(env) == { r.id : r \in { x \in ToSet(Available(env)) : x.tier \in Tiers } }

\* A job is given a model that is configured and can call tools whenever there is one,
\* of the task's tier if that has one; a failover begins where the tier does, stays
\* among such models, and no list names a model that debugs or only writes (llm.py:
\* "auto task-routing and failover rings NEVER pick it", "never hand back a content
\* tier model").
RoutesLead(env) ==
  /\ \A task \in DOMAIN TASK_TIER \cup {"other"} :
       LET m == ModelForTask(env, task)
           tier == ModelsForTier(env, TierFor(task))
       IN  /\ Working(env) # {} => m \in Working(env)
           /\ tier # <<>> => m = tier[1]
  /\ \A tier \in Tiers :
       LET ring == FailoverRing(env, tier)
           all  == ModelsForTier(env, tier)
       IN  /\ ToSet(ring) \cup ToSet(all) \cup ToSet(WorkerRing(env)) \subseteq Working(env)
           /\ ring # <<>> /\ all # <<>> => ring[1] = all[1]
  /\ DefaultModel(env) \in Working(env) \/ DefaultModel(env) = env.default \/ Working(env) = {}

\* A request carries a key of its own model's provider to that provider's address, each
\* key of a lap once, and a model that is offered never goes without one where the
\* library would not find it (_kwargs, _provider_of: "silently falling back to nvidia's
\* and handing out the wrong key").
KeysGoHome(env) ==
  \A r \in ToSet(Available(env)) :
    LET lap == Rotation(env, r.id)
        sent == [i \in 1 .. (IF lap = <<>> THEN 1 ELSE Len(lap)) |-> Request(env, r.id, i - 1)]
    IN  /\ \A i \in DOMAIN sent : /\ sent[i].key # <<>> => sent[i].key[1] = r.provider /\ sent[i].key[2] \in env.keys[r.provider]
                                  /\ sent[i].base # "" => sent[i].base = Base(r.provider) /\ sent[i].key # <<>>
        /\ IsInjective([i \in DOMAIN lap |-> lap[i]])
        /\ 2 \in env.keys[r.provider] /\ r.id # <<"gemini", "2.5">> => Len(lap) > 1

\* Every batch is embedded as long as one key is under its limit, and each key is tried
\* before any is tried again (embed: "Raises only if every key is exhausted").
EmbeddingGoesOn(until, batches) ==
  LET limited == { <<k, t>> \in (0 .. Len(until) - 1) \X (1 .. 30) : t <= until[k + 1] }
      r == Embedded(until, batches, limited)
  IN  (\E k \in DOMAIN until : until[k] <= Len(until)) => ~r.failed /\ r.done = batches

\* No window holds more calls than it may, and nobody waits while there is room.
LimitIsKept(asks) ==
  LET w == 3
      grants == Granted(asks, 2, w)
      within(t) == Cardinality({ i \in DOMAIN grants : grants[i] \in t - w + 1 .. t })
  IN  \A i \in DOMAIN asks :
        /\ grants[i] >= asks[i] /\ within(grants[i]) <= 2
        /\ \A t \in asks[i] .. grants[i] - 1 : within(t) = 2

\* What an object is, by its grammar: braces around objects, strings and other marks.
IsString(t) ==
  /\ Len(t) >= 2 /\ t[1] = "quote"
  /\ LET Escaped[i \in 1 .. Len(t)] == i > 2 /\ t[i - 1] = "backslash" /\ ~Escaped[i - 1]
     IN  \A i \in 2 .. Len(t) : i = Len(t) <=> t[i] = "quote" /\ ~Escaped[i]
RECURSIVE Items(_)
IsObject(t) == Len(t) >= 2 /\ t[1] = "{" /\ Last(t) = "}" /\ Items(SubSeq(t, 2, Len(t) - 1))
Items(t) ==
  \/ t = <<>>
  \/ t[1] = "x" /\ Items(Tail(t))
  \/ \E k \in 2 .. Len(t) : (IsString(SubSeq(t, 1, k)) \/ IsObject(SubSeq(t, 1, k))) /\ Items(SubSeq(t, k + 1, Len(t)))

\* The first object of a reply is found whatever stands around it, braces in its strings
\* or in the words before it included (_extract_json_object: "a greedy slice gets those
\* wrong in both directions"); among plain words the greedy block finds it too.
ObjectsAreFound(text) ==
  LET spans   == { <<i, j>> \in (1 .. Len(text)) \X (1 .. Len(text)) : i < j /\ IsObject(SubSeq(text, i, j)) }
      found   == ExtractObject(text, { SubSeq(text, s[1], s[2]) : s \in spans })
      words   == { i \in 1 .. Len(text) : text[i] = "x" }
  IN  /\ spans = {} => found = <<>>
      /\ spans # {} => \E s \in spans : found = SubSeq(text, s[1], s[2]) /\ \A r \in spans : s[1] <= r[1]
      /\ \A s \in spans : (1 .. s[1] - 1) \cup (s[2] + 1 .. Len(text)) \subseteq words => Block(text) = found

\* What a claim says of the world.
IsTrue(c, w) ==
  CASE c.type = "file_exists" -> c.target \in w.files
    [] c.type = "symbol_exists" -> \E s \in w.symbols : IsSuffix(c.target, s)
    [] c.type = "symbol_used_n_times" -> c.count = Cardinality({ u \in w.uses : IsSuffix(c.target, u[2]) })
    [] c.type = "test_passed" -> \E k \in w.calls : k.tool \in {"run_tests", "run_command"} /\ k.code = 0
    [] c.type = "action_performed" -> \E k \in w.calls : <<k.tool>> = c.target

\* A true claim never sends an answer back, in whatever form a symbol is named, a false
\* one always does where it can be looked up, and what is denied or no claim is not
\* judged; a claim that fails never helps a card (verification.py: "every claim
\* rejected across an eight-run test was a true claim"; quorum.py, _verify).
ClaimsAreJudged(claims, w) ==
  LET read   == ExtractClaims(claims)
      failed == ToSet(VerifyClaims(read, w))
      card   == CardClaims(claims)
      bad    == VerifyClaims(card, w)
  IN  /\ \A c \in ToSet(claims) : c.negated \/ c.type = "opinion" => c \notin failed
      /\ \A c \in ToSet(read) :
           /\ IsTrue(c, w) => c \notin failed
           /\ ~IsTrue(c, w) /\ (c.type \in {"file_exists", "test_passed"} \/ c.target[1] \in KnownActions) => c \in failed
           /\ ~IsTrue(c, w) /\ w.graph /\ c.type = "symbol_exists" /\ Len(c.target) = 1 => c \in failed
      /\ Net(card, w) <= Len(card) - 2 * Len(bad)
      /\ bad = <<>> => Net(card, w) = Len(card)

\* A model's record is its own, counts only when there is enough of it, and another
\* failed claim never improves it (_model_calibration).
RecordsAreTheirOwn(cards) ==
  LET mine == SelectSeq(cards, LAMBDA c : c.model = "m") IN
  /\ Calibration(cards, "m") \in 0 .. 100 /\ Calibration(cards, "m") = Calibration(mine, "m")
  /\ Calibration(Append(cards, [model |-> "m", verified |-> 0, failed |-> 2]), "m") <= Calibration(cards, "m")

Holds(q) ==
  CASE q.topic = "route"  -> RoutesLead(q.env)
    [] q.topic = "keys"   -> KeysGoHome(q.env)
    [] q.topic = "embed"  -> EmbeddingGoesOn(q.until, q.batches)
    [] q.topic = "calls"  -> LimitIsKept(q.asks)
    [] q.topic = "text"   -> ObjectsAreFound(q.text)
    [] q.topic = "answer" -> ClaimsAreJudged(q.claims, q.world)
    [] q.topic = "record" -> RecordsAreTheirOwn(q.cards)
=============================================================================
