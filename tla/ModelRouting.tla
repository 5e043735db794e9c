---------------------------- MODULE ModelRouting ----------------------------
(***************************************************************************)
(* Which model answers what, and with whose key (backend/agents/llm.py),   *)
(* as operators over an environment [keys, default, embeds]: keys maps a   *)
(* provider to the numbers of the key variables that are set, default is   *)
(* the configured model or <<>>.  A model is <<prefix, name>>.             *)
(***************************************************************************)
EXTENDS Integers, Sequences, FiniteSets, SequencesExt, FiniteSetsExt, TLC

(* MODEL_REGISTRY, in its order: models, their tier and their provider.    *)

In(tier, provider, prefix, names) == [i \in DOMAIN names |-> [id |-> <<prefix, names[i]>>, tier |-> tier, provider |-> provider]]
Own(tier, provider, names) == In(tier, provider, provider, names)

MODEL_REGISTRY ==
  Own("heavy", "gemini", <<"3.8">>)
  \o In("heavy", "nvidia", "nvidia_nim", <<"deepseek", "glm", "kimi", "nemotron-super">>) \o Own("heavy", "groq", <<"gpt-oss-120b">>) \o Own("heavy", "zai", <<"glm-flash">>)
  \o Own("balanced", "gemini", <<"3.7">>) \o Own("balanced", "groq", <<"qwen">>) \o Own("balanced", "cerebras", <<"qwen">>)
  \o In("balanced", "nvidia", "nvidia_nim", <<"mistral-nemotron">>) \o Own("balanced", "mistral", <<"medium">>)
  \o Own("light", "gemini", <<"3.6">>) \o Own("light", "groq", <<"gpt-oss-20b", "compound-mini">>) \o Own("light", "gemini", <<"2.5">>)
  \o Own("light", "openrouter", <<"nemotron">>) \o Own("ultra_heavy", "aerolink", <<"gpt">>) \o Own("heavy", "siliconflow", <<"deepseek">>)
  \o Own("heavy", "upstage", <<"solar">>) \o Own("balanced", "inception", <<"mercury">>) \o Own("debug", "inception_debug", <<"mercury">>)
  \o Own("debug", "upstage_debug", <<"solar">>) \o Own("light", "bedrock", <<"haiku">>) \o In("light", "ollama", "ollama_chat", <<"qwen">>)
  \o Own("content", "dashscope", <<"qwen-character">>)

PROVIDER_ENV == { r.provider : r \in ToSet(MODEL_REGISTRY) } \cup {"tokenrouter"}
Entry(model) == SelectSeq(MODEL_REGISTRY, LAMBDA r : r.id = model)

Gemini(names) == [i \in DOMAIN names |-> <<"gemini", names[i]>>]
Groq(names)   == [i \in DOMAIN names |-> <<"groq", names[i]>>]
Nvidia(names) == [i \in DOMAIN names |-> <<"nvidia_nim", names[i]>>]

Tiers == {"ultra_heavy", "heavy", "balanced", "light"}
TIER_ORDER ==
  [ultra_heavy |-> << <<"aerolink", "gpt">> >>,
   heavy |-> << <<"upstage", "solar">> >> \o Gemini(<<"3.8", "3.7">>) \o Groq(<<"gpt-oss-120b">>) \o Nvidia(<<"glm", "kimi", "nemotron-super">>)
               \o << <<"zai", "glm-flash">>, <<"siliconflow", "deepseek">> >>,
   balanced |-> Gemini(<<"3.7", "3.8">>) \o << <<"groq", "qwen">>, <<"cerebras", "qwen">>, <<"groq", "gpt-oss-120b">>, <<"mistral", "medium">> >>,
   light |-> Gemini(<<"3.6", "3.7">>) \o Groq(<<"compound-mini", "gpt-oss-20b">>) \o Gemini(<<"2.5">>)
               \o << <<"openrouter", "nemotron">>, <<"bedrock", "haiku">>, <<"ollama_chat", "qwen">> >>]

FAILOVER_RING ==
  [ultra_heavy |-> << <<"aerolink", "gpt">>, <<"upstage", "solar">>, <<"gemini", "3.8">> >>,
   heavy |-> << <<"upstage", "solar">>, <<"gemini", "3.8">>, <<"groq", "gpt-oss-120b">>, <<"gemini", "3.7">> >>,
   balanced |-> <<>>, light |-> <<>>]
WORKER_RING == Gemini(<<"3.8", "3.7", "3.6", "2.5">>)

TASK_TIER ==
  [t \in {"architecture", "graph", "reasoning", "planner", "coder"} |-> "ultra_heavy"]
  @@ [t \in {"research", "chat"} |-> "heavy"] @@ [t \in {"docs", "summary", "retrieval"} |-> "light"]
TierFor(task) == IF task \in DOMAIN TASK_TIER THEN TASK_TIER[task] ELSE "balanced"

-----------------------------------------------------------------------------
\* __init__: offered are the models of the providers whose first key variable is set.
Available(env) == SelectSeq(MODEL_REGISTRY, LAMBDA r : 1 \in env.keys[r.provider])
Offered(env)   == { r.id : r \in ToSet(Available(env)) }
Among(env, models) == SelectSeq(models, LAMBDA m : m \in Offered(env))

ModelsForTier(env, tier) == IF tier \in Tiers THEN Among(env, TIER_ORDER[tier]) ELSE <<>>
FailoverRing(env, tier)  == IF tier \in Tiers THEN Among(env, FAILOVER_RING[tier]) ELSE <<>>
WorkerRing(env)          == Among(env, WORKER_RING)

\* The name of a model nobody registered, when there is none to work with.
Nobody == <<"nvidia_nim", "llama">>

\* model_for_task: the tier's, then the others', then any but a model that only writes
\* or that debugs.
ModelForTask(env, task) ==
  LET listed == FoldLeft(LAMBDA ms, t : ms \o ModelsForTier(env, t), <<>>, <<TierFor(task), "balanced", "light", "heavy">>)
      left   == SelectSeq(Available(env), LAMBDA r : r.tier \in Tiers)
  IN  IF listed # <<>> THEN listed[1] ELSE IF left # <<>> THEN left[1].id ELSE Nobody

DefaultModel(env) == IF env.default \in Offered(env) THEN env.default ELSE ModelForTask(env, "chat")

-----------------------------------------------------------------------------
(* Keys.  A key is <<provider, number>>.                                   *)

\* The numbered variables are read until one is missing; with one key there is nothing
\* to rotate.
ProviderKeys(env, provider) ==
  LET unset == { n \in 2 .. 9 : n \notin env.keys[provider] }
      read  == (env.keys[provider] \cap {1}) \cup { n \in env.keys[provider] : n > 1 /\ \A u \in unset : n < u }
  IN  IF Cardinality(read) > 1 THEN [i \in 1 .. Cardinality(read) |-> <<provider, SetToSortSeq(read, <)[i]>>] ELSE <<>>

ProviderOf(model) ==
  IF Entry(model) # <<>> THEN Entry(model)[1].provider ELSE IF model[1] \in PROVIDER_ENV THEN model[1] ELSE "nvidia"

MODEL_KEY_LIMIT(model) == IF model = <<"gemini", "2.5">> THEN 1 ELSE 9

\* The keys a model goes through in one lap, by its own index.
Rotation(env, model) ==
  LET keys == ProviderKeys(env, ProviderOf(model))
  IN  SubSeq(keys, 1, IF Len(keys) < MODEL_KEY_LIMIT(model) THEN Len(keys) ELSE MODEL_KEY_LIMIT(model))

\* Providers that are spoken to at an address of their own.
Addressed == {"zai", "tokenrouter", "aerolink", "siliconflow", "upstage", "upstage_debug", "inception", "inception_debug"}
Base(prefix) == IF prefix = "upstage_debug" THEN "upstage" ELSE IF prefix = "inception_debug" THEN "inception" ELSE prefix

\* _kwargs: where a request goes and the key it carries; <<>> leaves both to the library.
Request(env, model, index) ==
  LET keys == ProviderKeys(env, ProviderOf(model)) IN
  [base |-> IF model[1] \in Addressed THEN Base(model[1]) ELSE "",
   key  |-> IF keys # <<>> THEN keys[index + 1] ELSE IF model[1] \in Addressed /\ 1 \in env.keys[model[1]] THEN <<model[1], 1>> ELSE <<>>]

-----------------------------------------------------------------------------
\* embed: the first four keys, whatever is missing between them; a batch is tried
\* three times on each, and the next begins where this one succeeded.  Limited(k, t)
\* says whether the t-th attempt meets a limit with the k-th key; the answer is the
\* number of batches done.
EmbedKeys(env) == SetToSortSeq(env.keys["gemini"] \cap 1 .. 4, <)

Embedded(keys, batches, limited) ==
  LET n == IF keys = <<>> THEN 1 ELSE Len(keys)
      Tried[t \in 0 .. batches * (3 * n + 2)] ==
        IF t = 0 THEN [done |-> 0, ki |-> 0, tries |-> 0, failed |-> FALSE]
        ELSE LET s == Tried[t - 1] IN
             IF s.failed \/ s.done = batches THEN s
             ELSE IF <<s.ki % n, t>> \notin limited THEN [s EXCEPT !.done = @ + 1, !.tries = 0]
             ELSE [s EXCEPT !.ki = @ + 1, !.tries = @ + 1, !.failed = s.tries + 1 = 3 * n + 2]
  IN  Tried[batches * (3 * n + 2)]

-----------------------------------------------------------------------------
\* _RateLimiter.wait: when each of the calls that ask at these times is let through.
Granted(asks, max, window) ==
  FoldLeft(LAMBDA grants, t :
             LET now    == IF grants # <<>> /\ Last(grants) > t THEN Last(grants) ELSE t
                 recent == SelectSeq(grants, LAMBDA g : now - g < window)
             IN  Append(grants, IF Len(recent) < max THEN now ELSE recent[1 + Len(recent) - max] + window),
           <<>>, asks)
=============================================================================
