---------------------------- MODULE ModelReplies ----------------------------
(***************************************************************************)
(* How a model's reply is read and its claims are checked, as operators:   *)
(* the object in a text (backend/agents/plan_builder.py), the claims of an *)
(* answer and of a panel's card (verification.py and quorum.py), and what  *)
(* they are worth.  A text is a sequence of the marks "{", "}", quote,     *)
(* backslash, and "x" for anything else.                                   *)
(***************************************************************************)
EXTENDS Integers, Sequences, FiniteSets, SequencesExt, FiniteSetsExt

(* Objects in texts.                                                       *)

\* A string-aware count of braces.
Outside == [depth |-> 0, inString |-> FALSE, escaped |-> FALSE]
Step(s, mark) ==
  IF s.inString THEN [s EXCEPT !.escaped = ~s.escaped /\ mark = "backslash", !.inString = s.escaped \/ mark # "quote"]
  ELSE CASE mark = "quote" -> [s EXCEPT !.inString = TRUE]
         [] mark = "{" -> [s EXCEPT !.depth = @ + 1]
         [] mark = "}" -> [s EXCEPT !.depth = @ - 1]
         [] OTHER -> s

\* Where the braces opened at i are balanced: one place or none.
ClosedAt(text, i) ==
  LET After[j \in i - 1 .. Len(text)] == IF j = i - 1 THEN Outside ELSE Step(After[j - 1], text[j])
      ends == { j \in i .. Len(text) : After[j].depth = 0 /\ text[j] = "}" /\ ~After[j - 1].inString }
  IN  IF ends = {} THEN <<>> ELSE << Min(ends) >>

\* _extract_json_object: the first brace behind which an object stands; objects
\* are the texts the parser takes.
ExtractObject(text, objects) ==
  LET whole  == [i \in 1 .. Len(text) |-> IF text[i] = "{" THEN ClosedAt(text, i) ELSE <<>>]
      starts == { i \in 1 .. Len(text) : whole[i] # <<>> /\ SubSeq(text, i, whole[i][1]) \in objects }
  IN  IF text \in objects THEN text ELSE IF starts = {} THEN <<>> ELSE SubSeq(text, Min(starts), whole[Min(starts)][1])

\* _JSON_BLOCK of the two checkers: from the first brace to the last.
Block(text) ==
  LET opens  == { i \in 1 .. Len(text) : text[i] = "{" }
      closes == { i \in 1 .. Len(text) : text[i] = "}" }
  IN  IF opens = {} \/ closes = {} \/ Min(opens) > Max(closes) THEN <<>> ELSE SubSeq(text, Min(opens), Max(closes))

-----------------------------------------------------------------------------
(* Claims.  One is [type, target, negated, count]: a target is a sequence, *)
(* of a file, of a tool, or of a symbol's qualifiers and its name; count   *)
(* is -1 where the assertion holds no number.                              *)

MaxClaims == 8
MaxCardClaims == 5
Structural == {"file_exists", "symbol_exists", "symbol_used_n_times"}
ClaimType  == Structural \cup {"test_passed", "action_performed"}

FirstOf(s, n) == SubSeq(s, 1, IF Len(s) < n THEN Len(s) ELSE n)

\* extract_claims: the first few, without what is of no type and what is denied.
ExtractClaims(raw) == SelectSeq(FirstOf(raw, MaxClaims), LAMBDA c : c.type \in ClaimType /\ ~c.negated)

\* _parse: the first few that can be checked without a log of calls.
CardClaims(raw) == SelectSeq(FirstOf(raw, MaxCardClaims), LAMBDA c : c.type \in Structural)

KnownActions == {"write_file", "edit_file", "delete_file", "move_file", "create_directory", "create_files", "apply_patch",
                 "commit", "create_branch", "run_command", "run_tests"}
TestTools == {"run_tests", "run_command"}

\* The world is [files, symbols, uses, calls]: a symbol is a qualified name, uses are
\* pairs of a number and the symbol it uses, and a call is [tool, code], -1 for none.
\* symbols is <<>> where there is no graph.
BareSymbol(name) == Last(name)
Usages(uses, name) == { u \in uses : Last(u[2]) = BareSymbol(name) }

\* _resolve_claim and verify_claims: what cannot be looked up holds.
ClaimHolds(c, w) ==
  CASE c.type = "file_exists"         -> c.target \in w.files
    [] c.type = "symbol_exists"       -> ~w.graph \/ \E s \in w.symbols : Last(s) = BareSymbol(c.target)
    [] c.type = "symbol_used_n_times" -> ~w.graph \/ c.count < 0 \/ c.count = Cardinality(Usages(w.uses, c.target))
    [] c.type = "test_passed"         -> \E k \in w.calls : k.tool \in TestTools /\ k.code = 0
    [] c.type = "action_performed"    -> c.target[1] \in KnownActions => \E k \in w.calls : <<k.tool>> = c.target

VerifyClaims(claims, w) == SelectSeq(claims, LAMBDA c : ~ClaimHolds(c, w))

-----------------------------------------------------------------------------
(* Cards.                                                                  *)

\* _verify: a failed claim takes the others about its target with it.
Net(claims, w) ==
  LET failed == VerifyClaims(claims, w)
      lost   == { c.target : c \in ToSet(failed) }
  IN  Len(SelectSeq(claims, LAMBDA c : c.target \notin lost)) - Len(failed)

MinCalibrationSamples == 5

\* _model_calibration, in hundredths, over the cards of all decisions.
Calibration(cards, model) ==
  LET mine   == SelectSeq(cards, LAMBDA c : c.model = model)
      Sum(s) == FoldLeft(LAMBDA n, x : n + x, 0, s)
      good   == Sum([i \in DOMAIN mine |-> mine[i].verified])
      total  == good + Sum([i \in DOMAIN mine |-> mine[i].failed])
  IN  IF total < MinCalibrationSamples THEN 100 ELSE (100 * good) \div total

-----------------------------------------------------------------------------
(* Which models answer a quorum question and which answer wins (quorum.py). *)
(* A model is a pair <<provider, number>>; a card is [model, answer, net,  *)
(* weight], with net the verified minus the failed claims and weight the   *)
(* confidence times the model's calibration.                               *)

PanelSize == 3

Provider(m) == m[1]
Providers(models) == { Provider(m) : m \in ToSet(models) }

\* _panel_models: one model of each provider first, then whatever is left.
Panel(candidates) ==
  LET Distinct(panel, m) ==
        IF Len(panel) < PanelSize /\ Provider(m) \notin Providers(panel)
        THEN Append(panel, m) ELSE panel
      Filled(panel, m) ==
        IF Len(panel) < PanelSize /\ m \notin ToSet(panel) THEN Append(panel, m) ELSE panel
  IN  FoldLeft(Filled, FoldLeft(Distinct, <<>>, candidates), candidates)

\* _reserve_models
Reserves(candidates, panel) ==
  FoldLeft(LAMBDA rs, m : IF m \in ToSet(panel) \cup ToSet(rs) THEN rs ELSE Append(rs, m),
           <<>>, candidates)

\* Wrong: only a provider nobody on the panel has may stand in
PickOther(usable, inUse) == SelectSeq(usable, LAMBDA m : Provider(m) \notin inUse)

\* A stand-in comes from a provider that has not failed, if possible from one
\* that is not on the panel.
Pick(usable, inUse) ==
  LET others == SelectSeq(usable, LAMBDA m : Provider(m) \notin inUse)
  IN  IF others # <<>> THEN others ELSE usable

\* One lap of _gather_cards: every model of the queue is asked; one that fails is
\* replaced, and the replacements are the queue of the next lap.
Lap(acc, failing) ==
  LET Asked(a, m) ==
        IF m \notin failing THEN [a EXCEPT !.cards = Append(@, m)]
        ELSE LET failed == a.failed \cup {Provider(m)}
                 usable == SelectSeq(a.reserves, LAMBDA r : Provider(r) \notin failed)
                 picks  == Pick(usable, Providers(a.cards \o a.queue))
             IN  IF picks = <<>> THEN [a EXCEPT !.failed = failed]
                 ELSE [a EXCEPT !.failed = failed, !.queue = Append(@, Head(picks)),
                                !.reserves = Remove(@, Head(picks))]
  IN  FoldLeft(Asked, [acc EXCEPT !.queue = <<>>], acc.queue)

\* Laps until nobody is left to ask: there are no more of them than models.
Answering(candidates, failing) ==
  LET panel == Panel(candidates)
      After[k \in 0 .. Len(candidates)] ==
        IF k = 0 THEN [cards |-> <<>>, failed |-> {}, queue |-> panel, reserves |-> Reserves(candidates, panel)]
        ELSE Lap(After[k - 1], failing)
  IN  After[Len(candidates)].cards

\* _rank and the winner: claims checked against the repository come first,
\* confidence only separates what they cannot, and a tie between different
\* answers has no winner.
Beats(c, d) == c.net > d.net \/ (c.net = d.net /\ c.weight > d.weight)
Ranked(cards) == { c \in cards : ~\E d \in cards : Beats(d, c) }
Resolved(cards) == Cardinality({ c.answer : c \in Ranked(cards) }) = 1

\* _debate_round: only the tied may revise; one that fails keeps its card.
Debated(cards, revision) ==
  { IF c \in Ranked(cards) /\ c.model \in DOMAIN revision THEN revision[c.model] ELSE c : c \in cards }

\* run: the cards the decision is made and recorded on.
Final(cards, revision) == IF Resolved(cards) THEN cards ELSE Debated(cards, revision)
=============================================================================
