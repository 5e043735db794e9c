---------------------------- MODULE DesignIntent ----------------------------
(***************************************************************************)
(* What an interface is to be like, read off the words of its brief before *)
(* it is built (backend/agents/design_intent.py), and whether the page     *)
(* that was built does it (design_evidence and intent_fidelity, backend/   *)
(* agents/validators.py).                                                  *)
(*                                                                         *)
(* A brief is a sequence of words; a word is named after what the patterns *)
(* find in it.  "not" is a negation, "but" a contrast, "." the end of a    *)
(* clause, "long" forty letters or more, and every other word eight with   *)
(* its space.  A page is [signs, mechanisms, cheap]: how many of the signs *)
(* of each check it shows, and which capabilities it has the mechanism of  *)
(* or the thing that is mistaken for it.                                   *)
(***************************************************************************)
EXTENDS Integers, Sequences, FiniteSets, SequencesExt

Marks ==
  [archive   |-> {"classical"},  luxury  |-> {"luxury"},  dashboard |-> {"dense"},
   animate   |-> {"motion"},     filter  |-> {"interaction", "filterable_collection"},
   app       |-> {"product"},    mobile  |-> {"responsive", "responsive_recompose"},
   parallax  |-> {"motion", "scroll_linked_motion"},  morph   |-> {"shared_element_transition"},
   drawer    |-> {"interaction", "detail_view"},  records |-> {"detail_view"},
   filtering |-> {"filterable_collection"},  moves |-> {"scroll_linked_motion"},  recompose |-> {"responsive_recompose"}]

Words == DOMAIN Marks \cup {"not", "but", ".", "long"}
Of(word) == IF word \in DOMAIN Marks THEN Marks[word] ELSE {}
Says(text, mark) == \E i \in DOMAIN text : mark \in Of(text[i])
Times(text, mark) == Len(SelectSeq(text, LAMBDA w : mark \in Of(w)))

\* A negated clause takes five words with it, up to the first contrast or its end; a
\* word that is cut is lost.
Hearing(h, word) ==
  IF word \in {"but", "."} THEN [said |-> Append(h.said, word), room |-> 0]
  ELSE IF h.room > 0 THEN [h EXCEPT !.room = IF word = "long" THEN 0 ELSE @ - 1]
  ELSE IF word = "not" THEN [h EXCEPT !.room = 5]
  ELSE [h EXCEPT !.said = Append(@, word)]

StripNegations(text) == FoldLeft(Hearing, [said |-> <<>>, room |-> 0], text).said

CharacterOf(text) ==
  IF Says(text, "classical") THEN "classical-editorial"
  ELSE IF Says(text, "luxury") THEN "luxury-refined"
  ELSE IF Says(text, "dense") THEN "data-dense"
  ELSE "contemporary"

InteractionDepth(text) ==
  IF Says(text, "product") /\ Says(text, "interaction") THEN "product"
  ELSE IF Says(text, "product") \/ Says(text, "interaction") THEN "explorable"
  ELSE "static"

MotionLevel(text) ==
  IF Times(text, "motion") >= 4 THEN "choreographed" ELSE IF Says(text, "motion") THEN "considered" ELSE "minimal"

VisualStyle == [c \in {"classical-editorial", "luxury-refined", "data-dense", "contemporary"} |->
  CASE c = "classical-editorial" -> "minimalist_editorial"
    [] c = "luxury-refined" -> "high_end_agency"
    [] c = "data-dense" -> "industrial_brutalist"
    [] c = "contemporary" -> "anti_slop"]

MaxSkills == 3

\* One visual style, then at most two crafts.
SelectSkills(character, motion, depth) ==
  LET feel   == IF depth # "static" THEN <<"emil_design_eng">> ELSE <<>>
      recipe == IF motion # "minimal" THEN <<"animate">> ELSE <<>>
      fluid  == IF depth = "product" /\ motion = "minimal" THEN <<"apple_design">> ELSE <<>>
      all    == <<VisualStyle[character]>> \o feel \o recipe \o fluid
  IN  SubSeq(all, 1, IF Len(all) < MaxSkills THEN Len(all) ELSE MaxSkills)

Capabilities == {"scroll_linked_motion", "shared_element_transition", "filterable_collection",
                 "detail_view", "responsive_recompose", "reduced_motion"}

CommittedCapabilities(text, depth, motion) ==
  { c \in Capabilities : Says(text, c) }
  \cup (IF depth = "product" THEN {"detail_view", "filterable_collection"} ELSE {})
  \cup (IF motion = "choreographed" THEN {"scroll_linked_motion"} ELSE {})

\* derive, empty when there is no interface to design.  Depth and responsiveness are
\* read from all the words, the rest from those that are not ruled out.
Derive(text, contract) ==
  LET positive   == StripNegations(text)
      character  == CharacterOf(positive)
      depth      == InteractionDepth(text)
      motion     == MotionLevel(positive)
      responsive == Says(text, "responsive") \/ depth # "static"
  IN  IF contract.intent \notin {"CREATE", "MODIFY"} \/ "screenshot" \notin contract.required THEN <<>>
      ELSE << [character    |-> character,
               depth        |-> depth,
               motion       |-> motion,
               density      |-> IF Says(positive, "dense") THEN "dense"
                                ELSE IF character \in {"classical-editorial", "luxury-refined"} THEN "airy" ELSE "balanced",
               responsive   |-> responsive,
               skills       |-> SelectSkills(character, motion, depth),
               checks       |-> {"interaction", "states", "accessibility"}
                                  \cup (IF motion # "minimal" THEN {"motion"} ELSE {})
                                  \cup (IF responsive THEN {"responsive"} ELSE {}),
               capabilities |-> CommittedCapabilities(positive, depth, motion)] >>

-----------------------------------------------------------------------------
(* The page.                                                               *)

\* How many of its signs a check asks for (_DESIGN_EVIDENCE), and of how many.
Needs == [interaction |-> 2, states |-> 3, motion |-> 2, responsive |-> 1, accessibility |-> 2]
Signs == [interaction |-> 6, states |-> 5, motion |-> 5, responsive |-> 1, accessibility |-> 6]

DesignEvidence(design, page) == \A c \in design.checks : page.signs[c] >= Needs[c]
IntentFidelity(design, page) == \A c \in design.capabilities : c \in page.mechanisms

-----------------------------------------------------------------------------
(* The questions: short briefs of any words, and longer ones that rule     *)
(* things out and say what is wanted instead.                              *)

Briefs ==
  UNION { [1 .. n -> Words] : n \in 0 .. 3 }
  \cup [1 .. 5 -> {"not", "but", ".", "long", "archive"}]
  \cup { [i \in 1 .. n |-> w[1 + (i % 3)]] : n \in 4 .. 9, w \in [1 .. 3 -> {"not", "animate", "parallax", "app", "filter", "luxury"}] }

Page(signs, mechanisms, cheap) == [signs |-> signs, mechanisms |-> mechanisms, cheap |-> cheap]
Built == [intent |-> "CREATE", required |-> {"write_file", "screenshot"}]

Clauses(text) == { i \in DOMAIN text : text[i] = "not" }

\* Up to the first negation everything is heard, and so is everything after a contrast
\* or the end of a clause, or five words on, up to the next; what stands between them
\* within reach of the negation is not (_NEGATED: "the clause being removed is the X;
\* the Y is the actual instruction and must survive").
BriefIsHeard(text) ==
  LET said == StripNegations(text) IN
  /\ \A k \in 0 .. Len(text) :
       /\ Clauses(SubSeq(text, 1, k)) = {} => IsPrefix(SubSeq(text, 1, k), said)
       /\ k > 0 /\ Clauses(SubSeq(text, k + 1, Len(text))) = {}
            /\ (text[k] \in {"but", "."} \/ \A i \in Clauses(text) : i \notin k - 5 .. k)
            => IsSuffix(SubSeq(text, k, Len(text)), said)
  /\ \A i \in Clauses(text) : \A k \in i .. Len(text) :
       k <= i + 5 /\ ToSet(SubSeq(text, i, k)) \cap {"but", ".", "long"} = {}
         => StripNegations(SubSeq(text, 1, k)) = StripNegations(SubSeq(text, 1, i - 1))

\* A brief can be kept, and not by a brochure: there is a page that passes, one that
\* nobody can act on does not, nor does one that only has what is mistaken for the
\* capabilities it was to have; and one style is named, never two (_VISUAL_STYLE:
\* "loading both does not average them").
BriefsCanBeKept(text) ==
  LET d    == Derive(text, Built)[1]
      full == Page(Signs, Capabilities, {})
  IN  /\ DesignEvidence(d, full) /\ IntentFidelity(d, full)
      /\ ~DesignEvidence(d, Page([Signs EXCEPT !.interaction = 1], Capabilities, {}))
      /\ d.capabilities # {} => ~IntentFidelity(d, Page(Signs, {}, Capabilities))
      /\ IsInjective(d.skills) /\ Len(d.skills) <= MaxSkills
      /\ \A i \in DOMAIN d.skills : (\E c \in DOMAIN VisualStyle : VisualStyle[c] = d.skills[i]) <=> i = 1

\* Not so: a brief that commits to a capability is also told of the behaviour it
\* belongs to; "filtering" commits to it and asks for no interaction.
CommitmentsAreTold(text) ==
  LET d == Derive(text, Built)[1] IN
  /\ "scroll_linked_motion" \in d.capabilities => "motion" \in d.checks
  /\ {"filterable_collection", "detail_view"} \cap d.capabilities # {} => d.depth # "static"
  /\ "responsive_recompose" \in d.capabilities => "responsive" \in d.checks

\* Not so: what a brief only rules out it is never held to ("so 'not a landing page'
\* cannot commit the build to being one", above _CAPABILITY_SIGNALS).
RuledOutIsNotCommitted(text) ==
  StripNegations(text) = <<>> => Derive(text, Built)[1].capabilities = {}

=============================================================================
