--------------------------- MODULE MemoryRecords ---------------------------
(***************************************************************************)
(* Memory records and what the store and the anchors do with them          *)
(* (backend/memory/store.py, conflict.py, anchors.py), as operators over a *)
(* set of records.  A record has an id (a uuid4, supplied by the caller    *)
(* here), the key of its fact (repo, type, title), its content, the source *)
(* in its metadata, trust, corroboration count, validity (invalid_at is    *)
(* None), anchors and the outdated flag.                                   *)
(*                                                                         *)
(* Anchors are a function from subjects - <<"file", path>>, <<"tree">>,    *)
(* <<"query", "callers", symbol>> - to the hash they had; a hash is the    *)
(* hashed value itself, since sha256 does not collide here.                *)
(***************************************************************************)
EXTENDS Naturals, FiniteSets

Descriptive == {"semantic", "procedural", "organizational"}
Historical  == {"episodic"}

FullTrust == 20      \* trust 1.0, in steps of the 0.05 a corroboration adds

Unanchored == [s \in {} |-> {}]

IsAnchored(r) == DOMAIN r.anchors # {}

\* A subject that the check cannot evaluate counts as unchanged.
IsStale(r, hashes) ==
  \E s \in DOMAIN r.anchors \cap DOMAIN hashes : r.anchors[s] # hashes[s]

-----------------------------------------------------------------------------
SameFact(r, s) == r.repo = s.repo /\ r.type = s.type /\ r.title = s.title

CurrentFor(records, s) == { r \in records : r.valid /\ SameFact(r, s) }

Score(r) == r.trust * r.count

\* resolve_conflict: recency breaks a tie, the newcomer has been seen once.
Resolution(existing, new) ==
  IF existing.content = new.content THEN "corroborate"
  ELSE IF new.trust >= Score(existing) THEN "supersede" ELSE "reject"

\* Wrong: the count goes up, the anchors stay on the tree first written against
CorroboratedOnly(r, s) ==
  [r EXCEPT !.count = @ + 1, !.trust = IF @ < FullTrust THEN @ + 1 ELSE @]

Corroborated(r, s) ==
  [r EXCEPT !.count = @ + 1,
            !.trust = IF @ < FullTrust THEN @ + 1 ELSE @,
            !.anchors = IF IsAnchored(s) THEN s.anchors ELSE @,
            !.outdated = @ /\ ~IsAnchored(s)]

Invalid(r) == [r EXCEPT !.valid = FALSE]

\* Wrong: a rejected record stays readable beside the one that outweighs it
AddedAnyway(records, s) ==
  LET existing == CHOOSE r \in CurrentFor(records, s) : TRUE
      verdict  == Resolution(existing, s)
  IN  IF CurrentFor(records, s) = {} \/ verdict = "reject" THEN records \cup {s}
      ELSE IF verdict = "corroborate" THEN (records \ {existing}) \cup {Corroborated(existing, s)}
      ELSE (records \ {existing}) \cup {Invalid(existing), s}

\* MemoryStore.add
Added(records, s) ==
  LET existing == CHOOSE r \in CurrentFor(records, s) : TRUE
      verdict  == Resolution(existing, s)
  IN  IF CurrentFor(records, s) = {} THEN records \cup {s}
      ELSE IF verdict = "corroborate" THEN (records \ {existing}) \cup {Corroborated(existing, s)}
      ELSE IF verdict = "supersede" THEN (records \ {existing}) \cup {Invalid(existing), s}
      ELSE records \cup {Invalid(s)}

\* MemoryStore.invalidate; an id that is gone or already invalid is left alone.
Invalidated(records, ids) == { IF r.id \in ids THEN Invalid(r) ELSE r : r \in records }

\* MemoryStore.remove, with and without a source
RemovedFrom(records, repo, sources) ==
  { r \in records : ~(r.repo = repo /\ r.source \in sources) }
Forgotten(records, repo) == { r \in records : r.repo # repo }

\* MemoryStore.list and has_repository; the latter counts invalid records too.
Listed(records, repo, types) == { r \in records : r.valid /\ r.repo = repo /\ r.type \in types }
HasRepository(records, repo) == \E r \in records : r.repo = repo

-----------------------------------------------------------------------------
(* What a stale record becomes: history is flagged, a description of the   *)
(* current code is withdrawn.                                              *)

\* Wrong: history withdrawn like a description
RecheckedAlike(r, hashes) == IF r.valid /\ IsStale(r, hashes) THEN Invalid(r) ELSE r

Rechecked(r, hashes) ==
  IF ~r.valid \/ ~IsStale(r, hashes) THEN r
  ELSE IF r.type \in Historical THEN [r EXCEPT !.outdated = TRUE] ELSE Invalid(r)

\* sweep_repository
Swept(records, repo, hashes) ==
  { IF r.repo = repo THEN Rechecked(r, hashes) ELSE r : r \in records }
=============================================================================
