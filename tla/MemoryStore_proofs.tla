------------------------- MODULE MemoryStore_proofs -------------------------
(***************************************************************************)
(* What TLAPS proves of MemoryStore: for any set of jobs, notes and        *)
(* checkouts, any number of edits and any number of records.               *)
(*                                                                         *)
(* What a call of MemoryStore.add leaves of each record is stated once,    *)
(* in the lemmas about Added; the steps then differ in who calls it.       *)
(***************************************************************************)
EXTENDS MemoryStore, TLAPS

-----------------------------------------------------------------------------
(* The inductive invariant.                                                *)

Subjects == {"file:src", "file:manifest", "symbol:f", "tree", "symbols_index", "query:callers(f)"}

\* What some tree can be anchored with
Anchorings == { AnchorsTo(D, t) : D \in SUBSET Subjects, t \in Trees }

Contents == Notes \cup SUBSET {"src", "manifest", "done", "error", "exit 0"}

Record ==
  [id : Nat, repo : {Repo}, type : {"semantic", "procedural", "episodic"},
   title : {"layout", "command"} \cup Jobs, content : Contents,
   source : {"user", "repo_load"} \cup Jobs, trust : Nat, count : Nat,
   valid : BOOLEAN, anchors : Anchorings, outdated : BOOLEAN]

TypeOK ==
  /\ records \in SUBSET Record
  /\ workspace \in Trees
  /\ ingest \in [pc : {"rest", "sweep", "find", "retire", "write"},
                 tree : Trees \cup {Nothing}, found : SUBSET Nat]
  /\ ingest.pc # "rest" => ingest.tree \in Trees
  /\ recorder \in [Jobs -> [pc : {"working", "episode", "command"},
                            tree : Trees \cup {Nothing}, status : {"done", "error"}]]
  /\ \A j \in Jobs : recorder[j].pc = "episode" => recorder[j].tree \in Trees
  /\ minted \in Nat

\* An id names one record, and none that is still to be made.
IdsNameRecords ==
  /\ \A r \in records : r.id <= minted
  /\ \A r, s \in records : r.id = s.id => r = s

\* An episode is filed under the job that recorded it.
EpisodesBelongToJobs ==
  \A r \in records : r.type = "episodic" => r.source \in Jobs /\ r.title = r.source

\* A job that is about to write its episode has none that is current.
EarlierEpisodesRetired ==
  \A j \in Jobs : recorder[j].pc = "episode" =>
    \A r \in records : r.type = "episodic" /\ r.source = j => ~r.valid

\* An ingestion withdraws digests and nothing else, whatever was written or
\* deleted since it looked.
FoundAreDigests ==
  /\ \A i \in ingest.found : i <= minted
  /\ \A r \in records : r.id \in ingest.found => r.type = "semantic"

IInv ==
  /\ TypeOK
  /\ IdsNameRecords
  /\ OneCurrentFact
  /\ AnchorsAreLastObservation
  /\ EpisodesBelongToJobs
  /\ EarlierEpisodesRetired
  /\ FoundAreDigests

-----------------------------------------------------------------------------
(* Trees and records.                                                      *)

\* Every tree is hashed for the same subjects.
LEMMA HashesOfATree ==
  \A tree : DOMAIN Hashes(tree) = Subjects
BY DEF Hashes, Subjects

\* An anchor records the hash that its subject has in the tree it was taken from.
LEMMA AnchorsOfATree ==
  ASSUME NEW D \in SUBSET Subjects, NEW tree \in Trees
  PROVE  /\ AnchorsTo(D, tree) \in Anchorings
         /\ DOMAIN AnchorsTo(D, tree) = D
         /\ \A s \in D : AnchorsTo(D, tree)[s] = Hashes(tree)[s]
BY DEF AnchorsTo, Anchorings

\* A record without anchors is anchored to nothing, in any tree.
LEMMA UnanchoredIsAnchoring ==
  ASSUME NEW tree \in Trees
  PROVE  Unanchored \in Anchorings /\ DOMAIN Unanchored = {}
<1>1. Unanchored = AnchorsTo({}, tree)
  BY DEF Unanchored, AnchorsTo
<1> QED
  BY <1>1, AnchorsOfATree

\* x is what has become of r: still of the same fact and the same writer, and
\* current only if r was.
BecameOf(x, r) ==
  /\ x.id = r.id /\ x.repo = r.repo /\ x.type = r.type /\ x.title = r.title
  /\ x.source = r.source
  /\ x.valid => r.valid

\* What remains of a record when it is withdrawn or flagged
RemainsOf(x, r) == BecameOf(x, r) /\ x.anchors = r.anchors

\* What remains of a set of records, by what remains of each
Remains(left, R) == { left[r] : r \in R }

\* Invalid clears one flag.
LEMMA InvalidRemains ==
  ASSUME NEW r \in Record
  PROVE  Invalid(r) \in Record /\ RemainsOf(Invalid(r), r) /\ ~Invalid(r).valid
BY DEF Invalid, Record, RemainsOf, BecameOf

\* Corroborated keeps which fact it is, and takes the anchors of the newcomer
\* if that has any.
LEMMA CorroboratedRemains ==
  ASSUME NEW r \in Record, NEW s \in Record
  PROVE  /\ Corroborated(r, s) \in Record
         /\ BecameOf(Corroborated(r, s), r)
         /\ Corroborated(r, s).anchors = IF IsAnchored(s) THEN s.anchors ELSE r.anchors
<1> DEFINE anchors == IF IsAnchored(s) THEN s.anchors ELSE r.anchors
           trust == IF r.trust < FullTrust THEN r.trust + 1 ELSE r.trust
           outdated == r.outdated /\ ~IsAnchored(s)
           count == r.count + 1
<1>1. FullTrust \in Nat
  BY DEF FullTrust
<1>2. anchors \in Anchorings
  BY DEF Record
<1>3. trust \in Nat /\ count \in Nat
  BY <1>1 DEF Record
<1>4. outdated \in BOOLEAN
  OBVIOUS
<1> DEFINE A == [r EXCEPT !.count = count]  B == [A EXCEPT !.trust = trust]  C == [B EXCEPT !.anchors = anchors]
<1>5. Corroborated(r, s) = [C EXCEPT !.outdated = outdated]
  BY DEF Corroborated, Record
<1> HIDE DEF count, trust, anchors, outdated
<1>6. A \in Record /\ BecameOf(A, r)
  BY <1>3 DEF Record, BecameOf
<1> HIDE DEF A
<1>7. B \in Record /\ BecameOf(B, r)
  BY <1>3, <1>6 DEF Record, BecameOf
<1> HIDE DEF B
<1>8. C \in Record /\ BecameOf(C, r) /\ C.anchors = anchors
  BY <1>2, <1>7 DEF Record, BecameOf
<1> HIDE DEF C
<1>9. /\ Corroborated(r, s) \in Record /\ BecameOf(Corroborated(r, s), r)
      /\ Corroborated(r, s).anchors = anchors
  BY <1>4, <1>5, <1>8 DEF Record, BecameOf
<1> QED
  BY <1>9 DEF anchors

\* A check withdraws a description, flags history, and changes nothing else.
LEMMA RecheckedRemains ==
  ASSUME NEW r \in Record, NEW hashes
  PROVE  /\ Rechecked(r, hashes) \in Record
         /\ RemainsOf(Rechecked(r, hashes), r)
         /\ r.valid /\ r.type \in Historical => Rechecked(r, hashes).valid
<1>1. CASE ~r.valid \/ ~IsStale(r, hashes)
  BY <1>1 DEF Rechecked, RemainsOf, BecameOf
<1>2. CASE r.valid /\ IsStale(r, hashes) /\ r.type \in Historical
  <2>1. Rechecked(r, hashes) = [r EXCEPT !.outdated = TRUE]
    BY <1>2 DEF Rechecked
  <2> QED
    BY <1>2, <2>1 DEF RemainsOf, BecameOf, Record
<1>3. CASE r.valid /\ IsStale(r, hashes) /\ r.type \notin Historical
  <2>1. Rechecked(r, hashes) = Invalid(r)
    BY <1>3 DEF Rechecked
  <2> QED
    BY <1>3, <2>1, InvalidRemains
<1> QED
  BY <1>1, <1>2, <1>3

-----------------------------------------------------------------------------
(* MemoryStore.add.                                                        *)

OneCurrentIn(R) == \A r, s \in R : r.valid /\ s.valid /\ SameFact(r, s) => r = s

\* add looks at the one current record of the fact, if there is one, and does one
\* of four things.
LEMMA AddedCases ==
  ASSUME NEW R, OneCurrentIn(R), NEW s
  PROVE  \/ /\ \A r \in R : ~(r.valid /\ SameFact(r, s))
            /\ CurrentFor(R, s) = {}
            /\ Added(R, s) = R \cup {s}
         \/ \E e \in R :
              /\ e.valid /\ SameFact(e, s) /\ CurrentFor(R, s) = {e}
              /\ \/ /\ Resolution(e, s) = "corroborate"
                    /\ Added(R, s) = (R \ {e}) \cup {Corroborated(e, s)}
                 \/ /\ Resolution(e, s) = "supersede"
                    /\ Added(R, s) = (R \ {e}) \cup {Invalid(e), s}
                 \/ /\ Resolution(e, s) = "reject"
                    /\ Added(R, s) = R \cup {Invalid(s)}
<1> DEFINE existing == CHOOSE r \in CurrentFor(R, s) : TRUE
<1>1. CASE CurrentFor(R, s) = {}
  BY <1>1 DEF Added, CurrentFor
<1>2. CASE CurrentFor(R, s) # {}
  <2>1. existing \in CurrentFor(R, s)
    BY <1>2
  <2>2. existing \in R /\ existing.valid /\ SameFact(existing, s)
    BY <2>1 DEF CurrentFor
  <2>3. CurrentFor(R, s) = {existing}
    <3> SUFFICES ASSUME NEW r \in CurrentFor(R, s) PROVE r = existing
      BY <2>1
    <3>1. r \in R /\ r.valid /\ SameFact(r, existing)
      BY <2>2 DEF CurrentFor, SameFact
    <3> QED
      BY <2>2, <3>1 DEF OneCurrentIn
  <2>4. Resolution(existing, s) \in {"corroborate", "supersede", "reject"}
    BY DEF Resolution
  <2>5. Added(R, s) = IF Resolution(existing, s) = "corroborate"
                      THEN (R \ {existing}) \cup {Corroborated(existing, s)}
                      ELSE IF Resolution(existing, s) = "supersede"
                      THEN (R \ {existing}) \cup {Invalid(existing), s}
                      ELSE R \cup {Invalid(s)}
    BY <1>2 DEF Added
  <2> HIDE DEF existing
  <2> QED
    BY <2>2, <2>3, <2>4, <2>5
<1> QED
  BY <1>1, <1>2

\* What add leaves is records, each of them one of the old ones or the newcomer.
LEMMA AddedRecords ==
  ASSUME NEW R \in SUBSET Record, OneCurrentIn(R), NEW s \in Record
  PROVE  /\ Added(R, s) \in SUBSET Record
         /\ \A x \in Added(R, s) : BecameOf(x, s) \/ \E r \in R : BecameOf(x, r)
<1>1. \A r \in R \cup {s} : BecameOf(r, r)
  BY DEF BecameOf
<1>2. Invalid(s) \in Record /\ BecameOf(Invalid(s), s)
  BY InvalidRemains DEF RemainsOf
<1>3. \A e \in R : /\ Invalid(e) \in Record /\ BecameOf(Invalid(e), e)
                   /\ Corroborated(e, s) \in Record /\ BecameOf(Corroborated(e, s), e)
  BY InvalidRemains, CorroboratedRemains DEF RemainsOf
<1> QED
  BY <1>1, <1>2, <1>3, AddedCases

\* add leaves every record of another fact as it was.
LEMMA AddedKeepsOtherFacts ==
  ASSUME NEW R, OneCurrentIn(R), NEW s, NEW r \in R, ~SameFact(r, s)
  PROVE  r \in Added(R, s)
BY AddedCases

\* A new id stays the only one of its kind.
LEMMA AddedIds ==
  ASSUME NEW R \in SUBSET Record, OneCurrentIn(R), NEW s \in Record,
         \A r, t \in R : r.id = t.id => r = t,
         \A r \in R : r.id # s.id
  PROVE  \A x, y \in Added(R, s) : x.id = y.id => x = y
<1>1. Invalid(s).id = s.id
  BY InvalidRemains DEF RemainsOf, BecameOf
<1>2. \A e \in R : Invalid(e).id = e.id /\ Corroborated(e, s).id = e.id
  BY InvalidRemains, CorroboratedRemains DEF RemainsOf, BecameOf
<1> QED
  BY <1>1, <1>2, AddedCases

\* A fact has one current record before add and after it.
LEMMA AddedOneCurrent ==
  ASSUME NEW R \in SUBSET Record, OneCurrentIn(R), NEW s \in Record
  PROVE  OneCurrentIn(Added(R, s))
<1>1. ~Invalid(s).valid
  BY InvalidRemains
<1>2. \A e \in R : ~Invalid(e).valid /\ BecameOf(Corroborated(e, s), e)
  BY InvalidRemains, CorroboratedRemains
<1>3. CASE \A r \in R : ~(r.valid /\ SameFact(r, s))
  <2>1. Added(R, s) = R \cup {s}
    BY <1>3, AddedCases
  <2> QED
    BY <1>3, <2>1 DEF OneCurrentIn, SameFact
<1>4. ASSUME NEW e \in R, e.valid, SameFact(e, s),
             \/ Added(R, s) = (R \ {e}) \cup {Corroborated(e, s)}
             \/ Added(R, s) = (R \ {e}) \cup {Invalid(e), s}
             \/ Added(R, s) = R \cup {Invalid(s)}
      PROVE  OneCurrentIn(Added(R, s))
  <2>1. \A r \in R : r.valid /\ SameFact(r, s) => r = e
    BY <1>4 DEF OneCurrentIn, SameFact
  <2>2. CASE Added(R, s) = (R \ {e}) \cup {Corroborated(e, s)}
    BY <1>2, <1>4, <2>1, <2>2 DEF OneCurrentIn, SameFact, BecameOf
  <2>3. CASE Added(R, s) = (R \ {e}) \cup {Invalid(e), s}
    BY <1>2, <2>1, <2>3 DEF OneCurrentIn, SameFact
  <2>4. CASE Added(R, s) = R \cup {Invalid(s)}
    BY <1>1, <2>4 DEF OneCurrentIn
  <2> QED
    BY <1>4, <2>2, <2>3, <2>4
<1> QED
  BY <1>3, <1>4, AddedCases

-----------------------------------------------------------------------------
(* A write and a withdrawal, whoever calls them.                           *)

StoreInv ==
  /\ records \in SUBSET Record
  /\ IdsNameRecords
  /\ OneCurrentFact
  /\ AnchorsAreLastObservation
  /\ EpisodesBelongToJobs

\* A record as the writers of this module make them, having looked at tree
NewFrom(r, tree) ==
  /\ r \in Record /\ r.id = minted + 1
  /\ \A s \in DOMAIN r.anchors : r.anchors[s] = Hashes(tree)[s]
  /\ r.type = "episodic" => r.source \in Jobs /\ r.title = r.source

\* After a write every anchor is the tree that its last writer looked at.
LEMMA WriteObserves ==
  ASSUME minted \in Nat, StoreInv, NEW r, NEW tree, NewFrom(r, tree), Write(r, tree)
  PROVE  AnchorsAreLastObservation'
<1> DEFINE Recorded(x) == \A s \in DOMAIN x.anchors : x.anchors[s] = Hashes(observed'[x.id])[s]
           Confirmed(i) == IsAnchored(r) /\ \E c \in CurrentFor(records, r) :
                             c.id = i /\ Resolution(c, r) = "corroborate"
<1>1. /\ records' = Added(records, r) /\ OneCurrentIn(records)
      /\ r \in Record /\ records \in SUBSET Record
      /\ \A x \in records : x.id # r.id
  <2>1. records' = Added(records, r) /\ OneCurrentIn(records)
    BY DEF Write, StoreInv, OneCurrentFact, OneCurrentIn
  <2>2. r \in Record /\ records \in SUBSET Record
    BY DEF NewFrom, StoreInv
  <2>3. ASSUME NEW x \in records PROVE x.id # r.id
    <3>1. x.id <= minted /\ r.id = minted + 1
      BY DEF StoreInv, IdsNameRecords, NewFrom
    <3>2. x.id \in Nat
      BY <2>2 DEF Record
    <3> QED
      BY <3>1, <3>2
  <2> QED
    BY <2>1, <2>2, <2>3
<1>2. ASSUME NEW x \in records', x.id = r.id \/ Confirmed(x.id), x.anchors = r.anchors
      PROVE  Recorded(x)
  <2>1. IsAnchored(x) => observed'[x.id] = tree
    BY <1>1, <1>2 DEF Write
  <2> QED
    BY <1>2, <2>1 DEF IsAnchored, NewFrom
<1>3. ASSUME NEW x \in records', NEW o \in records,
             x.id = o.id, x.anchors = o.anchors, ~Confirmed(o.id)
      PROVE  Recorded(x)
  <2>1. IsAnchored(x) => observed'[x.id] = observed[o.id]
    BY <1>1, <1>3 DEF Write
  <2> QED
    BY <1>3, <2>1 DEF IsAnchored, StoreInv, AnchorsAreLastObservation
<1>4. \A x \in records' : Recorded(x)
  <2> SUFFICES ASSUME NEW x \in records' PROVE Recorded(x)
    OBVIOUS
  <2> HIDE DEF Recorded, Confirmed
  <2>1. Invalid(r).id = r.id /\ Invalid(r).anchors = r.anchors
    BY <1>1, InvalidRemains DEF RemainsOf, BecameOf
  <2>2. \A o, e \in records : o.id = e.id => o = e
    BY DEF StoreInv, IdsNameRecords
  <2>3. CASE CurrentFor(records, r) = {} /\ records' = records \cup {r}
    <3>1. \A i : ~Confirmed(i)
      BY <2>3 DEF Confirmed
    <3> QED
      BY <1>2, <1>3, <2>3, <3>1
  <2>4. ASSUME NEW e \in records, CurrentFor(records, r) = {e},
               Resolution(e, r) = "corroborate",
               records' = (records \ {e}) \cup {Corroborated(e, r)}
        PROVE  Recorded(x)
    <3>1. \A o \in records \ {e} : ~Confirmed(o.id)
      BY <2>2, <2>4 DEF Confirmed
    <3>2. CASE x \in records \ {e}
      BY <1>3, <3>1, <3>2
    <3>3. CASE x = Corroborated(e, r)
      <4>1. x.id = e.id /\ x.anchors = IF IsAnchored(r) THEN r.anchors ELSE e.anchors
        BY <1>1, <3>3, CorroboratedRemains DEF BecameOf
      <4>2. Confirmed(e.id) <=> IsAnchored(r)
        BY <2>4 DEF Confirmed
      <4> QED
        BY <1>2, <1>3, <4>1, <4>2
    <3> QED
      BY <2>4, <3>2, <3>3
  <2>5. ASSUME NEW e \in records, CurrentFor(records, r) = {e},
               Resolution(e, r) # "corroborate",
               \/ records' = (records \ {e}) \cup {Invalid(e), r}
               \/ records' = records \cup {Invalid(r)}
        PROVE  Recorded(x)
    <3>1. \A i : ~Confirmed(i)
      BY <2>5 DEF Confirmed
    <3>2. Invalid(e).id = e.id /\ Invalid(e).anchors = e.anchors
      BY <1>1, InvalidRemains DEF RemainsOf, BecameOf
    <3> QED
      BY <1>2, <1>3, <2>1, <2>5, <3>1, <3>2
  <2>6. "supersede" # "corroborate" /\ "reject" # "corroborate"
    OBVIOUS
  <2> QED
    BY <1>1, <2>3, <2>4, <2>5, <2>6, AddedCases
<1> QED
  BY <1>4 DEF AnchorsAreLastObservation

\* A write keeps the store in order, and what it leaves is the newcomer or what
\* has become of an old record.
LEMMA WriteKeeps ==
  ASSUME minted \in Nat, StoreInv, NEW r, NEW tree, NewFrom(r, tree), Write(r, tree)
  PROVE  /\ minted' = minted + 1 /\ StoreInv'
         /\ \A x \in records' : BecameOf(x, r) \/ \E o \in records : BecameOf(x, o)
         /\ \A o \in records : ~SameFact(o, r) => o \in records'
<1>1. /\ records' = Added(records, r) /\ OneCurrentIn(records)
      /\ r \in Record /\ r.id = minted + 1 /\ records \in SUBSET Record /\ minted' = minted + 1
  BY DEF Write, StoreInv, OneCurrentFact, OneCurrentIn, NewFrom
<1>2. \A x \in records : x.id \in Nat /\ x.id <= minted
  BY <1>1 DEF StoreInv, IdsNameRecords, Record
<1>3. /\ records' \in SUBSET Record
      /\ \A x \in records' : BecameOf(x, r) \/ \E o \in records : BecameOf(x, o)
  BY <1>1, AddedRecords
<1>4. \A o \in records : ~SameFact(o, r) => o \in records'
  BY <1>1, AddedKeepsOtherFacts
<1>5. IdsNameRecords'
  <2>1. \A x \in records : x.id # r.id
    BY <1>1, <1>2
  <2>2. \A x, y \in records : x.id = y.id => x = y
    BY DEF StoreInv, IdsNameRecords
  <2>3. \A x, y \in records' : x.id = y.id => x = y
    BY <1>1, <2>1, <2>2, AddedIds
  <2>4. \A x \in records' : x.id <= minted'
    BY <1>1, <1>2, <1>3 DEF BecameOf
  <2> QED
    BY <2>3, <2>4 DEF IdsNameRecords
<1>6. OneCurrentFact'
  BY <1>1, AddedOneCurrent DEF OneCurrentIn, OneCurrentFact
<1>7. EpisodesBelongToJobs'
  BY <1>3 DEF StoreInv, EpisodesBelongToJobs, BecameOf, NewFrom
<1> QED
  BY <1>1, <1>3, <1>4, <1>5, <1>6, <1>7, WriteObserves DEF StoreInv

\* A withdrawal replaces every record by what remains of it.
LEMMA WithdrawalKeeps ==
  ASSUME StoreInv, UNCHANGED <<minted, observed>>, NEW left,
         records' = Remains(left, records),
         \A r \in records : left[r] \in Record /\ RemainsOf(left[r], r)
  PROVE  /\ StoreInv'
         /\ \A x \in records' : \E o \in records : BecameOf(x, o)
<1>1. \A x \in records' : \E r \in records : x = left[r] /\ x \in Record /\ RemainsOf(x, r)
  BY DEF Remains
<1>2. records' \in SUBSET Record
  BY <1>1
<1>3. IdsNameRecords'
  BY <1>1 DEF StoreInv, IdsNameRecords, RemainsOf, BecameOf
<1>4. OneCurrentFact'
  BY <1>1 DEF StoreInv, OneCurrentFact, SameFact, RemainsOf, BecameOf
<1>5. AnchorsAreLastObservation'
  <2> SUFFICES ASSUME NEW x \in records', NEW s \in DOMAIN x.anchors
               PROVE  x.anchors[s] = Hashes(observed'[x.id])[s]
    BY DEF AnchorsAreLastObservation
  <2>1. PICK r \in records : RemainsOf(x, r)
    BY <1>1
  <2> QED
    BY <2>1 DEF StoreInv, AnchorsAreLastObservation, RemainsOf, BecameOf
<1>6. EpisodesBelongToJobs'
  BY <1>1 DEF StoreInv, EpisodesBelongToJobs, RemainsOf, BecameOf
<1> QED
  BY <1>1, <1>2, <1>3, <1>4, <1>5, <1>6 DEF StoreInv, RemainsOf

-----------------------------------------------------------------------------
(* The steps.                                                              *)

\* The store starts empty, with no ingest under way.
LEMMA InitIInv == Init => IInv
<1> SUFFICES ASSUME Init PROVE IInv
  OBVIOUS
<1>1. TypeOK
  BY MemoryAssumption DEF Init, TypeOK
<1> QED
  BY <1>1 DEF Init, IInv, IdsNameRecords, OneCurrentFact, AnchorsAreLastObservation,
     EpisodesBelongToJobs, EarlierEpisodesRetired, FoundAreDigests

\* What NewRecord makes is a record of the writer that looked at tree.
LEMMA NewRecordIs ==
  ASSUME minted \in Nat, NEW type \in {"semantic", "procedural", "episodic"},
         NEW title \in {"layout", "command"} \cup Jobs, NEW content \in Contents,
         NEW source \in {"user", "repo_load"} \cup Jobs,
         NEW D \in SUBSET Subjects, NEW tree \in Trees,
         type = "episodic" => source \in Jobs /\ title = source
  PROVE  LET r == NewRecord(type, title, content, source, AnchorsTo(D, tree)) IN
         /\ NewFrom(r, tree)
         /\ r.type = type /\ r.title = title /\ r.source = source /\ r.valid
<1> DEFINE r == NewRecord(type, title, content, source, AnchorsTo(D, tree))
<1>1. /\ r.id = minted + 1 /\ r.repo = Repo /\ r.type = type /\ r.title = title
      /\ r.content = content /\ r.source = source /\ r.trust = FullTrust /\ r.count = 1
      /\ r.valid = TRUE /\ r.anchors = AnchorsTo(D, tree) /\ r.outdated = FALSE
  BY DEF NewRecord
<1>2. FullTrust \in Nat
  BY DEF FullTrust
<1>3. r \in Record
  <2>1. AnchorsTo(D, tree) \in Anchorings
    BY AnchorsOfATree
  <2> HIDE DEF FullTrust
  <2> QED
    BY <1>2, <2>1 DEF NewRecord, Record
<1>4. \A s \in DOMAIN r.anchors : r.anchors[s] = Hashes(tree)[s]
  BY <1>1, AnchorsOfATree
<1> QED
  BY <1>1, <1>3, <1>4 DEF NewFrom

\* A write by anyone but a job about to write its episode disturbs nothing, unless
\* it is that episode.
LEMMA WriteStep ==
  ASSUME IInv, NEW r, NEW tree, NewFrom(r, tree), Write(r, tree),
         UNCHANGED ingest.found
  PROVE  StoreInv' /\ minted' \in Nat /\ FoundAreDigests'
<1>1. minted \in Nat /\ StoreInv /\ r \in Record /\ r.id = minted + 1
  BY DEF IInv, StoreInv, TypeOK, NewFrom
<1>2. /\ minted' = minted + 1 /\ StoreInv'
      /\ \A x \in records' : BecameOf(x, r) \/ \E o \in records : BecameOf(x, o)
  BY <1>1, WriteKeeps
<1>3. ingest.found \subseteq Nat
  BY DEF IInv, TypeOK
<1>4. \A i \in ingest.found : i <= minted /\ i <= minted' /\ i # r.id
  BY <1>1, <1>2, <1>3 DEF IInv, FoundAreDigests
<1>5. \A x \in records' : x.id \in ingest.found => x.type = "semantic"
  BY <1>2, <1>4 DEF IInv, FoundAreDigests, BecameOf
<1> QED
  BY <1>1, <1>2, <1>4, <1>5 DEF FoundAreDigests

\* A step that leaves the records alone
LEMMA QuietStep ==
  ASSUME IInv, UNCHANGED <<records, minted, observed>>
  PROVE  StoreInv' /\ minted' \in Nat
BY DEF IInv, TypeOK, StoreInv, IdsNameRecords, OneCurrentFact, SameFact,
   AnchorsAreLastObservation, EpisodesBelongToJobs

\* The user and the working tree disturb neither the ingestion nor the recorders.
LEMMA UserSteps ==
  ASSUME IInv, Edit \/ (\E note \in Notes : Remember(note)) \/ Delete
  PROVE  IInv'
<1>1. CASE Edit
  <2>1. StoreInv' /\ minted' \in Nat
    BY <1>1, QuietStep DEF Edit
  <2>2. TypeOK'
    BY <1>1, <2>1, MemoryAssumption DEF Edit, IInv, TypeOK, StoreInv
  <2> QED
    BY <1>1, <2>1, <2>2 DEF Edit, IInv, StoreInv, EarlierEpisodesRetired, FoundAreDigests
<1>2. ASSUME NEW note \in Notes, Remember(note) PROVE IInv'
  <2> DEFINE r == NewRecord("semantic", "layout", note, "user", AnchorsTo({}, workspace))
  <2>1. Unanchored = AnchorsTo({}, workspace)
    BY DEF Unanchored, AnchorsTo
  <2>2. NewFrom(r, workspace) /\ r.type = "semantic"
    <3>1. minted \in Nat /\ workspace \in Trees /\ note \in Contents /\ {} \in SUBSET Subjects
      BY DEF IInv, TypeOK, Contents
    <3> QED
      BY <3>1, NewRecordIs
  <2>3. Write(r, workspace) /\ UNCHANGED <<workspace, ingest, recorder>>
    BY <1>2, <2>1 DEF Remember
  <2> HIDE DEF r
  <2>4. StoreInv' /\ minted' \in Nat /\ FoundAreDigests'
    BY <2>2, <2>3, WriteStep
  <2>5. TypeOK'
    BY <2>3, <2>4 DEF IInv, TypeOK, StoreInv
  <2>6. \A x \in records' : BecameOf(x, r) \/ \E o \in records : BecameOf(x, o)
    BY <2>2, <2>3, WriteKeeps DEF IInv, StoreInv, TypeOK
  <2>7. EarlierEpisodesRetired'
    BY <2>2, <2>3, <2>6 DEF IInv, EarlierEpisodesRetired, BecameOf
  <2> QED
    BY <2>4, <2>5, <2>7 DEF IInv, StoreInv
<1>3. CASE Delete
  <2>1. records' = {}
    BY <1>3 DEF Delete, Forgotten, IInv, TypeOK, Record
  <2>2. TypeOK'
    BY <1>3, <2>1 DEF Delete, IInv, TypeOK
  <2> QED
    BY <1>3, <2>1, <2>2 DEF Delete, IInv, IdsNameRecords, OneCurrentFact,
       AnchorsAreLastObservation, EpisodesBelongToJobs, EarlierEpisodesRetired, FoundAreDigests
<1> QED
  BY <1>1, <1>2, <1>3

\* An operation that replaces the records by what remains of them, and neither
\* ingests more nor begins an episode
LEMMA WithdrawalStep ==
  ASSUME IInv, UNCHANGED <<workspace, recorder, minted, observed>>, NEW left,
         records' = Remains(left, records),
         \A r \in records : left[r] \in Record /\ RemainsOf(left[r], r)
  PROVE  /\ StoreInv' /\ EarlierEpisodesRetired'
         /\ \A x \in records' : \E o \in records : BecameOf(x, o)
<1>1. StoreInv
  BY DEF IInv, StoreInv, TypeOK
<1>2. StoreInv' /\ \A x \in records' : \E o \in records : BecameOf(x, o)
  BY <1>1, WithdrawalKeeps
<1>3. EarlierEpisodesRetired'
  BY <1>2 DEF IInv, EarlierEpisodesRetired, BecameOf
<1> QED
  BY <1>2, <1>3

\* What invalidate, a sweep and the check before serving leave of each record
InvalidatedEach(R, ids) == [r \in R |-> IF r.id \in ids THEN Invalid(r) ELSE r]
SweptEach(R, hashes)    == [r \in R |-> IF r.repo = Repo THEN Rechecked(r, hashes) ELSE r]
ServedEach(R, hashes)   == [r \in R |-> IF OnlyFiles(r) THEN Rechecked(r, hashes) ELSE r]

\* invalidate leaves of a record what Invalid leaves of it, or all of it.
LEMMA InvalidatedRemains ==
  ASSUME NEW R \in SUBSET Record, NEW ids
  PROVE  /\ Invalidated(R, ids) = Remains(InvalidatedEach(R, ids), R)
         /\ \A r \in R : /\ InvalidatedEach(R, ids)[r] \in Record
                         /\ RemainsOf(InvalidatedEach(R, ids)[r], r)
                         /\ r.id \notin ids => InvalidatedEach(R, ids)[r] = r
                         /\ r.id \in ids => ~InvalidatedEach(R, ids)[r].valid
<1>1. Invalidated(R, ids) = Remains(InvalidatedEach(R, ids), R)
  BY DEF Invalidated, Remains, InvalidatedEach
<1> QED
  BY <1>1, InvalidRemains DEF RemainsOf, BecameOf, InvalidatedEach

\* A sweep leaves of a record what Rechecked leaves of it: history stays current.
LEMMA SweptRemains ==
  ASSUME NEW R \in SUBSET Record, NEW hashes
  PROVE  /\ Swept(R, Repo, hashes) = Remains(SweptEach(R, hashes), R)
         /\ \A r \in R : /\ SweptEach(R, hashes)[r] \in Record
                         /\ RemainsOf(SweptEach(R, hashes)[r], r)
                         /\ r.valid /\ r.type \in Historical => SweptEach(R, hashes)[r].valid
<1>1. Swept(R, Repo, hashes) = Remains(SweptEach(R, hashes), R)
  BY DEF Swept, Remains, SweptEach
<1> QED
  BY <1>1, RecheckedRemains DEF RemainsOf, BecameOf, SweptEach

\* So does the check of what is about to be served.
LEMMA ServedRemains ==
  ASSUME NEW R \in SUBSET Record, NEW hashes
  PROVE  /\ { IF OnlyFiles(r) THEN Rechecked(r, hashes) ELSE r : r \in R }
               = Remains(ServedEach(R, hashes), R)
         /\ \A r \in R : /\ ServedEach(R, hashes)[r] \in Record
                         /\ RemainsOf(ServedEach(R, hashes)[r], r)
                         /\ r.valid /\ r.type \in Historical => ServedEach(R, hashes)[r].valid
<1>1. { IF OnlyFiles(r) THEN Rechecked(r, hashes) ELSE r : r \in R }
        = Remains(ServedEach(R, hashes), R)
  BY DEF Remains, ServedEach
<1> QED
  BY <1>1, RecheckedRemains DEF RemainsOf, BecameOf, ServedEach

-----------------------------------------------------------------------------
(* The ingestion.                                                          *)

\* Each step of an ingestion keeps the invariant: what it found to withdraw are
\* digests still, and what it writes is anchored to the tree it parsed.
LEMMA IngestSteps ==
  ASSUME IInv, Parse \/ Sweep \/ FindDigest \/ RetireDigest \/ WriteDigest
  PROVE  IInv'
<1>1. CASE Parse
  <2>1. StoreInv' /\ minted' \in Nat
    BY <1>1, QuietStep DEF Parse
  <2>2. TypeOK'
    BY <1>1, <2>1 DEF Parse, IInv, TypeOK, StoreInv
  <2>3. ingest'.found = ingest.found
    BY <1>1 DEF Parse, IInv, TypeOK
  <2> QED
    BY <1>1, <2>1, <2>2, <2>3 DEF Parse, IInv, StoreInv, EarlierEpisodesRetired, FoundAreDigests
<1>2. CASE Sweep
  <2> DEFINE left == SweptEach(records, SweptHashes)
  <2>1. /\ records' = Remains(left, records)
        /\ \A r \in records : left[r] \in Record /\ RemainsOf(left[r], r)
    BY <1>2, SweptRemains DEF Sweep, IInv, TypeOK
  <2> HIDE DEF left
  <2>2. /\ StoreInv' /\ EarlierEpisodesRetired'
        /\ \A x \in records' : \E o \in records : BecameOf(x, o)
    BY <1>2, <2>1, WithdrawalStep DEF Sweep
  <2>3. TypeOK'
    BY <1>2, <2>2 DEF Sweep, IInv, TypeOK, StoreInv
  <2>4. ingest'.found = ingest.found /\ minted' = minted
    BY <1>2 DEF Sweep, IInv, TypeOK
  <2>5. FoundAreDigests'
    BY <2>2, <2>4 DEF IInv, FoundAreDigests, BecameOf
  <2> QED
    BY <2>2, <2>3, <2>5 DEF IInv, StoreInv
<1>3. CASE FindDigest
  <2>1. StoreInv' /\ minted' \in Nat
    BY <1>3, QuietStep DEF FindDigest
  <2>2. PICK digests \in SUBSET records :
          /\ \A x \in digests : x.type = "semantic"
          /\ ingest'.found = { x.id : x \in digests }
    <3> DEFINE digests == { x \in Listed(records, Repo, {"semantic"}) :
                              /\ x.title = "layout" /\ x.source = "repo_load"
                              /\ x.content # DigestContent(ingest.tree) }
    <3>1. ingest'.found = { x.id : x \in digests }
      BY <1>3 DEF FindDigest, IInv, TypeOK
    <3>2. digests \in SUBSET records /\ \A x \in digests : x.type = "semantic"
      BY DEF Listed
    <3> QED
      BY <3>1, <3>2
  <2>3. ingest'.found \in SUBSET Nat
    BY <2>2 DEF IInv, TypeOK, Record
  <2>4. TypeOK'
    BY <1>3, <2>1, <2>3 DEF FindDigest, IInv, TypeOK, StoreInv
  <2>5. FoundAreDigests'
    <3>1. records' = records /\ minted' = minted
      BY <1>3 DEF FindDigest
    <3> QED
      BY <2>2, <3>1 DEF IInv, IdsNameRecords, FoundAreDigests
  <2> QED
    BY <1>3, <2>1, <2>4, <2>5 DEF FindDigest, IInv, StoreInv, EarlierEpisodesRetired
<1>4. CASE RetireDigest
  <2> DEFINE left == InvalidatedEach(records, ingest.found)
  <2>1. /\ records' = Remains(left, records)
        /\ \A r \in records : left[r] \in Record /\ RemainsOf(left[r], r)
    <3>1. records' = Invalidated(records, ingest.found)
      BY <1>4 DEF RetireDigest
    <3>2. records \in SUBSET Record
      BY DEF IInv, TypeOK
    <3>3. Invalidated(records, ingest.found) = Remains(left, records)
      BY <3>2, InvalidatedRemains
    <3>4. \A r \in records : left[r] \in Record /\ RemainsOf(left[r], r)
      BY <3>2, InvalidatedRemains
    <3> QED
      BY <3>1, <3>2, <3>3, <3>4
  <2> HIDE DEF left
  <2>2. StoreInv' /\ EarlierEpisodesRetired'
    BY <1>4, <2>1, WithdrawalStep DEF RetireDigest
  <2>3. TypeOK' /\ ingest'.found = {}
    BY <1>4, <2>2 DEF RetireDigest, IInv, TypeOK, StoreInv
  <2> QED
    BY <2>2, <2>3 DEF IInv, StoreInv, FoundAreDigests
<1>5. CASE WriteDigest
  <2> DEFINE r == NewRecord("semantic", "layout", DigestContent(ingest.tree), "repo_load",
                            AnchorsTo({"tree"}, ingest.tree))
  <2>1. Write(r, ingest.tree) /\ UNCHANGED <<workspace, recorder>>
    BY <1>5 DEF WriteDigest
  <2>2. NewFrom(r, ingest.tree) /\ r.type = "semantic"
    <3>1. minted \in Nat /\ ingest.tree \in Trees /\ {"tree"} \in SUBSET Subjects
      BY <1>5 DEF WriteDigest, IInv, TypeOK, Subjects
    <3>2. DigestContent(ingest.tree) \in Contents
      <4>1. DOMAIN ingest.tree = {"src", "manifest"}
        BY <3>1 DEF Trees
      <4>2. DigestContent(ingest.tree) = { f \in DOMAIN ingest.tree : ingest.tree[f] # "absent" }
        BY DEF DigestContent, Hashes
      <4> QED
        BY <4>1, <4>2 DEF Contents
    <3> QED
      BY <3>1, <3>2, NewRecordIs
  <2> HIDE DEF r
  <2>3. ingest'.found = ingest.found
    BY <1>5 DEF WriteDigest, IInv, TypeOK
  <2>4. StoreInv' /\ minted' \in Nat /\ FoundAreDigests'
    BY <2>1, <2>2, <2>3, WriteStep
  <2>5. TypeOK'
    BY <1>5, <2>1, <2>4 DEF WriteDigest, IInv, TypeOK, StoreInv
  <2>6. \A x \in records' : BecameOf(x, r) \/ \E o \in records : BecameOf(x, o)
    BY <2>1, <2>2, WriteKeeps DEF IInv, StoreInv, TypeOK
  <2>7. EarlierEpisodesRetired'
    BY <2>1, <2>2, <2>6 DEF IInv, EarlierEpisodesRetired, BecameOf
  <2> QED
    BY <2>4, <2>5, <2>7 DEF IInv, StoreInv
<1> QED
  BY <1>1, <1>2, <1>3, <1>4, <1>5

-----------------------------------------------------------------------------
(* The recorders and the readers.                                          *)

\* What a job's recorder writes: the retirement of the episodes of its earlier turns, the
\* episode of this one and the record of a command that failed.
LEMMA RecorderSteps ==
  ASSUME IInv, NEW j \in Jobs, RetireEpisodes(j) \/ WriteEpisode(j) \/ WriteCommand(j)
  PROVE  IInv'
<1>1. CASE RetireEpisodes(j)
  <2> DEFINE ids == { r.id : r \in { x \in Listed(records, Repo, Historical) : x.source = j } }
  <2>1. records' = Invalidated(records, ids) /\ UNCHANGED <<workspace, ingest, minted, observed>>
    BY <1>1 DEF RetireEpisodes
  <2>2. \A r \in records : r.type = "episodic" /\ r.source = j /\ r.valid => r.id \in ids
    BY DEF Listed, Historical, IInv, TypeOK, Record
  <2> HIDE DEF ids
  <2> DEFINE left == InvalidatedEach(records, ids)
  <2>3. /\ records' = Remains(left, records)
        /\ \A r \in records : /\ left[r] \in Record /\ RemainsOf(left[r], r)
                              /\ r.id \in ids => ~left[r].valid
    BY <2>1, InvalidatedRemains DEF IInv, TypeOK
  <2> HIDE DEF left
  <2>4. StoreInv' /\ \A x \in records' : \E o \in records : BecameOf(x, o)
    BY <2>1, <2>3, WithdrawalKeeps DEF IInv, StoreInv, TypeOK
  <2>5. /\ recorder' \in [Jobs -> [pc : {"working", "episode", "command"},
                                  tree : Trees \cup {Nothing}, status : {"done", "error"}]]
        /\ recorder'[j].pc = "episode" /\ recorder'[j].tree \in Trees
        /\ \A i \in Jobs \ {j} : recorder'[i] = recorder[i]
    BY <1>1 DEF RetireEpisodes, IInv, TypeOK
  <2>6. TypeOK'
    BY <2>1, <2>4, <2>5 DEF IInv, TypeOK, StoreInv
  <2>7. FoundAreDigests'
    BY <2>1, <2>4 DEF IInv, FoundAreDigests, BecameOf
  <2>8. ASSUME NEW x \in records', x.type = "episodic", x.source = j PROVE ~x.valid
    <3>1. PICK r \in records : x = left[r] /\ RemainsOf(x, r)
      BY <2>3 DEF Remains
    <3> QED
      BY <2>2, <2>3, <2>8, <3>1 DEF RemainsOf, BecameOf
  <2>9. EarlierEpisodesRetired'
    BY <2>4, <2>5, <2>8 DEF IInv, EarlierEpisodesRetired, BecameOf
  <2> QED
    BY <2>4, <2>6, <2>7, <2>9 DEF IInv, StoreInv
<1>2. CASE WriteEpisode(j)
  <2> DEFINE r == NewRecord("episodic", j, {recorder[j].status}, j,
                            AnchorsTo({"file:src"}, recorder[j].tree))
  <2>1. Write(r, recorder[j].tree) /\ UNCHANGED <<workspace, ingest>>
    BY <1>2 DEF WriteEpisode
  <2>2. NewFrom(r, recorder[j].tree) /\ r.type = "episodic" /\ r.source = j
    <3>1. minted \in Nat /\ recorder[j].tree \in Trees /\ {"file:src"} \in SUBSET Subjects
      BY <1>2 DEF WriteEpisode, IInv, TypeOK, Subjects
    <3>2. {recorder[j].status} \in Contents
      BY DEF IInv, TypeOK, Contents
    <3>3. /\ j \in {"layout", "command"} \cup Jobs /\ j \in {"user", "repo_load"} \cup Jobs
          /\ "episodic" \in {"semantic", "procedural", "episodic"}
      OBVIOUS
    <3> QED
      BY <3>1, <3>2, <3>3, NewRecordIs
  <2> HIDE DEF r
  <2>3. StoreInv' /\ minted' \in Nat /\ FoundAreDigests'
    BY <2>1, <2>2, WriteStep
  <2>4. /\ recorder' \in [Jobs -> [pc : {"working", "episode", "command"},
                                  tree : Trees \cup {Nothing}, status : {"done", "error"}]]
        /\ recorder'[j].pc # "episode"
        /\ \A i \in Jobs \ {j} : recorder'[i] = recorder[i]
    BY <1>2 DEF WriteEpisode, IInv, TypeOK
  <2>5. TypeOK'
    BY <2>1, <2>3, <2>4 DEF IInv, TypeOK, StoreInv
  <2>6. \A x \in records' : BecameOf(x, r) \/ \E o \in records : BecameOf(x, o)
    BY <2>1, <2>2, WriteKeeps DEF IInv, StoreInv, TypeOK
  <2>7. EarlierEpisodesRetired'
    BY <2>2, <2>4, <2>6 DEF IInv, EarlierEpisodesRetired, BecameOf
  <2> QED
    BY <2>3, <2>5, <2>7 DEF IInv, StoreInv
<1>3. CASE WriteCommand(j)
  <2>1. /\ recorder' \in [Jobs -> [pc : {"working", "episode", "command"},
                                  tree : Trees \cup {Nothing}, status : {"done", "error"}]]
        /\ recorder'[j].pc # "episode"
        /\ \A i \in Jobs \ {j} : recorder'[i] = recorder[i]
        /\ UNCHANGED <<workspace, ingest>>
    BY <1>3 DEF WriteCommand, IInv, TypeOK
  <2>2. CASE UNCHANGED <<records, minted, observed>>
    <3>1. StoreInv' /\ minted' \in Nat
      BY <2>2, QuietStep
    <3>2. TypeOK'
      BY <2>1, <3>1 DEF IInv, TypeOK, StoreInv
    <3> QED
      BY <2>1, <2>2, <3>1, <3>2 DEF IInv, StoreInv, EarlierEpisodesRetired, FoundAreDigests
  <2> DEFINE said == {"exit 0"}
             r == NewRecord("procedural", "command", said, j,
                            AnchorsTo({"file:manifest"}, workspace))
  <2>3. CASE Write(r, workspace)
    <3>1. NewFrom(r, workspace) /\ r.type = "procedural"
      <4>1. /\ minted \in Nat /\ workspace \in Trees /\ {"file:manifest"} \in SUBSET Subjects
            /\ said \in Contents /\ j \in {"user", "repo_load"} \cup Jobs
            /\ "command" \in {"layout", "command"} \cup Jobs
            /\ "procedural" \in {"semantic", "procedural", "episodic"}
        BY DEF IInv, TypeOK, Subjects, Contents
      <4> HIDE DEF said
      <4> QED
        BY <4>1, NewRecordIs
    <3> HIDE DEF r
    <3>2. StoreInv' /\ minted' \in Nat /\ FoundAreDigests'
      BY <2>1, <2>3, <3>1, WriteStep
    <3>3. TypeOK'
      BY <2>1, <3>2 DEF IInv, TypeOK, StoreInv
    <3>4. \A x \in records' : BecameOf(x, r) \/ \E o \in records : BecameOf(x, o)
      BY <2>3, <3>1, WriteKeeps DEF IInv, StoreInv, TypeOK
    <3>5. EarlierEpisodesRetired'
      BY <2>1, <3>1, <3>4 DEF IInv, EarlierEpisodesRetired, BecameOf
    <3> QED
      BY <3>2, <3>3, <3>5 DEF IInv, StoreInv
  <2> QED
    BY <1>3, <2>2, <2>3 DEF WriteCommand
<1> QED
  BY <1>1, <1>2, <1>3

\* A retrieval flags what it serves and rewrites nothing else.
LEMMA RetrieveStep ==
  ASSUME IInv, Retrieve
  PROVE  IInv'
<1> DEFINE left == ServedEach(records, Hashes(workspace))
<1>1. /\ records' = Remains(left, records)
      /\ \A r \in records : left[r] \in Record /\ RemainsOf(left[r], r)
  BY ServedRemains DEF Retrieve, IInv, TypeOK
<1> HIDE DEF left
<1>2. /\ StoreInv' /\ EarlierEpisodesRetired'
      /\ \A x \in records' : \E o \in records : BecameOf(x, o)
  BY <1>1, WithdrawalStep DEF Retrieve
<1>3. TypeOK'
  BY <1>2 DEF Retrieve, IInv, TypeOK, StoreInv
<1>4. FoundAreDigests'
  BY <1>2 DEF Retrieve, IInv, FoundAreDigests, BecameOf
<1> QED
  BY <1>2, <1>3, <1>4 DEF IInv, StoreInv

\* Every step keeps the invariant.
LEMMA NextIInv == IInv /\ [Next]_vars => IInv'
<1> SUFFICES ASSUME IInv, [Next]_vars PROVE IInv'
  OBVIOUS
<1>1. CASE UNCHANGED vars
  BY <1>1 DEF vars, IInv, TypeOK, IdsNameRecords, OneCurrentFact, SameFact,
     AnchorsAreLastObservation, EpisodesBelongToJobs, EarlierEpisodesRetired, FoundAreDigests
<1> QED
  BY <1>1, UserSteps, IngestSteps, RecorderSteps, RetrieveStep DEF Next

\* The invariant holds throughout.
THEOREM Invariance == Spec => []IInv
BY InitIInv, NextIInv, PTL DEF Spec

\* However writers, sweeps, retrievals and deletes interleave (store.py, anchors.py,
\* experience.py, _ingest of repository/api.py), a fact has one current record at
\* most, and every anchor is the tree that its writer, or whoever confirmed it last,
\* looked at.
THEOREM CurrentFacts == Spec => []FactsAreCurrent
<1>1. IInv => FactsAreCurrent
  BY DEF IInv, FactsAreCurrent
<1> QED
  BY <1>1, Invariance, PTL

-----------------------------------------------------------------------------
(* History.                                                                *)

\* What one step does to the episodes that are current
KeepsHistory ==
  \A r \in records : r.valid /\ r.type \in Historical =>
    \/ \E s \in records' : s.id = r.id /\ s.valid
    \/ recorder'[r.source].pc = "episode"
    \/ records' = {}

\* A sweep, a retrieval, the withdrawal of a digest and the writes of others leave
\* every episode current.
LEMMA HistoryStep == IInv /\ [Next]_vars => KeepsHistory
<1> SUFFICES ASSUME IInv, [Next]_vars,
                    NEW r \in records, r.valid, r.type \in Historical
             PROVE  \/ \E s \in records' : s.id = r.id /\ s.valid
                    \/ recorder'[r.source].pc = "episode"
                    \/ records' = {}
  BY DEF KeepsHistory
<1>1. /\ records \in SUBSET Record /\ r \in Record /\ r.type = "episodic"
      /\ r.source \in Jobs /\ r.title = r.source
      /\ OneCurrentIn(records)
  BY DEF Historical, IInv, TypeOK, EpisodesBelongToJobs, OneCurrentFact, OneCurrentIn
<1>2. ASSUME NEW n, NEW tree, Write(n, tree), ~SameFact(r, n)
      PROVE  r \in records'
  BY <1>1, <1>2, AddedKeepsOtherFacts DEF Write
<1>3. CASE UNCHANGED records
  BY <1>3
<1>4. ASSUME NEW note \in Notes, Remember(note) PROVE r \in records'
  <2> DEFINE n == NewRecord("semantic", "layout", note, "user", Unanchored)
  <2>1. Write(n, workspace)
    BY <1>4 DEF Remember
  <2>2. n.type = "semantic"
    BY DEF NewRecord
  <2> HIDE DEF n
  <2> QED
    BY <1>1, <1>2, <2>1, <2>2 DEF SameFact
<1>5. CASE Delete
  BY <1>1, <1>5 DEF Delete, Forgotten, IInv, TypeOK, Record
<1>6. CASE Sweep
  <2> DEFINE left == SweptEach(records, SweptHashes)
  <2>1. /\ records' = Remains(left, records)
        /\ RemainsOf(left[r], r) /\ left[r].valid
    BY <1>1, <1>6, SweptRemains DEF Sweep
  <2> HIDE DEF left
  <2>2. left[r] \in records'
    BY <2>1 DEF Remains
  <2> QED
    BY <2>1, <2>2 DEF RemainsOf, BecameOf
<1>7. CASE Retrieve
  <2> DEFINE left == ServedEach(records, Hashes(workspace))
  <2>1. /\ records' = Remains(left, records)
        /\ RemainsOf(left[r], r) /\ left[r].valid
    BY <1>1, <1>7, ServedRemains DEF Retrieve
  <2> HIDE DEF left
  <2>2. left[r] \in records'
    BY <2>1 DEF Remains
  <2> QED
    BY <2>1, <2>2 DEF RemainsOf, BecameOf
<1>8. CASE RetireDigest
  <2> DEFINE left == InvalidatedEach(records, ingest.found)
  <2>1. r.id \notin ingest.found
    BY <1>1 DEF IInv, FoundAreDigests
  <2>2. records' = Remains(left, records) /\ left[r] = r
    BY <1>1, <1>8, <2>1, InvalidatedRemains DEF RetireDigest
  <2> HIDE DEF left
  <2> QED
    BY <2>2 DEF Remains
<1>9. CASE WriteDigest
  <2> DEFINE n == NewRecord("semantic", "layout", DigestContent(ingest.tree), "repo_load",
                            AnchorsTo({"tree"}, ingest.tree))
  <2>1. Write(n, ingest.tree)
    BY <1>9 DEF WriteDigest
  <2>2. n.type = "semantic"
    BY DEF NewRecord
  <2> HIDE DEF n
  <2> QED
    BY <1>1, <1>2, <2>1, <2>2 DEF SameFact
<1>10. ASSUME NEW j \in Jobs, RetireEpisodes(j)
       PROVE  r \in records' \/ recorder'[r.source].pc = "episode"
  <2> DEFINE ids == { x.id : x \in { y \in Listed(records, Repo, Historical) : y.source = j } }
             left == InvalidatedEach(records, ids)
  <2>1. CASE r.source = j
    <3>1. recorder'[j].pc = "episode"
      BY <1>10 DEF RetireEpisodes, IInv, TypeOK
    <3> QED
      BY <2>1, <3>1
  <2>2. CASE r.source # j
    <3>1. r.id \notin ids
      BY <2>2 DEF Listed, IInv, IdsNameRecords
    <3>2. records' = Invalidated(records, ids)
      BY <1>10 DEF RetireEpisodes
    <3> HIDE DEF ids
    <3>3. records' = Remains(left, records) /\ left[r] = r
      BY <1>1, <3>1, <3>2, InvalidatedRemains
    <3> HIDE DEF left
    <3> QED
      BY <3>3 DEF Remains
  <2> QED
    BY <2>1, <2>2
<1>11. ASSUME NEW j \in Jobs, WriteEpisode(j) PROVE r \in records'
  <2> DEFINE n == NewRecord("episodic", j, {recorder[j].status}, j,
                            AnchorsTo({"file:src"}, recorder[j].tree))
  <2>1. Write(n, recorder[j].tree)
    BY <1>11 DEF WriteEpisode
  <2>2. n.title = j
    BY DEF NewRecord
  <2>3. r.source # j
    BY <1>1, <1>11 DEF WriteEpisode, IInv, EarlierEpisodesRetired
  <2> HIDE DEF n
  <2> QED
    BY <1>1, <1>2, <2>1, <2>2, <2>3 DEF SameFact
<1>12. ASSUME NEW j \in Jobs, WriteCommand(j) PROVE r \in records'
  <2> DEFINE said == {"exit 0"}
             n == NewRecord("procedural", "command", said, j,
                            AnchorsTo({"file:manifest"}, workspace))
  <2>1. Write(n, workspace) \/ UNCHANGED records
    BY <1>12 DEF WriteCommand
  <2>2. n.type = "procedural"
    BY DEF NewRecord
  <2> HIDE DEF n
  <2> QED
    BY <1>1, <1>2, <2>1, <2>2 DEF SameFact
<1> QED
  BY <1>3, <1>4, <1>5, <1>6, <1>7, <1>8, <1>9, <1>10, <1>11, <1>12
     DEF Next, vars, Edit, Parse, FindDigest

\* An episode stays current, flagged at most, until its own job records again or the
\* repository is deleted, however often the code it touched changes (sweep_repository
\* of anchors.py, record_job_experience of experience.py).
THEOREM HistoryKept == Spec => HistoryIsKept
<1>1. IInv /\ [Next]_vars => [KeepsHistory]_vars
  BY HistoryStep
<1> QED
  BY <1>1, Invariance, PTL DEF Spec, HistoryIsKept, KeepsHistory
=============================================================================
