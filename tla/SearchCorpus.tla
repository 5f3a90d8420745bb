---------------------------- MODULE SearchCorpus ----------------------------
(***************************************************************************)
(* Public search over an activated runtime (flowdocs/core/utils.py),       *)
(* composed with the mutation epoch it caches under (SourceMutations).     *)
(*                                                                         *)
(* Every gunicorn worker process keeps one normalized corpus and the       *)
(* workers share a result cache; both are keyed by an identity that exists *)
(* only while no mutation scope is open and the barrier is open.  A        *)
(* request that cannot use them reads the folder rows and the stored FAISS *)
(* index, which it rebuilds, inside a mutation scope of its own, when the  *)
(* rows no longer match.                                                   *)
(*                                                                         *)
(* One folder, one question: the hits of a question are the searchable     *)
(* rows with their content.  Ranking, access scopes (part of the cache     *)
(* key) and provider failures are left out.                                *)
(***************************************************************************)
EXTENDS SourceMutations

CONSTANTS
    Procs,       \* search worker processes; each may open a mutation scope
    Docs,        \* documents of the folder
    MaxContent,  \* contents of a document are 1..MaxContent, 0: not searchable
    NoIdentity,  \* verified_runtime_search_identity() = ""
    MaxRequests, \* bound: questions asked
    MaxOutside,  \* bound: documents hidden outside every scope
    MaxRestarts  \* bound: worker processes recycled

ASSUME ProcsAssumption == Procs \subseteq Writers
ASSUME IdentityAssumption == NoIdentity \notin Nat
ASSUME SearchBounds ==
    /\ MaxContent \in Nat \ {0}
    /\ MaxRequests \in Nat /\ MaxOutside \in Nat /\ MaxRestarts \in Nat

VARIABLES
    source,    \* source[d]: content of d when its lifecycle is searchable
    index,     \* what the stored FAISS index of the folder was built from
    results,   \* results[e]: cached hits under the identity of epoch e
    corpus,    \* corpus[p]: _runtime_search_corpus of process p
    disabled,  \* disabled[p]: _runtime_search_corpus_disabled_identity
    req,       \* req[p]: the request process p serves
    outside,   \* documents hidden outside every scope in this epoch
    seen,      \* seen[p]: documents searchable at some time of the request of p
    disturbed, \* disturbed[p]: somebody else moved epoch, barrier or rows
    asked, hiddenOutside, restarts  \* consumed bounds

caches  == <<results, corpus, disabled>>
bounds  == <<asked, hiddenOutside, restarts>>
search  == <<source, index, caches, req, outside, seen, disturbed, bounds>>
allVars == <<vars, search>>

Editors == Writers \ Procs
Rows    == [Docs -> 0..MaxContent]
Nothing == [d \in Docs |-> 0]
Absent  == [d \in {} |-> 0]
Searchable(rows) == {d \in Docs : rows[d] # 0}

\* Fault: open scopes do not withhold the identity.
IdentityDuringWrites == IF barrier.state = "OPEN" THEN epoch ELSE NoIdentity

\* verified_runtime_search_identity: the epoch, while nothing is in motion.
Identity == IF active = 0 /\ barrier.state = "OPEN" THEN epoch ELSE NoIdentity

NoCorpus == [id |-> NoIdentity, rows |-> Absent]
Identities == 0..MaxScopes \cup {NoIdentity}
RequestPCs == {"idle", "cache", "recalled", "corpus", "fill", "admit", "embed",
               "retrieve", "rebuild", "promote", "generate", "visible", "store",
               "answered", "failed"}
\* id: runtime_identity, checked: assertion_identity, rows: the corpus in hand,
\* hits: the evidence, shown: every cached reference was visible.
Request == [pc: RequestPCs, id: Identities, checked: Identities,
            rows: Rows \cup {Absent}, hits: Rows, shown: BOOLEAN,
            promoted: BOOLEAN]
Idle == [pc |-> "idle", id |-> NoIdentity, checked |-> NoIdentity, rows |-> Absent,
         hits |-> Nothing, shown |-> FALSE, promoted |-> FALSE]

SearchInit ==
    /\ Init
    /\ source = [d \in Docs |-> 1] /\ index = source
    /\ results = [e \in 0..MaxScopes |-> Absent]
    /\ corpus = [p \in Procs |-> NoCorpus]
    /\ disabled = [p \in Procs |-> NoIdentity]
    /\ req = [p \in Procs |-> Idle]
    /\ outside = {} /\ seen = [p \in Procs |-> {}]
    /\ disturbed = [p \in Procs |-> FALSE]
    /\ asked = 0 /\ hiddenOutside = 0 /\ restarts = 0

-----------------------------------------------------------------------------
(* The sources move                                                        *)

Disturb(p) == disturbed' = [q \in Procs |-> disturbed[q] \/ q # p]
DisturbAll == disturbed' = [q \in Procs |-> TRUE]

\* Row d takes content v; the requests in progress have seen it.
SetRow(d, v) ==
    /\ v # source[d]
    /\ source' = [source EXCEPT ![d] = v]
    /\ seen' = [p \in Procs |-> IF req[p].pc = "idle" THEN {}
                                ELSE seen[p] \cup Searchable(source')]
    /\ DisturbAll

\* A web view or a worker step inside its scope hides, restores or reprocesses
\* a document; the workers that reprocess also rebuild the index.
EditorWrites(w) ==
    /\ WriteSource(w)
    /\ \E d \in Docs, v \in 0..MaxContent, rebuilt \in BOOLEAN :
          /\ SetRow(d, v)
          /\ index' = IF rebuilt THEN source' ELSE index
    /\ UNCHANGED <<caches, req, outside, bounds>>

\* A new epoch covers what was hidden outside the scopes before it.
EditorScope(w) ==
    /\ \E eager \in BOOLEAN : EnterScope(w, eager) \/ ExitScope(w) \/ WriterDies(w)
    /\ outside' = IF epoch' # epoch THEN {} ELSE outside
    /\ DisturbAll
    /\ UNCHANGED <<source, index, caches, req, seen, bounds>>

BarrierStep ==
    /\ HolderNext \/ \E j \in Jobs : ReopenBarrier(j)
    /\ DisturbAll
    /\ UNCHANGED <<source, index, caches, req, outside, seen, bounds>>

\* remove_pdf_from_search is not one of the MUTATING_VIEW_NAMES: its outcomes
\* superseded and historical_record hide a document outside every scope, even
\* behind a closed barrier, and no epoch tells.
HideOutsideScope(d) ==
    /\ hiddenOutside < MaxOutside
    /\ hiddenOutside' = hiddenOutside + 1
    /\ SetRow(d, 0)
    /\ outside' = outside \cup {d}
    /\ UNCHANGED <<vars, index, caches, req, asked, restarts>>

-----------------------------------------------------------------------------
(* search_pdf_folders                                                      *)

Step(p, r) == req' = [req EXCEPT ![p] = r]
At(p, at)  == req[p].pc = at
Rest(p)    == UNCHANGED <<source, index, outside, seen, disturbed, bounds>>

Ask(p) ==
    /\ At(p, "idle")
    /\ asked < MaxRequests
    /\ asked' = asked + 1
    /\ Step(p, [Idle EXCEPT !.pc = IF Identity = NoIdentity THEN "embed" ELSE "cache",
                            !.id = Identity, !.checked = Identity])
    /\ seen' = [seen EXCEPT ![p] = Searchable(source)]
    /\ disturbed' = [disturbed EXCEPT ![p] = FALSE]
    /\ UNCHANGED <<vars, source, index, caches, outside, hiddenOutside, restarts>>

\* No entry, an expired one, or a cache that does not answer.
CacheMiss(p) ==
    /\ At(p, "cache")
    /\ Step(p, [req[p] EXCEPT !.pc = "corpus"])
    /\ Rest(p) /\ UNCHANGED <<vars, caches>>

\* Fault: what the cache or the corpus holds is shown as it is.
VisibleAlways(hits) == TRUE

\* Every reference of hits is a document that may be shown now.
\* (_cached_references_are_visible)
Visible(hits) == Searchable(hits) \subseteq Searchable(source)

CacheRead(p) ==
    /\ At(p, "cache")
    /\ results[req[p].id] # Absent
    /\ LET hits == results[req[p].id]
       IN  Step(p, [req[p] EXCEPT !.pc = "recalled", !.hits = hits,
                                  !.shown = Visible(hits)])
    /\ Rest(p) /\ UNCHANGED <<vars, caches>>

Fallback(r) == [r EXCEPT !.pc = "embed", !.id = NoIdentity, !.hits = Nothing]

\* _disable_runtime_search_corpus, and the failed load of a corpus.
Disable(p, id) ==
    /\ corpus' = [corpus EXCEPT ![p] = IF @.id = id THEN NoCorpus ELSE @]
    /\ disabled' = [disabled EXCEPT ![p] = id]

\* The identity is read after the visibility; a rejected entry is deleted, and
\* a reference that is not visible condemns the corpus of the epoch as well.
CacheDecide(p) ==
    /\ At(p, "recalled")
    /\ IF req[p].shown /\ Identity = req[p].id
       THEN Step(p, [req[p] EXCEPT !.pc = "answered"]) /\ UNCHANGED caches
       ELSE /\ Step(p, Fallback(req[p]))
            /\ results' = [results EXCEPT ![req[p].id] = Absent]
            /\ IF req[p].shown THEN UNCHANGED <<corpus, disabled>>
               ELSE Disable(p, req[p].id)
    /\ Rest(p) /\ UNCHANGED vars

\* Fault: whatever corpus the process has serves every epoch.
UseCorpusOfAnyEpoch(p) ==
    /\ At(p, "corpus")
    /\ corpus[p] # NoCorpus
    /\ Step(p, [req[p] EXCEPT !.pc = "embed", !.rows = corpus[p].rows])
    /\ Rest(p) /\ UNCHANGED <<vars, caches>>

\* _runtime_search_corpus_for: the corpus of this very identity.
UseCorpus(p) ==
    /\ At(p, "corpus")
    /\ corpus[p].id = req[p].id /\ disabled[p] # req[p].id
    /\ Step(p, [req[p] EXCEPT !.pc = "embed", !.rows = corpus[p].rows])
    /\ Rest(p) /\ UNCHANGED <<vars, caches>>

SkipDisabledCorpus(p) ==
    /\ At(p, "corpus")
    /\ disabled[p] = req[p].id
    /\ Step(p, Fallback(req[p]))
    /\ Rest(p) /\ UNCHANGED <<vars, caches>>

\* The first pass of the load validates and measures the rows.
LoadMeasure(p) ==
    /\ At(p, "corpus")
    /\ corpus[p].id # req[p].id /\ disabled[p] # req[p].id
    /\ Step(p, [req[p] EXCEPT !.pc = "fill", !.rows = source])
    /\ Rest(p) /\ UNCHANGED <<vars, caches>>

RefuseCorpus(p) ==
    /\ Step(p, [Fallback(req[p]) EXCEPT !.rows = Absent])
    /\ corpus' = [corpus EXCEPT ![p] = NoCorpus]
    /\ disabled' = [disabled EXCEPT ![p] = req[p].id]
    /\ UNCHANGED results

\* A limit is exceeded or a row is invalid, in either pass.
LoadRefused(p) ==
    /\ At(p, "fill")
    /\ RefuseCorpus(p)
    /\ Rest(p) /\ UNCHANGED vars

\* The second pass fills the matrix sized by the first one.
LoadFill(p) ==
    /\ At(p, "fill")
    /\ IF Cardinality(Searchable(source)) = Cardinality(Searchable(req[p].rows))
       THEN /\ Step(p, [req[p] EXCEPT !.pc = "admit", !.rows = source])
            /\ UNCHANGED caches
       ELSE RefuseCorpus(p)
    /\ Rest(p) /\ UNCHANGED vars

\* The identity is read again before the corpus is published.
LoadAdmit(p) ==
    /\ At(p, "admit")
    /\ IF Identity = req[p].id
       THEN /\ corpus' = [corpus EXCEPT ![p] = [id |-> req[p].id, rows |-> req[p].rows]]
            /\ disabled' = [disabled EXCEPT ![p] = NoIdentity]
            /\ Step(p, [req[p] EXCEPT !.pc = "embed"])
            /\ UNCHANGED results
       ELSE RefuseCorpus(p)
    /\ Rest(p) /\ UNCHANGED vars

\* The question was embedded, which takes a provider call: a corpus whose
\* epoch has passed is put down.
Embedded(p) ==
    /\ At(p, "embed")
    /\ LET kept == req[p].rows = Absent \/ Identity = req[p].id
       IN  Step(p, IF kept THEN [req[p] EXCEPT !.pc = "retrieve"]
                   ELSE [Fallback(req[p]) EXCEPT !.pc = "retrieve", !.rows = Absent])
    /\ Rest(p) /\ UNCHANGED <<vars, caches>>

\* _runtime_corpus_hits, or retrieve_folder_hits with the rows read in one
\* query and an index that must match them.
Retrieve(p) ==
    /\ At(p, "retrieve")
    /\ LET r == req[p]
       IN  IF r.rows # Absent
           THEN Step(p, [r EXCEPT !.pc = "generate", !.hits = r.rows])
           ELSE Step(p, [r EXCEPT !.hits = source,
                            !.pc = IF source \in {Nothing, index}
                                   THEN "generate" ELSE "rebuild"])
    /\ Rest(p) /\ UNCHANGED <<vars, caches>>

\* The rebuilt index is promoted inside an eager mutation scope.
EnterPromotion(p) ==
    /\ At(p, "rebuild")
    /\ EnterScope(p, TRUE)
    /\ Step(p, [req[p] EXCEPT !.pc = "promote"])
    /\ Disturb(p)
    /\ UNCHANGED <<source, index, caches, outside, seen, bounds>>

\* SnapshotBarrierActive makes the folder an integrity failure, and the only
\* folder of the question at that.
PromotionBlocked(p) ==
    /\ At(p, "rebuild")
    /\ barrier.state # "OPEN"
    /\ Step(p, [req[p] EXCEPT !.pc = "failed"])
    /\ Rest(p) /\ UNCHANGED <<vars, caches>>

Promote(p) ==
    /\ At(p, "promote")
    /\ ExitScope(p)
    /\ index' = req[p].hits
    /\ Step(p, [req[p] EXCEPT !.pc = "generate", !.promoted = TRUE])
    /\ outside' = {}
    /\ Disturb(p)
    /\ UNCHANGED <<source, caches, seen, bounds>>

\* Fault: the guard is lost with the optimized identity.
AssertFallbackUnguarded(p) ==
    /\ At(p, "generate")
    /\ Step(p, [req[p] EXCEPT !.pc = IF req[p].id = NoIdentity THEN "answered"
                                     ELSE IF Identity = req[p].id THEN "visible"
                                     ELSE "failed"])
    /\ Rest(p) /\ UNCHANGED <<vars, caches>>

\* The answer was generated; _assert_runtime_search_result_current reads the
\* identity of the request's start once more, then the references.
AssertIdentity(p) ==
    /\ At(p, "generate")
    /\ Step(p, [req[p] EXCEPT !.pc =
                   IF req[p].checked = NoIdentity THEN "answered"
                   ELSE IF Identity = req[p].checked THEN "visible"
                   ELSE "failed"])
    /\ Rest(p) /\ UNCHANGED <<vars, caches>>

AssertVisible(p) ==
    /\ At(p, "visible")
    /\ Step(p, [req[p] EXCEPT !.pc = IF ~Visible(req[p].hits) THEN "failed"
                                     ELSE IF req[p].id = NoIdentity THEN "answered"
                                     ELSE "store"])
    /\ Rest(p) /\ UNCHANGED <<vars, caches>>

\* The result is cached while the identity still stands; a degraded answer and
\* a cache error leave nothing behind.
Store(p) ==
    /\ At(p, "store")
    /\ results' \in {results,
                     IF Identity = req[p].id
                     THEN [results EXCEPT ![req[p].id] = req[p].hits] ELSE results}
    /\ Step(p, [req[p] EXCEPT !.pc = "answered"])
    /\ Rest(p) /\ UNCHANGED <<vars, corpus, disabled>>

Reply(p) ==
    /\ req[p].pc \in {"answered", "failed"}
    /\ Step(p, Idle)
    /\ seen' = [seen EXCEPT ![p] = {}]
    /\ disturbed' = [disturbed EXCEPT ![p] = FALSE]
    /\ UNCHANGED <<vars, source, index, caches, outside, bounds>>

\* gunicorn recycles or kills a worker: its corpus is gone, and a scope it was
\* in stays counted.
Restart(p) ==
    /\ restarts < MaxRestarts
    /\ restarts' = restarts + 1
    /\ IF At(p, "promote") THEN WriterDies(p) ELSE UNCHANGED vars
    /\ corpus' = [corpus EXCEPT ![p] = NoCorpus]
    /\ disabled' = [disabled EXCEPT ![p] = NoIdentity]
    /\ Step(p, Idle)
    /\ seen' = [seen EXCEPT ![p] = {}]
    /\ disturbed' = [disturbed EXCEPT ![p] = FALSE]
    /\ UNCHANGED <<source, index, results, outside, asked, hiddenOutside>>

-----------------------------------------------------------------------------
SourceNext ==
    \/ \E w \in Editors : EditorWrites(w) \/ EditorScope(w)
    \/ BarrierStep
    \/ \E d \in Docs : HideOutsideScope(d)

CacheNext(p) == Ask(p) \/ CacheMiss(p) \/ CacheRead(p) \/ CacheDecide(p)
CorpusNext(p) ==
    \/ UseCorpus(p) \/ SkipDisabledCorpus(p)
    \/ LoadMeasure(p) \/ LoadRefused(p) \/ LoadFill(p) \/ LoadAdmit(p)
AnswerNext(p) ==
    \/ Embedded(p) \/ Retrieve(p)
    \/ EnterPromotion(p) \/ PromotionBlocked(p) \/ Promote(p)
    \/ AssertIdentity(p) \/ AssertVisible(p) \/ Store(p) \/ Reply(p)

SearchNext ==
    \/ SourceNext
    \/ \E p \in Procs : CacheNext(p) \/ CorpusNext(p) \/ AnswerNext(p) \/ Restart(p)

SearchSpec == SearchInit /\ [][SearchNext]_allVars

-----------------------------------------------------------------------------
(* Properties *)

\* Rows, caches and requests keep their types.
SearchTypeOK ==
    /\ source \in Rows /\ index \in Rows
    /\ results \in [0..MaxScopes -> Rows \cup {Absent}]
    /\ corpus \in [Procs -> [id: Identities, rows: Rows \cup {Absent}]]
    /\ disabled \in [Procs -> Identities]
    /\ req \in [Procs -> Request]
    /\ outside \in SUBSET Docs
    /\ seen \in [Procs -> SUBSET Docs]
    /\ disturbed \in [Procs -> BOOLEAN]

\* Whatever path produced it, an answer shows only documents that could be
\* searched at some time while it was prepared: a document hidden before the
\* question was asked is in no answer, even if it was hidden outside every
\* scope and every cache still holds it.
HiddenIsNeverShown ==
    \A p \in Procs : At(p, "answered") => Searchable(req[p].hits) \subseteq seen[p]

\* What is cached under the identity that is valid now is what the sources
\* hold now, the documents hidden outside every scope excepted: an open scope,
\* a closed barrier or a finished mutation leaves no cached state in use.
CachedForEpochIsExact ==
    LET Exact(rows) == \A d \in Docs \ outside : rows[d] = source[d]
    IN  Identity # NoIdentity =>
            /\ \A p \in Procs : corpus[p].id = Identity => Exact(corpus[p].rows)
            /\ results[Identity] # Absent => Exact(results[Identity])

\* When a request that began under a verified identity passes its last
\* identity check, the evidence it used is the current one, also on the
\* fallback path.
CheckedEvidenceIsCurrent ==
    [][\A p \in Procs :
          At(p, "generate") /\ req[p].checked # NoIdentity /\ req'[p].pc # "failed"
            => \/ At(p, "generate")'
               \/ At(p, "idle")'
               \/ \A d \in Searchable(req[p].hits) \ outside :
                     req[p].hits[d] = source[d]]_allVars

\* A request is refused only for a cause: somebody moved the sources, the
\* epoch or the barrier while it ran; a document of this epoch was hidden
\* outside every scope; the request promoted an index and advanced the epoch
\* under its own feet; or the barrier keeps it from promoting one.
RefusedForACause ==
    \A p \in Procs : At(p, "failed") =>
        disturbed[p] \/ outside # {} \/ req[p].promoted \/ barrier.state # "OPEN"

=============================================================================
