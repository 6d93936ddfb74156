---------------------------- MODULE ProjectCache ----------------------------
(***************************************************************************)
(* Comparing projects: the signatures each daemon keeps in memory, and the *)
(* ledger in the database that tells it when they are out of date.         *)
(*                                                                         *)
(* A trigger puts a revision into the ledger in the transaction that       *)
(* writes, so transactions may commit in another order than they got their *)
(* revisions.  A load compacts the ledger, reads it, and computes anew     *)
(* what is stale, each with a statement of its own; the lock on the cache  *)
(* is held throughout.  Pairs for the graph are worked out without it.     *)
(*                                                                         *)
(* What is written is told apart by its revision only.  Left out: the ten  *)
(* seconds a check stays good (a load may check again at any time), the    *)
(* bound on the projects compared, and names.                              *)
(***************************************************************************)
EXTENDS Integers, FiniteSets, FiniteSetsExt

CONSTANTS
    Compared,     \* projects
    Comparer,     \* daemons that compare them
    LedgerKept,   \* revisions a compaction keeps below the newest: 256 in the code
    MaxRevision,  \* bound: revisions handed out
    CacheBudgets  \* how often at most each deed is done: [CacheDeed -> Nat]

CacheDeed == {"write", "load", "remove", "rollback", "failure"}
Nothing == [none |-> TRUE]

ASSUME CacheAssumption ==
    /\ IsFiniteSet(Compared) /\ LedgerKept \in Nat /\ MaxRevision \in Nat
    /\ CacheBudgets \subseteq [CacheDeed -> Nat]

VARIABLES
    items,      \* per project the revisions of what it holds, as committed
    existing,   \* projects there are
    writes,     \* transactions under way
    ledger,     \* gather_semantic_revisions
    nextRevision,
    cache,      \* per daemon: entries, loaded, checked and pairs of its Store
    load,       \* per daemon: the load that holds its lock
    asking,     \* per daemon: a request for pairs that has its signatures
    began,      \* history: items and projects when the load under way began
    cacheDeeds

cacheVars == <<items, existing, writes, ledger, nextRevision, cache, load, asking, began, cacheDeeds>>
database == <<items, existing, writes, ledger, nextRevision>>

NoLoad == [step |-> "idle"]

CacheInit ==
    /\ items = [p \in Compared |-> {}] /\ existing = Compared /\ writes = {}
    /\ ledger = {1} /\ nextRevision = 2
    /\ cache = [d \in Comparer |-> [entries |-> <<>>, loaded |-> Nothing, checked |-> {}, pairs |-> Nothing]]
    /\ load = [d \in Comparer |-> NoLoad] /\ asking = [d \in Comparer |-> Nothing]
    /\ began = [d \in Comparer |-> Nothing]
    /\ cacheDeeds \in CacheBudgets

CacheDoes(deed) == cacheDeeds[deed] > 0 /\ cacheDeeds' = [cacheDeeds EXCEPT ![deed] = @ - 1]

-----------------------------------------------------------------------------
\* Writers.

Write(p, removes) ==
    /\ p \in existing /\ nextRevision < MaxRevision
    /\ writes' = writes \cup {[revision |-> nextRevision, project |-> p, removes |-> removes]}
    /\ nextRevision' = nextRevision + 1
    /\ UNCHANGED <<items, existing, ledger, cache, load, asking, began>>

AddItem(p) == CacheDoes("write") /\ Write(p, FALSE)
RemoveProject(p) == CacheDoes("remove") /\ Write(p, TRUE)

CommitWrite(w) ==
    /\ w \in writes /\ w.project \in existing
    /\ writes' = writes \ {w}
    /\ ledger' = ledger \cup {w.revision}
    /\ IF w.removes
       THEN existing' = existing \ {w.project} /\ items' = [items EXCEPT ![w.project] = {}]
       ELSE items' = [items EXCEPT ![w.project] = @ \cup {w.revision}] /\ UNCHANGED existing
    /\ UNCHANGED <<nextRevision, cache, load, asking, began, cacheDeeds>>

\* Also what becomes of a write to a project that was removed meanwhile.
RollBack(w) ==
    /\ w \in writes
    /\ IF w.project \in existing THEN CacheDoes("rollback") ELSE UNCHANGED cacheDeeds
    /\ writes' = writes \ {w}
    /\ UNCHANGED <<items, existing, ledger, nextRevision, cache, load, asking, began>>

-----------------------------------------------------------------------------
\* load

BeginLoad(d) ==
    /\ load[d] = NoLoad /\ CacheDoes("load")
    /\ load' = [load EXCEPT ![d] = [step |-> "compact"]]
    /\ began' = [began EXCEPT ![d] = [items |-> items, existing |-> existing]]
    /\ UNCHANGED <<database, cache, asking>>

Old == {r \in ledger : r < Max(ledger) - LedgerKept}

\* The old revisions go, and a new one tells every daemon of it.
Compacted == IF Old = {} THEN ledger ELSE (ledger \ Old) \cup {nextRevision}

CompactLedger(d) ==
    /\ load[d].step = "compact" /\ (Old = {} \/ nextRevision < MaxRevision)
    /\ ledger' = Compacted
    /\ nextRevision' = IF Old = {} THEN nextRevision ELSE nextRevision + 1
    /\ load' = [load EXCEPT ![d].step = "ledger"]
    /\ UNCHANGED <<items, existing, writes, cache, asking, began, cacheDeeds>>

\* Wrong: the newest revision stands for all of them.
WrongNewest == {Max(ledger)}
Newest == {r \in ledger : Cardinality({s \in ledger : s > r}) <= LedgerKept}

ReadLedger(d) ==
    /\ load[d].step = "ledger"
    /\ load' = [load EXCEPT ![d] = [step |-> "check", seen |-> Newest]]
    /\ UNCHANGED <<items, existing, writes, ledger, nextRevision, cache, asking, began, cacheDeeds>>

\* A request for pairs takes the signatures along.
Hand(d, signatures) ==
    /\ asking' = [asking EXCEPT ![d] = IF @ = Nothing
                                       THEN [signatures |-> signatures, since |-> began[d]] ELSE @]
    /\ began' = [began EXCEPT ![d] = Nothing]

AnswerFromCache(d) ==
    /\ load[d].step = "check" /\ cache[d].loaded # Nothing /\ cache[d].checked = load[d].seen
    /\ load' = [load EXCEPT ![d] = NoLoad]
    /\ Hand(d, cache[d].loaded)
    /\ UNCHANGED <<database, cache, cacheDeeds>>

PrintOf(d, p) == [seen |-> load[d].seen, items |-> Cardinality(items[p])]

Outdated(d, p) == p \notin DOMAIN cache[d].entries \/ cache[d].entries[p].print # PrintOf(d, p)

\* One statement has the fingerprints of all projects.
ReadProjects(d) ==
    /\ load[d].step = "check"
    /\ load' = [load EXCEPT ![d] = [step |-> "files", seen |-> @.seen,
                                    prints |-> [p \in existing |-> PrintOf(d, p)],
                                    stale |-> {p \in existing : Outdated(d, p)}]]
    /\ UNCHANGED <<database, cache, asking, began, cacheDeeds>>

\* compute: files and paths, then what was read from them, each for all.
ReadFiles(d) ==
    /\ load[d].step = "files"
    /\ load' = [load EXCEPT ![d] = [step |-> "words", seen |-> @.seen, prints |-> @.prints,
                                    stale |-> @.stale, files |-> [p \in @.stale |-> items[p]]]]
    /\ UNCHANGED <<database, cache, asking, began, cacheDeeds>>

CacheChanged(d) == \/ load[d].stale # {} \/ cache[d].loaded = Nothing
              \/ DOMAIN load[d].prints # DOMAIN cache[d].entries

ReadWords(d) ==
    /\ load[d].step = "words"
    /\ LET now == load[d]
           Entry(p) == IF p \in now.stale
                       THEN [print |-> now.prints[p], files |-> now.files[p], words |-> items[p]]
                       ELSE cache[d].entries[p]
           entries == [p \in DOMAIN now.prints |-> Entry(p)]
           loaded == IF CacheChanged(d)
                     THEN [p \in DOMAIN entries |-> [files |-> entries[p].files, words |-> entries[p].words]]
                     ELSE cache[d].loaded
       IN  /\ cache' = [cache EXCEPT ![d] = [entries |-> entries, loaded |-> loaded, checked |-> now.seen,
                                             pairs |-> IF CacheChanged(d) THEN Nothing ELSE @.pairs]]
           /\ Hand(d, loaded)
    /\ load' = [load EXCEPT ![d] = NoLoad]
    /\ UNCHANGED <<database, cacheDeeds>>

\* A statement fails: the cache is left as it was.
LoadFails(d) ==
    /\ load[d] # NoLoad /\ CacheDoes("failure")
    /\ load' = [load EXCEPT ![d] = NoLoad]
    /\ began' = [began EXCEPT ![d] = Nothing]
    /\ UNCHANGED <<database, cache, asking>>

-----------------------------------------------------------------------------
\* cached_pairs: once it has its signatures.  Signatures are the same if they
\* are equal; pairs are what they were worked out from.

UseKeptPairs(d) ==
    /\ asking[d] # Nothing /\ load[d] = NoLoad
    /\ cache[d].loaded = asking[d].signatures /\ cache[d].pairs # Nothing
    /\ asking' = [asking EXCEPT ![d] = Nothing]
    /\ UNCHANGED <<database, cache, load, began, cacheDeeds>>

Keepable(d) == cache[d].loaded = asking[d].signatures

\* Worked out without the lock; kept if nothing newer came.
KeepPairs(d) ==
    /\ asking[d] # Nothing /\ load[d] = NoLoad
    /\ cache' = [cache EXCEPT ![d].pairs = IF Keepable(d) THEN asking[d].signatures ELSE @]
    /\ asking' = [asking EXCEPT ![d] = Nothing]
    /\ UNCHANGED <<database, load, began, cacheDeeds>>

LoadStep(d) == BeginLoad(d) \/ CompactLedger(d) \/ ReadLedger(d) \/ AnswerFromCache(d)
               \/ ReadProjects(d) \/ ReadFiles(d) \/ ReadWords(d)

CacheNext ==
    \/ \E p \in Compared : AddItem(p) \/ RemoveProject(p)
    \/ \E w \in writes : CommitWrite(w) \/ RollBack(w)
    \/ \E d \in Comparer : LoadStep(d) \/ LoadFails(d) \/ UseKeptPairs(d) \/ KeepPairs(d)

CacheSpec == CacheInit /\ [][CacheNext]_cacheVars

-----------------------------------------------------------------------------
CacheTypeOK ==
    /\ existing \subseteq Compared /\ ledger # {} /\ \A r \in ledger : r < nextRevision
    /\ \A w \in writes : w.revision \notin ledger /\ w.revision < nextRevision
    /\ \A d \in Comparer :
         /\ cache[d].loaded # Nothing =>
              /\ DOMAIN cache[d].loaded = DOMAIN cache[d].entries
              /\ \A p \in DOMAIN cache[d].loaded :
                   /\ cache[d].loaded[p].files = cache[d].entries[p].files
                   /\ cache[d].loaded[p].words = cache[d].entries[p].words
         /\ load[d].step \in {"idle", "compact", "ledger", "check", "files", "words"}

\* What a load is answered with has everything that was committed before it
\* began, in whatever order transactions commit and whoever compacts the
\* ledger ("Even an older transaction that commits late cannot hide behind a
\* newer generation").
LoadsAreCurrent ==
    \A d \in Comparer : asking[d] # Nothing =>
        \A p \in Compared :
            IF p \notin asking[d].since.existing THEN p \notin DOMAIN asking[d].signatures
            ELSE p \in existing =>
                 /\ p \in DOMAIN asking[d].signatures
                 /\ asking[d].since.items[p] \subseteq asking[d].signatures[p].files
                 /\ asking[d].since.items[p] \subseteq asking[d].signatures[p].words

\* Pairs that are kept are those of the signatures that are kept, although
\* they are worked out while other loads go on (cached_pairs).
PairsAreOfTheLoaded ==
    \A d \in Comparer : cache[d].pairs # Nothing => cache[d].pairs = cache[d].loaded

\* What projects are compared by is what they hold, and pairs are of what they
\* are compared by (projects/similarity.rs).
CacheIsSound == CacheTypeOK /\ LoadsAreCurrent /\ PairsAreOfTheLoaded
=============================================================================
