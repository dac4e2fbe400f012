---------------------------- MODULE ConfigProofs ----------------------------
(***************************************************************************)
(* Proofs about ConsoleConfig, for any files and texts, any drafts that    *)
(* load or compile, and any number of visits, mutations, changes by others *)
(* and lost answers.                                                       *)
(***************************************************************************)
EXTENDS ConsoleConfig, QueryCacheProofs, FiniteSetTheorems, WellFoundedInduction, TLAPS

-----------------------------------------------------------------------------
(* The inductive invariant: the state in parts, each a few variables.      *)

\* The server and the count of events.
ServerOK ==
    /\ draft \in Drafts /\ published \in Drafts \cup {NoDraft}
    /\ configDir \in BOOLEAN /\ raced \in BOOLEAN /\ slipped \in BOOLEAN
    /\ events \in 0..MaxEvents

\* The cache and its requests; a request that was answered has an answer, and so
\* has a query that succeeded.
GetSteps == {"idle", "sent", "hashed", "replied", "failed"}

Gets == [pc : GetSteps, answer : Answers \cup {NoData}]

GetHas(g) == g.pc \in {"hashed", "replied"} => g.answer \in Answers

EntryHas(e) == e.status = "success" => e.data \in Answers

CacheOK ==
    /\ entry \in [Keys -> QueryEntries(Answers)]
    /\ get \in [Keys -> Gets]
    /\ invalid \subseteq Keys
    /\ \A k \in Keys : GetHas(get[k]) /\ EntryHas(entry[k])

\* The mutations; a save that is not answered yet carries a draft.
JobSteps ==
    {"idle", "sent", "checked", "moved", "prechecked", "hashed", "replied", "failed", "valid", "invalid",
     "refetching"}

Jobs ==
    [pc : JobSteps, files : Drafts \cup {NoDraft}, expected : Drafts \cup {NoDraft}, awaits : SUBSET Keys]

Unanswered == {"sent", "checked", "moved"}

JobsOK ==
    /\ job \in [Instances -> [Mutations -> Jobs]]
    /\ \A i \in Instances : job[i]["save"].pc \in Unanswered => job[i]["save"].files \in Drafts

PageOK ==
    /\ mounted \in BOOLEAN /\ dialog \in BOOLEAN
    /\ activePath \in Paths \cup {0} /\ typedIn \in Paths \cup {0}
    /\ content \in Texts \cup {NoText}
    /\ validation \in {"none", "ok", "failed"}

\* A mounted page with a file open has a text in its editor, and one that differs
\* from the file's was typed into that file; the dialog is open over a mounted
\* page that has a draft, without such a text.
EditorOK ==
    /\ mounted /\ Active # 0 => content \in Texts
    /\ mounted /\ Changed => typedIn = Active
    /\ dialog => mounted /\ ~Changed /\ entry["draft"].data \in Answers

\* Between its check and its commit a save finds the draft it expects, unless an
\* edit on disk came in; no two saves are there at once.
InCommit == {"checked", "moved"}

SavesOK ==
    /\ \A i \in Instances : job[i]["save"].pc = "checked" => draft = job[i]["save"].expected \/ raced
    /\ \A i, j \in Instances : job[i]["save"].pc \in InCommit /\ job[j]["save"].pc \in InCommit => i = j

\* Between its two reads a publish finds the draft it expects, unless somebody
\* wrote it; no two publishes are there at once.
PublishesOK ==
    /\ \A i \in Instances : job[i]["publish"].pc = "hashed" => draft = job[i]["publish"].expected \/ slipped
    /\ \A i, j \in Instances : job[i]["publish"].pc = "hashed" /\ job[j]["publish"].pc = "hashed" => i = j

ConfigInv == ServerOK /\ CacheOK /\ JobsOK /\ PageOK /\ EditorOK /\ SavesOK /\ PublishesOK

\* The parts imply the type invariant and the invariants of the page.
LEMMA InvParts ==
    ASSUME ConfigInv
    PROVE  ConfigTypeOK /\ TextStaysInItsFile /\ DialogShowsSaved
<1>1. ConfigTypeOK
  <2>1. \A k \in Keys : get[k].pc \in {"idle", "sent", "hashed", "replied", "failed"}
    BY DEF ConfigInv, CacheOK, Gets, GetSteps
  <2> QED BY <2>1 DEF ConfigInv, ServerOK, CacheOK, PageOK, ConfigTypeOK
<1>2. TextStaysInItsFile
  BY DEF ConfigInv, EditorOK, TextStaysInItsFile, Shown
<1>3. DialogShowsSaved
  BY DEF ConfigInv, EditorOK, DialogShowsSaved
<1> QED BY <1>1, <1>2, <1>3

-----------------------------------------------------------------------------
(* Drafts, and the file the page opens.                                    *)

\* A non-empty set of paths has a first one.
LEMMA FirstPath ==
    ASSUME NEW S, S \subseteq Nat, S # {}
    PROVE  Min(S) \in S
<1>1. PICK x \in S : \A y \in S : ~(<<y, x>> \in OpToRel(<, Nat))
  BY NatLessThanWellFounded, WFMin
<1>2. \A y \in S : ~(y < x)
  BY <1>1 DEF OpToRel
<1>3. \A y \in S : x =< y
  BY <1>2
<1> QED BY <1>3 DEF Min

\* Paths are positive: 0 stands for none.
LEMMA PathsPositive == Paths \subseteq Nat /\ 0 \notin Paths
<1>1. Cardinality(Paths) \in Nat
  BY ConfigAssumption, FS_CardinalityType
<1> QED BY <1>1, ConfigAssumption

\* A draft's files have texts, and replacing one text gives a draft.
LEMMA DraftFacts ==
    ASSUME NEW d \in Drafts
    PROVE  /\ DOMAIN d \subseteq Paths
           /\ \A p \in DOMAIN d : d[p] \in Texts
           /\ d # NoFiles => DOMAIN d # {}
           /\ \A p \in DOMAIN d, t \in Texts : [d EXCEPT ![p] = t] \in Drafts
<1>1. PICK S \in SUBSET Paths : d \in [S -> Texts]
  BY DEF Drafts
<1>2. \A f \in [S -> Texts] : f \in Drafts
  BY DEF Drafts
<1>3. \A p \in DOMAIN d, t \in Texts : [d EXCEPT ![p] = t] \in [S -> Texts]
  BY <1>1
<1>4. S = {} => d = NoFiles
  BY <1>1 DEF NoFiles
<1> QED BY <1>1, <1>2, <1>3, <1>4

\* No files at all are a draft.
LEMMA NoFilesIsDraft == NoFiles \in Drafts
<1>1. NoFiles \in [{} -> Texts]
  BY DEF NoFiles
<1>2. {} \in SUBSET Paths
  OBVIOUS
<1> QED BY <1>1, <1>2 DEF Drafts

\* What activeFile yields is one of the files, or none; asked again with its own
\* answer it yields the same.
LEMMA ActiveFacts ==
    ASSUME NEW files \in Drafts, NEW path
    PROVE  LET file == ActiveFile(files, path) IN
           /\ file \in Paths \cup {0}
           /\ file # 0 => /\ file \in DOMAIN files /\ files[file] \in Texts
                          /\ ActiveFile(files, file) = file
<1> DEFINE file == ActiveFile(files, path)
<1>1. CASE files = NoFiles
  BY <1>1 DEF ActiveFile
<1>2. CASE files # NoFiles
  <2>1. DOMAIN files \subseteq Paths /\ DOMAIN files # {}
    BY <1>2, DraftFacts
  <2>2. Min(DOMAIN files) \in DOMAIN files
    BY <2>1, FirstPath, PathsPositive
  <2>3. file = IF path \in DOMAIN files THEN path ELSE Min(DOMAIN files)
    BY <1>2 DEF ActiveFile
  <2>4. file \in DOMAIN files
    BY <2>2, <2>3
  <2>5. ActiveFile(files, file) = file
    BY <1>2, <2>4 DEF ActiveFile
  <2>6. files[file] \in Texts /\ file \in Paths
    BY <2>1, <2>4, DraftFacts
  <2> QED BY <2>4, <2>5, <2>6
<1> QED BY <1>1, <1>2

\* Reading some files of a draft again yields a draft.
LEMMA ReadAgain ==
    ASSUME NEW d \in Drafts, NEW e \in Drafts, DOMAIN d \subseteq DOMAIN e
    PROVE  Restrict(e, DOMAIN d) \in Drafts
<1>1. DOMAIN d \in SUBSET Paths /\ \A p \in DOMAIN d : e[p] \in Texts
  BY DraftFacts
<1>2. Restrict(e, DOMAIN d) \in [DOMAIN d -> Texts]
  BY <1>1 DEF Restrict
<1> QED BY <1>1, <1>2 DEF Drafts

\* The files of an answer are a draft.
LEMMA FilesFacts ==
    ASSUME NEW data \in Answers \cup {NoData}
    PROVE  FilesOf(data) \in Drafts
  BY NoFilesIsDraft DEF FilesOf, Answers


-----------------------------------------------------------------------------
(* The cache.                                                              *)

\* The requests a query can have.
LEMMA GetFacts ==
    /\ IdleGet \in Gets /\ GetHas(IdleGet)
    /\ SentGet \in Gets /\ GetHas(SentGet)
    /\ FailedGet \in Gets /\ GetHas(FailedGet)
    /\ \A pc \in GetSteps, a \in Answers : [pc |-> pc, answer |-> a] \in Gets /\ GetHas([pc |-> pc, answer |-> a])
  BY DEF IdleGet, SentGet, FailedGet, Gets, GetSteps, GetHas

\* The data of the draft query.
LEMMA DraftData ==
    ASSUME CacheOK
    PROVE  /\ \A k \in Keys : entry[k] \in QueryEntries(Answers)
           /\ "draft" \in Keys /\ entry["draft"].data \in Answers \cup {NoData}
           /\ Cached \in Drafts
<1>1. "draft" \in Keys /\ \A k \in Keys : entry[k] \in QueryEntries(Answers)
  BY DEF CacheOK, Keys
<1>2. entry["draft"].data \in Answers \cup {NoData}
  BY <1>1 DEF QueryEntries
<1> QED BY <1>1, <1>2, FilesFacts DEF Cached

\* A refetch keeps the cache well-formed and every entry's data.
LEMMA RefetchOK ==
    ASSUME CacheOK, NEW K, Refetch(K), invalid' \subseteq Keys
    PROVE  CacheOK' /\ \A k \in Keys : entry'[k].data = entry[k].data
<1> DEFINE fetched(k) == Fetch([entry[k] EXCEPT !.fetching = FALSE])
<1>1. \A k \in Keys :
          /\ entry[k] \in QueryEntries(Answers)
          /\ fetched(k) \in QueryEntries(Answers) /\ fetched(k).data = entry[k].data
          /\ EntryHas(fetched(k))
  <2> SUFFICES ASSUME NEW k \in Keys
               PROVE  /\ entry[k] \in QueryEntries(Answers)
                      /\ fetched(k) \in QueryEntries(Answers) /\ fetched(k).data = entry[k].data
                      /\ EntryHas(fetched(k))
    OBVIOUS
  <2>1. entry[k] \in QueryEntries(Answers) /\ EntryHas(entry[k])
    BY DraftData DEF CacheOK
  <2>2. /\ [entry[k] EXCEPT !.fetching = FALSE] \in QueryEntries(Answers)
        /\ [entry[k] EXCEPT !.fetching = FALSE].data = entry[k].data
        /\ [entry[k] EXCEPT !.fetching = FALSE].status = entry[k].status
    BY <2>1, CancelOK
  <2>3. /\ fetched(k) \in QueryEntries(Answers) /\ fetched(k).data = entry[k].data
        /\ fetched(k).status = "success" => entry[k].status = "success"
    BY <2>2, FetchOK
  <2> QED BY <2>1, <2>3 DEF EntryHas
<1>2. entry' = [k \in Keys |-> IF k \in Restarted(K) THEN fetched(k) ELSE entry[k]]
  BY DEF Refetch
<1> HIDE DEF fetched
<1>3. entry' \in [Keys -> QueryEntries(Answers)] /\ \A k \in Keys : entry'[k].data = entry[k].data
  BY <1>1, <1>2
<1>4. get' \in [Keys -> Gets]
  BY GetFacts DEF Refetch, CacheOK
<1>5. \A k \in Keys : GetHas(get'[k])
  BY GetFacts DEF Refetch, CacheOK
<1>6. \A k \in Keys : EntryHas(entry'[k])
  BY <1>1, <1>2 DEF CacheOK
<1> QED BY <1>3, <1>4, <1>5, <1>6 DEF CacheOK

\* A query's request moves on, and perhaps its entry.
LEMMA GetOK ==
    ASSUME CacheOK, NEW k \in Keys, NEW g \in Gets, get' = [get EXCEPT ![k] = g], GetHas(g),
           NEW e \in QueryEntries(Answers), entry' = [entry EXCEPT ![k] = e], EntryHas(e),
           invalid' = invalid
    PROVE  CacheOK'
<1>1. get' \in [Keys -> Gets] /\ entry' \in [Keys -> QueryEntries(Answers)]
  BY DEF CacheOK
<1>2. \A k2 \in Keys : GetHas(get'[k2]) /\ EntryHas(entry'[k2])
  BY DEF CacheOK
<1> QED BY <1>1, <1>2 DEF CacheOK

-----------------------------------------------------------------------------
(* The editor.  A step keeps what the editor shows, or loads its file.     *)

KeepsView ==
    /\ mounted
    /\ Active' = Active /\ (Active # 0 => ActiveContent' = ActiveContent)
    /\ UNCHANGED <<content, typedIn>>

LoadsView == Active' # 0 => content' = ActiveContent'

\* Both preserve EditorOK; the dialog is not opened over unsaved text.
LEMMA ViewOK ==
    ASSUME ConfigInv, CacheOK', KeepsView \/ LoadsView,
           dialog' => /\ mounted' /\ entry'["draft"].data \in Answers
                      /\ dialog \/ (mounted /\ ~Changed)
    PROVE  EditorOK'
<1>1. EditorOK
  BY DEF ConfigInv
<1>2. CASE KeepsView
  <2>1. Changed' = Changed
    BY <1>2 DEF KeepsView, Changed
  <2> QED BY <1>1, <1>2, <2>1 DEF KeepsView, EditorOK
<1>3. CASE LoadsView
  <2>1. ~Changed'
    BY <1>3 DEF LoadsView, Changed
  <2>2. Active' # 0 => ActiveContent' \in Texts
    <3>1. Cached' \in Drafts
      <4>1. entry'["draft"].data \in Answers \cup {NoData}
        BY DEF CacheOK, Keys, QueryEntries
      <4> QED BY <4>1, FilesFacts DEF Cached
    <3> QED BY <3>1, ActiveFacts DEF Active, ActiveContent
  <2> QED BY <1>3, <2>1, <2>2 DEF LoadsView, EditorOK
<1> QED BY <1>2, <1>3

\* A step that leaves the page's state and the cached draft alone.
LEMMA SameView ==
    ASSUME ConfigInv, UNCHANGED <<mounted, activePath, content, typedIn>>,
           entry'["draft"].data = entry["draft"].data,
           dialog' => dialog
    PROVE  EditorOK'
  BY DEF ConfigInv, EditorOK, Changed, ActiveContent, Active, Cached

\* A render: the effect resets the editor, or nothing it depends on changed.
LEMMA RenderOK ==
    ASSUME ConfigInv, mounted, NEW path \in Paths \cup {0},
           Cached' \in Drafts, Render(Cached', path)
    PROVE  /\ KeepsView \/ LoadsView
           /\ activePath' \in Paths \cup {0} /\ typedIn' \in Paths \cup {0}
           /\ content' \in Texts \cup {NoText}
<1> DEFINE old == Cached
           new == Cached'
           file == ActiveFile(new, path)
<1>1. /\ file \in Paths \cup {0}
      /\ file # 0 => new[file] \in Texts /\ ActiveFile(new, file) = file
  BY ActiveFacts
<1>2. /\ activePath \in Paths \cup {0} /\ typedIn \in Paths \cup {0}
      /\ content \in Texts \cup {NoText}
  BY DEF ConfigInv, PageOK
<1>3. CASE /\ file # 0
           /\ activePath' = file /\ content' = new[file] /\ typedIn' = 0
  <2>1. Active' = file /\ ActiveContent' = new[file]
    BY <1>1, <1>3 DEF Active, ActiveContent
  <2> QED BY <1>1, <1>3, <2>1 DEF LoadsView
<1>4. CASE /\ file = 0 \/ EffectDeps(new, path) = EffectDeps(old, activePath)
           /\ activePath' = path /\ UNCHANGED <<content, typedIn>>
  <2>1. Active' = file /\ ActiveContent' = new[file]
    BY <1>4 DEF Active, ActiveContent
  <2>2. CASE file = 0
    BY <1>2, <1>4, <2>1, <2>2 DEF LoadsView
  <2>3. CASE file # 0
    <3>1. EffectDeps(new, path) = EffectDeps(old, activePath)
      BY <1>4, <2>3
    <3>2. file = Active /\ TextOf(new, file) = TextOf(old, Active)
      BY <3>1 DEF EffectDeps, Active
    <3>3. new[file] = ActiveContent
      BY <2>3, <3>2 DEF TextOf, ActiveContent
    <3> QED BY <1>2, <1>4, <2>1, <3>2, <3>3 DEF KeepsView
  <2> QED BY <2>2, <2>3
<1> QED BY <1>3, <1>4 DEF Render

-----------------------------------------------------------------------------
(* The mutations.                                                          *)

\* The idle mutation, and one that only has a step.
LEMMA JobFacts ==
    /\ IdleJob \in Jobs /\ IdleJob.pc = "idle"
    /\ \A pc \in JobSteps : [IdleJob EXCEPT !.pc = pc] \in Jobs /\ [IdleJob EXCEPT !.pc = pc].pc = pc
    /\ \A i \in Instances, m \in Mutations, pc \in JobSteps :
           JobsOK => /\ job[i][m] \in Jobs
                     /\ [job[i][m] EXCEPT !.pc = pc] \in Jobs
                     /\ [job[i][m] EXCEPT !.pc = pc].pc = pc
                     /\ [job[i][m] EXCEPT !.pc = pc].files = job[i][m].files
                     /\ [job[i][m] EXCEPT !.pc = pc].expected = job[i][m].expected
<1>1. IdleJob \in Jobs /\ IdleJob.pc = "idle"
  BY DEF IdleJob, Jobs, JobSteps
<1>2. \A pc \in JobSteps : [IdleJob EXCEPT !.pc = pc] \in Jobs /\ [IdleJob EXCEPT !.pc = pc].pc = pc
  BY <1>1 DEF Jobs
<1>3. ASSUME JobsOK, NEW i \in Instances, NEW m \in Mutations, NEW pc \in JobSteps
      PROVE  /\ job[i][m] \in Jobs
             /\ [job[i][m] EXCEPT !.pc = pc] \in Jobs
             /\ [job[i][m] EXCEPT !.pc = pc].pc = pc
             /\ [job[i][m] EXCEPT !.pc = pc].files = job[i][m].files
             /\ [job[i][m] EXCEPT !.pc = pc].expected = job[i][m].expected
  <2>1. job[i][m] \in Jobs
    BY <1>3 DEF JobsOK
  <2> QED BY <2>1 DEF Jobs
<1> QED BY <1>1, <1>2, <1>3

\* One mutation changes.
LEMMA JobSet ==
    ASSUME JobsOK, NEW i \in Instances, NEW m \in Mutations, NEW j \in Jobs,
           job' = [job EXCEPT ![i][m] = j]
    PROVE  /\ job' \in [Instances -> [Mutations -> Jobs]]
           /\ job'[i][m] = j
           /\ \A i2 \in Instances, m2 \in Mutations :
                  i2 # i \/ m2 # m => job'[i2][m2] = job[i2][m2]
  BY DEF JobsOK

\* No save or publish gets further: those under way were so before, with the same
\* files and version.
CarriesSave(i) ==
    job'[i]["save"].pc \in Unanswered =>
        /\ job'[i]["save"].pc = job[i]["save"].pc
        /\ job'[i]["save"].files = job[i]["save"].files
        /\ job'[i]["save"].expected = job[i]["save"].expected

CarriesPublish(i) ==
    job'[i]["publish"].pc = "hashed" =>
        /\ job[i]["publish"].pc = "hashed"
        /\ job'[i]["publish"].expected = job[i]["publish"].expected

\* A write to the draft is noticed by a publish between its reads.
LEMMA PublishesCarried ==
    ASSUME PublishesOK, \A i \in Instances : CarriesPublish(i),
           \/ UNCHANGED <<draft, slipped>>
           \/ \E files : Write(files)
    PROVE  PublishesOK'
<1>1. \A i, j \in Instances : job'[i]["publish"].pc = "hashed" /\ job'[j]["publish"].pc = "hashed" => i = j
  BY DEF PublishesOK, CarriesPublish
<1>2. ASSUME NEW i \in Instances, job'[i]["publish"].pc = "hashed"
      PROVE  draft' = job'[i]["publish"].expected \/ slipped'
  <2>1. /\ job[i]["publish"].pc = "hashed" /\ job'[i]["publish"].expected = job[i]["publish"].expected
        /\ draft = job[i]["publish"].expected \/ slipped
    BY <1>2 DEF PublishesOK, CarriesPublish
  <2>2. CASE UNCHANGED <<draft, slipped>>
    BY <2>1, <2>2
  <2>3. CASE \E files : Write(files)
    BY <2>1, <2>3, Zenon DEF Write
  <2> QED BY <2>2, <2>3
<1> QED BY <1>1, <1>2 DEF PublishesOK

\* Then the parts about mutations hold again.
LEMMA SavesCarried ==
    ASSUME JobsOK, SavesOK, PublishesOK, job' \in [Instances -> [Mutations -> Jobs]],
           \A i \in Instances : CarriesSave(i) /\ CarriesPublish(i)
    PROVE  /\ JobsOK'
           /\ UNCHANGED <<draft, raced, slipped>> => SavesOK' /\ PublishesOK'
<1>1. JobsOK'
  BY DEF JobsOK, CarriesSave
<1>2. ASSUME UNCHANGED <<draft, raced, slipped>> PROVE SavesOK' /\ PublishesOK'
  <2>1. SavesOK'
    BY <1>2 DEF SavesOK, CarriesSave, Unanswered, InCommit
  <2> QED BY <1>2, <2>1, PublishesCarried
<1> QED BY <1>1, <1>2

\* One mutation ends, is answered, or is another one than a save.
LEMMA OtherJobOK ==
    ASSUME ConfigInv, NEW i \in Instances, NEW m \in Mutations, NEW j \in Jobs,
           job' = [job EXCEPT ![i][m] = j],
           m = "save" => j.pc \notin Unanswered, m = "publish" => j.pc # "hashed"
    PROVE  /\ JobsOK'
           /\ UNCHANGED <<draft, raced, slipped>> => SavesOK' /\ PublishesOK'
<1>1. JobsOK /\ SavesOK /\ PublishesOK
  BY DEF ConfigInv
<1>2. /\ job' \in [Instances -> [Mutations -> Jobs]]
      /\ job'[i][m] = j
      /\ \A i2 \in Instances, m2 \in Mutations : i2 # i \/ m2 # m => job'[i2][m2] = job[i2][m2]
  BY <1>1 DEF JobsOK
<1>3. \A i2 \in Instances : CarriesSave(i2) /\ CarriesPublish(i2)
  BY <1>2 DEF CarriesSave, CarriesPublish, Mutations
<1> QED BY <1>1, <1>2, <1>3, SavesCarried

\* Fetches that end change only what mutations wait for.
LEMMA UnawaitOK ==
    ASSUME JobsOK, NEW K
    PROVE  /\ Unawait(K) \in [Instances -> [Mutations -> Jobs]]
           /\ \A i \in Instances, m \in Mutations :
                  /\ Unawait(K)[i][m].pc = job[i][m].pc
                  /\ Unawait(K)[i][m].files = job[i][m].files
                  /\ Unawait(K)[i][m].expected = job[i][m].expected
<1> DEFINE less(i, m) == [job[i][m] EXCEPT !.awaits = @ \ K]
<1>1. \A i \in Instances, m \in Mutations :
          /\ less(i, m) \in Jobs
          /\ less(i, m).pc = job[i][m].pc
          /\ less(i, m).files = job[i][m].files
          /\ less(i, m).expected = job[i][m].expected
  <2> SUFFICES ASSUME NEW i \in Instances, NEW m \in Mutations
               PROVE  /\ less(i, m) \in Jobs
                      /\ less(i, m).pc = job[i][m].pc
                      /\ less(i, m).files = job[i][m].files
                      /\ less(i, m).expected = job[i][m].expected
    OBVIOUS
  <2>1. job[i][m] \in Jobs
    BY DEF JobsOK
  <2>2. job[i][m].awaits \ K \in SUBSET Keys
    BY <2>1 DEF Jobs
  <2> QED BY <2>1, <2>2 DEF Jobs
<1>2. Unawait(K) = [i \in Instances |-> [m \in Mutations |-> less(i, m)]]
  BY DEF Unawait
<1> HIDE DEF less
<1> QED BY <1>1, <1>2

\* So they carry every save.
LEMMA UnawaitCarries ==
    ASSUME ConfigInv, NEW K, job' = Unawait(K)
    PROVE  /\ JobsOK'
           /\ UNCHANGED <<draft, raced, slipped>> => SavesOK' /\ PublishesOK'
<1>1. JobsOK /\ SavesOK /\ PublishesOK
  BY DEF ConfigInv
<1>2. /\ job' \in [Instances -> [Mutations -> Jobs]]
      /\ \A i \in Instances, m \in Mutations :
             /\ job'[i][m].pc = job[i][m].pc
             /\ job'[i][m].files = job[i][m].files
             /\ job'[i][m].expected = job[i][m].expected
  BY <1>1, UnawaitOK
<1>3. \A i \in Instances : CarriesSave(i) /\ CarriesPublish(i)
  BY <1>2 DEF CarriesSave, CarriesPublish, Mutations
<1> QED BY <1>1, <1>2, <1>3, SavesCarried

-----------------------------------------------------------------------------
(* The steps of the queries.                                               *)

\* The server's variables keep their types in a step that does not write the draft.
LEMMA ServerKept ==
    ASSUME ConfigInv, draft' \in Drafts, published' \in {published, draft},
           configDir' \in BOOLEAN, raced' \in BOOLEAN, slipped' \in BOOLEAN, UNCHANGED events \/ Count
    PROVE  ServerOK'
<1>1. events' \in 0..MaxEvents
  BY ConfigAssumption DEF ConfigInv, ServerOK, Count
<1> QED BY <1>1 DEF ConfigInv, ServerOK

\* A part whose variables do not change stays as it is.
LEMMA PartsKept ==
    ASSUME ConfigInv
    PROVE  /\ UNCHANGED serverVars /\ (UNCHANGED events \/ Count) => ServerOK'
           /\ UNCHANGED <<entry, get, invalid>> => CacheOK'
           /\ UNCHANGED job => JobsOK'
           /\ UNCHANGED <<mounted, dialog, activePath, content, typedIn, validation>> => PageOK'
           /\ UNCHANGED <<job, draft, raced, slipped>> => SavesOK' /\ PublishesOK'
<1>1. ASSUME UNCHANGED serverVars, UNCHANGED events \/ Count PROVE ServerOK'
  <2>1. /\ draft' = draft /\ published' = published /\ configDir' = configDir
        /\ raced' = raced /\ slipped' = slipped
    BY <1>1 DEF serverVars
  <2> QED BY <1>1, <2>1, ServerKept DEF ConfigInv, ServerOK
<1>2. ASSUME UNCHANGED <<entry, get, invalid>> PROVE CacheOK'
  BY <1>2 DEF ConfigInv, CacheOK
<1>3. ASSUME UNCHANGED job PROVE JobsOK'
  BY <1>3 DEF ConfigInv, JobsOK
<1>4. ASSUME UNCHANGED <<mounted, dialog, activePath, content, typedIn, validation>> PROVE PageOK'
  BY <1>4 DEF ConfigInv, PageOK
<1>5. ASSUME UNCHANGED <<job, draft, raced, slipped>> PROVE SavesOK' /\ PublishesOK'
  BY <1>5 DEF ConfigInv, SavesOK, PublishesOK
<1> QED BY <1>1, <1>2, <1>3, <1>4, <1>5

\* The page mounts with the first file in its editor, or none.
LEMMA EnterOK ==
    ASSUME ConfigInv, Enter
    PROVE  ConfigInv'
<1> DEFINE data == Cached
<1>1. CacheOK
  BY DEF ConfigInv
<1>2. CacheOK' /\ Cached' = data /\ data \in Drafts
  <2>1. CacheOK' /\ \A k \in Keys : entry'[k].data = entry[k].data
    BY <1>1, RefetchOK DEF Enter
  <2> QED BY <1>1, <2>1, DraftData DEF Cached
<1>3. ServerOK' /\ JobsOK' /\ SavesOK' /\ PublishesOK'
  BY PartsKept DEF Enter, serverVars
<1> DEFINE file == ActiveFile(data, 0)
<1>4. activePath' = file /\ content' = TextOf(data, file)
  BY DEF Enter
<1>5. /\ file \in Paths \cup {0}
      /\ file # 0 => data[file] \in Texts /\ ActiveFile(data, file) = file
  BY <1>2, ActiveFacts
<1>6. PageOK'
  <2>1. content' \in Texts \cup {NoText}
    BY <1>4, <1>5 DEF TextOf
  <2> QED BY <1>4, <1>5, <2>1 DEF Enter, ConfigInv, PageOK
<1>7. LoadsView
  <2>1. file = 0 => ActiveFile(data, file) = 0
    OBVIOUS
  <2>2. Active' = file
    BY <1>2, <1>4, <1>5, <2>1 DEF Active
  <2> QED BY <1>2, <1>4, <2>2 DEF LoadsView, ActiveContent, TextOf
<1>8. EditorOK'
  <2>1. ~dialog'
    BY DEF Enter, ConfigInv, EditorOK
  <2> QED BY <1>2, <1>7, <2>1, ViewOK
<1> QED BY <1>2, <1>3, <1>6, <1>8 DEF ConfigInv

\* The page unmounts; its mutations become those of a page left.
LEMMA LeavePageOK ==
    ASSUME ConfigInv, LeavePage
    PROVE  ConfigInv'
<1>1. ServerOK' /\ CacheOK'
  BY PartsKept DEF LeavePage
<1>2. PageOK'
  BY DEF LeavePage, ConfigInv, PageOK
<1>3. EditorOK'
  BY DEF LeavePage, EditorOK
<1>4. JobsOK
  BY DEF ConfigInv
<1>5. IdleJob \in Jobs /\ IdleJob.pc = "idle"
  BY JobFacts
<1>6. job' \in [Instances -> [Mutations -> Jobs]]
  <2>1. job["page"] \in [Mutations -> Jobs]
    BY <1>4 DEF JobsOK, Instances
  <2> QED BY <1>4, <1>5, <2>1 DEF LeavePage, JobsOK
<1>7. /\ job'["left"]["save"] = job["page"]["save"] /\ job'["page"]["save"] = IdleJob
      /\ job'["left"]["publish"] = job["page"]["publish"] /\ job'["page"]["publish"] = IdleJob
  <2>1. job \in [Instances -> [Mutations -> Jobs]] /\ "page" \in Instances /\ "left" \in Instances
        /\ "save" \in Mutations /\ "page" # "left" /\ "save" # "validate"
        /\ "publish" \in Mutations /\ "publish" # "validate"
    BY <1>4 DEF JobsOK, Instances, Mutations
  <2>2. job' = [job EXCEPT !["left"] = [job["page"] EXCEPT !["validate"] = IdleJob],
                           !["page"] = [m \in Mutations |-> IdleJob]]
    BY DEF LeavePage
  <2> QED BY <2>1, <2>2
<1>8. Instances = {"page", "left"}
  BY DEF Instances
<1>9. JobsOK'
  BY <1>4, <1>5, <1>6, <1>7, <1>8 DEF JobsOK, Unanswered
<1>10. SavesOK' /\ PublishesOK'
  <2>1. SavesOK /\ PublishesOK /\ UNCHANGED <<draft, raced, slipped>>
    BY DEF ConfigInv, LeavePage, serverVars
  <2>2. SavesOK'
    BY <1>5, <1>7, <1>8, <2>1 DEF SavesOK, InCommit
  <2>3. PublishesOK'
    BY <1>5, <1>7, <1>8, <2>1 DEF PublishesOK
  <2> QED BY <2>2, <2>3
<1> QED BY <1>1, <1>2, <1>3, <1>9, <1>10 DEF ConfigInv

\* "Try again" refetches; nothing the editor shows changes.
LEMMA RetryQueriesOK ==
    ASSUME ConfigInv, RetryQueries
    PROVE  ConfigInv'
<1>1. CacheOK' /\ \A k \in Keys : entry'[k].data = entry[k].data
  BY RefetchOK DEF RetryQueries, ConfigInv, CacheOK
<1>2. EditorOK'
  BY <1>1, SameView DEF RetryQueries, Keys
<1>3. JobsOK' /\ SavesOK' /\ PublishesOK'
  BY UnawaitCarries DEF RetryQueries, serverVars
<1>4. ServerOK' /\ PageOK'
  BY PartsKept DEF RetryQueries
<1> QED BY <1>1, <1>2, <1>3, <1>4 DEF ConfigInv

\* The server reads for a query, or the answer is lost; config.d may be created.
LEMMA ServeGetOK ==
    ASSUME ConfigInv, NEW k \in Keys, ServeGet(k) \/ LoseGet(k)
    PROVE  ConfigInv'
<1>1. /\ UNCHANGED <<mounted, entry, invalid, activePath, content, typedIn, validation, dialog, job>>
      /\ UNCHANGED <<draft, published, raced, slipped>> /\ (UNCHANGED events \/ Count)
      /\ configDir' \in {configDir, TRUE}
  BY DEF ServeGet, HashDraft, ReadFiles, ListObjects, CreateConfigDir, LoseGet, serverVars
<1>2. CacheOK /\ draft \in Drafts /\ NoFiles \in Drafts
  BY NoFilesIsDraft DEF ConfigInv, ServerOK
<1>3. PICK g \in Gets : get' = [get EXCEPT ![k] = g] /\ GetHas(g)
  <2>1. CASE LoseGet(k)
    BY <2>1, GetFacts DEF LoseGet
  <2>2. CASE k = "draft" /\ HashDraft
    <3>1. [version |-> draft, files |-> NoFiles] \in Answers /\ "hashed" \in GetSteps
      BY <1>2 DEF Answers, GetSteps
    <3> QED BY <2>2, <3>1, GetFacts DEF HashDraft
  <2>3. CASE k = "draft" /\ ReadFiles
    <3> DEFINE version == get[k].answer.version
               g == [pc |-> "replied", answer |-> [version |-> version, files |-> Restrict(draft, DOMAIN version)]]
    <3>1. version \in Drafts
      BY <1>2, <2>3 DEF ReadFiles, CacheOK, GetHas, Answers
    <3>2. CASE DOMAIN version \subseteq DOMAIN draft
      <4>1. [version |-> version, files |-> Restrict(draft, DOMAIN version)] \in Answers /\ "replied" \in GetSteps
        BY <1>2, <3>1, <3>2, ReadAgain DEF Answers, GetSteps
      <4>2. g \in Gets /\ GetHas(g)
        BY <4>1, GetFacts
      <4>3. get' = [get EXCEPT ![k] = g]
        BY <2>3, <3>2 DEF ReadFiles
      <4> QED BY <4>2, <4>3
    <3>3. CASE ~(DOMAIN version \subseteq DOMAIN draft)
      BY <2>3, <3>3, GetFacts DEF ReadFiles
    <3> QED BY <3>2, <3>3
  <2>4. CASE k = "objects" /\ ListObjects
    <3>1. [version |-> NoFiles, files |-> NoFiles] \in Answers /\ "replied" \in GetSteps
      BY <1>2 DEF Answers, GetSteps
    <3>2. \/ get' = [get EXCEPT ![k] = FailedGet]
          \/ get' = [get EXCEPT ![k] = [pc |-> "replied", answer |-> [version |-> NoFiles, files |-> NoFiles]]]
      BY <2>4 DEF ListObjects
    <3> QED BY <3>1, <3>2, GetFacts
  <2> QED BY <2>1, <2>2, <2>3, <2>4 DEF ServeGet
<1>4. CacheOK'
  <2>1. get' \in [Keys -> Gets] /\ \A k2 \in Keys : GetHas(get'[k2])
    BY <1>2, <1>3 DEF CacheOK
  <2> QED BY <1>1, <1>2, <2>1 DEF CacheOK
<1>5. EditorOK'
  BY <1>1, SameView
<1>6. JobsOK' /\ PageOK' /\ SavesOK' /\ PublishesOK'
  BY <1>1, PartsKept
<1>7. ServerOK'
  BY <1>1, <1>2, ServerKept DEF ConfigInv, ServerOK
<1> QED BY <1>4, <1>5, <1>6, <1>7 DEF ConfigInv

\* An answer reaches the cache and the page renders.
LEMMA AnswerGetOK ==
    ASSUME ConfigInv, NEW k \in Keys, AnswerGet(k)
    PROVE  ConfigInv'
<1> DEFINE new == IF get[k].pc = "replied" THEN Resolve(get[k].answer)
                  ELSE Reject(entry[k], DefaultRetries)
<1>1. CacheOK /\ entry[k] \in QueryEntries(Answers) /\ EntryHas(entry[k])
  BY DraftData DEF ConfigInv, CacheOK
<1>2. /\ new \in QueryEntries(Answers) /\ new.data \in Answers \cup {NoData} /\ EntryHas(new)
      /\ entry[k].data \in Answers => new.data \in Answers
  <2>1. CASE get[k].pc = "replied"
    <3>1. get[k].answer \in Answers
      BY <1>1, <2>1 DEF CacheOK, GetHas
    <3> QED BY <2>1, <3>1, ResolveOK DEF EntryHas
  <2>2. CASE get[k].pc # "replied"
    <3>1. /\ Reject(entry[k], DefaultRetries) \in QueryEntries(Answers)
          /\ Reject(entry[k], DefaultRetries).data = entry[k].data
          /\ Reject(entry[k], DefaultRetries).status = "success" => entry[k].status = "success"
      BY <1>1, RejectOK DEF DefaultRetries
    <3> QED BY <1>1, <2>2, <3>1, EntryData DEF EntryHas
  <2> QED BY <2>1, <2>2
<1>3. /\ entry' = [entry EXCEPT ![k] = new]
      /\ get' = [get EXCEPT ![k] = IF new.fetching THEN SentGet ELSE IdleGet]
      /\ IF mounted /\ k = "draft" THEN Render(FilesOf(new.data), activePath)
         ELSE UNCHANGED <<activePath, content, typedIn>>
      /\ dialog' = (dialog /\ Screen(entry') = "editor")
      /\ job' = IF new.fetching THEN job ELSE Unawait({k})
      /\ UNCHANGED <<mounted, invalid, validation>> /\ UNCHANGED serverVars /\ UNCHANGED events
  BY DEF AnswerGet
<1> HIDE DEF new
<1>4. entry' \in [Keys -> QueryEntries(Answers)]
  BY <1>1, <1>2, <1>3 DEF CacheOK
<1>5. CacheOK'
  BY <1>1, <1>2, <1>3, GetFacts, GetOK
<1>6. entry'["draft"].data = IF k = "draft" THEN new.data ELSE entry["draft"].data
  BY <1>1, <1>3 DEF CacheOK, Keys
<1>7. ServerOK'
  BY <1>3, PartsKept
<1>8. JobsOK' /\ SavesOK' /\ PublishesOK'
  BY <1>3, PartsKept, UnawaitCarries DEF serverVars
<1>9. dialog' => dialog
  BY <1>3
<1>10. dialog' \in BOOLEAN
  BY <1>3
<1>11. PageOK' /\ EditorOK'
  <2>1. CASE mounted /\ k = "draft"
    <3>1. /\ KeepsView \/ LoadsView
          /\ activePath' \in Paths \cup {0} /\ typedIn' \in Paths \cup {0}
          /\ content' \in Texts \cup {NoText}
      <4>1. Cached' = FilesOf(new.data) /\ FilesOf(new.data) \in Drafts
        BY <1>2, <1>6, <2>1, FilesFacts DEF Cached
      <4>2. Render(Cached', activePath) /\ activePath \in Paths \cup {0}
        BY <1>3, <2>1, <4>1 DEF ConfigInv, PageOK
      <4> QED BY <2>1, <4>1, <4>2, RenderOK
    <3>2. mounted' = mounted /\ validation' = validation
      BY <1>3
    <3>3. EditorOK'
      <4>1. mounted /\ mounted'
        BY <2>1, <3>2
      <4>2. dialog' => mounted' /\ entry'["draft"].data \in Answers /\ dialog
        BY <1>2, <1>6, <1>9, <2>1, <4>1 DEF ConfigInv, EditorOK
      <4> QED BY <1>5, <3>1, <4>2, ViewOK
    <3>4. PageOK'
      BY <1>10, <3>1, <3>2 DEF ConfigInv, PageOK
    <3> QED BY <3>3, <3>4
  <2>2. CASE ~mounted
    <3>1. UNCHANGED <<activePath, content, typedIn>> /\ ~mounted'
      BY <1>3, <2>2
    <3>2. EditorOK'
      BY <1>9, <2>2, <3>1 DEF ConfigInv, EditorOK
    <3> QED BY <1>3, <1>10, <3>1, <3>2 DEF ConfigInv, PageOK
  <2>3. CASE mounted /\ k # "draft"
    <3>1. UNCHANGED <<activePath, content, typedIn>> /\ entry'["draft"].data = entry["draft"].data
      BY <1>3, <1>6, <2>3
    <3>2. EditorOK'
      BY <1>3, <1>9, <3>1, SameView
    <3> QED BY <1>3, <1>10, <3>1, <3>2 DEF ConfigInv, PageOK
  <2> QED BY <2>1, <2>2, <2>3
<1> QED BY <1>5, <1>7, <1>8, <1>11 DEF ConfigInv

-----------------------------------------------------------------------------
(* The steps of the operator.                                              *)

\* Another file is opened.
LEMMA SelectFileOK ==
    ASSUME ConfigInv, NEW path \in Paths, SelectFile(path)
    PROVE  ConfigInv'
<1>1. /\ mounted /\ ~dialog /\ Render(Cached, path)
      /\ UNCHANGED <<mounted, entry, get, invalid, validation, dialog, job>>
      /\ UNCHANGED serverVars /\ UNCHANGED events
  BY DEF SelectFile, Editing, Shown
<1>2. ServerOK' /\ CacheOK' /\ JobsOK' /\ SavesOK' /\ PublishesOK'
  BY <1>1, PartsKept DEF serverVars
<1>3. Cached' = Cached /\ Cached \in Drafts
  BY <1>1, DraftData DEF ConfigInv, Cached
<1>4. /\ KeepsView \/ LoadsView
      /\ activePath' \in Paths \cup {0} /\ typedIn' \in Paths \cup {0}
      /\ content' \in Texts \cup {NoText}
  BY <1>1, <1>3, RenderOK
<1>5. PageOK'
  BY <1>1, <1>4 DEF ConfigInv, PageOK
<1>6. EditorOK'
  BY <1>1, <1>2, <1>4, ViewOK
<1> QED BY <1>2, <1>5, <1>6 DEF ConfigInv

\* Text is typed into the file that is open.
LEMMA TypeOK ==
    ASSUME ConfigInv, NEW text \in Typed, Type(text)
    PROVE  ConfigInv'
<1>1. /\ mounted /\ ~dialog /\ content' = text /\ typedIn' = Active /\ text \in Texts
      /\ UNCHANGED <<mounted, entry, get, invalid, activePath, validation, dialog, job>>
      /\ UNCHANGED serverVars /\ UNCHANGED events
  BY ConfigAssumption DEF Type, Editing, Shown
<1>2. ServerOK' /\ CacheOK' /\ JobsOK' /\ SavesOK' /\ PublishesOK'
  BY <1>1, PartsKept DEF serverVars
<1>3. Active' = Active /\ Active \in Paths \cup {0}
  BY <1>1, DraftData, ActiveFacts DEF Active, Cached, ConfigInv
<1>4. PageOK'
  BY <1>1, <1>3 DEF ConfigInv, PageOK
<1>5. EditorOK'
  BY <1>1, <1>3 DEF EditorOK
<1> QED BY <1>2, <1>4, <1>5 DEF ConfigInv

\* A mutation of the page starts.
LEMMA StartOK ==
    ASSUME ConfigInv, NEW m \in Mutations, NEW files \in Drafts \cup {NoDraft},
           NEW expected \in Drafts \cup {NoDraft}, Start(m, files, expected),
           m = "save" => files \in Drafts,
           UNCHANGED <<draft, raced, slipped>>
    PROVE  JobsOK' /\ SavesOK' /\ PublishesOK'
<1> DEFINE page == "page"
           j == [IdleJob EXCEPT !.pc = "sent", !.files = files, !.expected = expected]
<1>1. JobsOK /\ SavesOK /\ page \in Instances
  BY DEF ConfigInv, Instances
<1>2. j \in Jobs /\ j.pc = "sent" /\ j.files = files
  <2>1. "sent" \in JobSteps
    BY DEF JobSteps
  <2> QED BY <2>1, JobFacts DEF Jobs
<1>3. job' = [job EXCEPT ![page][m] = j]
  BY DEF Start
<1> HIDE DEF j, page
<1>4. /\ job' \in [Instances -> [Mutations -> Jobs]] /\ job'[page][m] = j
      /\ \A i2 \in Instances, m2 \in Mutations : i2 # page \/ m2 # m => job'[i2][m2] = job[i2][m2]
  BY <1>1, <1>2, <1>3 DEF JobsOK
<1>5. \A i \in Instances :
          /\ job'[i]["save"] = job[i]["save"] \/ (job'[i]["save"] = j /\ m = "save")
          /\ job'[i]["publish"] = job[i]["publish"] \/ (job'[i]["publish"] = j /\ m = "publish")
  BY <1>4 DEF Mutations
<1>6. JobsOK'
  BY <1>1, <1>2, <1>4, <1>5 DEF JobsOK
<1>7. SavesOK'
  BY <1>1, <1>2, <1>5 DEF SavesOK, InCommit
<1>8. PublishesOK'
  <2>1. \A i \in Instances : CarriesPublish(i)
    BY <1>2, <1>5 DEF CarriesPublish
  <2> QED BY <2>1, PublishesCarried DEF ConfigInv
<1> QED BY <1>6, <1>7, <1>8

\* A save carries a draft: the cached one with the text of the open file.
LEMMA SaveOK ==
    ASSUME ConfigInv, Save
    PROVE  ConfigInv'
<1> DEFINE version == entry["draft"].data.version
<1>1. /\ mounted /\ Changed
      /\ Start("save", [Cached EXCEPT ![Active] = content], version)
      /\ UNCHANGED <<mounted, entry, get, invalid, activePath, content, typedIn, validation, dialog>>
      /\ UNCHANGED serverVars
  BY DEF Save, Editing, Shown
<1>2. Cached \in Drafts /\ Active \in DOMAIN Cached /\ content \in Texts /\ version \in Drafts
  <2>1. Active # 0 /\ content \in Texts
    BY <1>1 DEF Changed, ConfigInv, EditorOK
  <2>2. Cached \in Drafts /\ entry["draft"].data \in Answers \cup {NoData}
    BY DraftData DEF ConfigInv
  <2>3. entry["draft"].data # NoData
    BY <2>1 DEF Active, ActiveFile, Cached, FilesOf
  <2>4. version \in Drafts
    BY <2>2, <2>3 DEF Answers
  <2> QED BY <2>1, <2>2, <2>4, ActiveFacts DEF Active
<1>3. [Cached EXCEPT ![Active] = content] \in Drafts
  BY <1>2, DraftFacts
<1>4. JobsOK' /\ SavesOK' /\ PublishesOK'
  BY <1>1, <1>2, <1>3, StartOK DEF serverVars, Mutations
<1>5. ServerOK' /\ CacheOK' /\ PageOK'
  BY <1>1, PartsKept DEF Start
<1>6. EditorOK'
  BY <1>1, SameView
<1> QED BY <1>4, <1>5, <1>6 DEF ConfigInv

\* Validation and publishing start without files.
LEMMA RequestOK ==
    ASSUME ConfigInv, Validate \/ Publish
    PROVE  ConfigInv'
<1>1. PICK m \in {"validate", "publish"}, expected \in Drafts \cup {NoDraft} :
          /\ Start(m, NoDraft, expected)
          /\ UNCHANGED <<mounted, entry, get, invalid, activePath, content, typedIn, validation, dialog>>
          /\ UNCHANGED serverVars
  <2>1. CASE Validate
    BY <2>1 DEF Validate
  <2>2. CASE Publish
    <3>1. entry["draft"].data \in Answers
      BY <2>2 DEF Publish, ConfigInv, EditorOK
    <3>2. entry["draft"].data.version \in Drafts
      BY <3>1 DEF Answers
    <3> QED BY <2>2, <3>2 DEF Publish
  <2> QED BY <2>1, <2>2
<1>2. m \in Mutations /\ m # "save"
  BY DEF Mutations
<1>3. JobsOK' /\ SavesOK' /\ PublishesOK'
  BY <1>1, <1>2, StartOK DEF serverVars
<1>4. ServerOK' /\ CacheOK' /\ PageOK'
  BY <1>1, PartsKept DEF Start
<1>5. EditorOK'
  BY <1>1, SameView
<1> QED BY <1>3, <1>4, <1>5 DEF ConfigInv

\* The dialog opens over saved text only, of a draft that was read.
LEMMA DialogOK ==
    ASSUME ConfigInv, OpenDialog \/ CloseDialog
    PROVE  ConfigInv'
<1>1. /\ UNCHANGED <<mounted, entry, get, invalid, activePath, content, typedIn, validation, job>>
      /\ UNCHANGED serverVars /\ UNCHANGED events
      /\ dialog' \in BOOLEAN /\ (dialog' => mounted /\ ~Changed /\ Screen(entry) = "editor")
  BY DEF OpenDialog, CloseDialog, Editing, Shown, MayReview
<1>2. ServerOK' /\ CacheOK' /\ JobsOK' /\ SavesOK' /\ PublishesOK'
  BY <1>1, PartsKept DEF serverVars
<1>3. PageOK'
  BY <1>1 DEF ConfigInv, PageOK
<1>4. dialog' => entry["draft"].data \in Answers
  <2>1. "draft" \in Keys /\ EntryHas(entry["draft"]) /\ entry["draft"] \in QueryEntries(Answers)
    BY DEF ConfigInv, CacheOK, Keys
  <2>2. Screen(entry) = "editor" => entry["draft"].status \notin {"pending", "error"}
    BY <2>1 DEF Screen
  <2>3. entry["draft"].status \in {"pending", "success", "error"}
    BY <2>1, EntryData
  <2> QED BY <1>1, <2>1, <2>2, <2>3 DEF EntryHas
<1>5. EditorOK'
  BY <1>1, <1>4 DEF ConfigInv, EditorOK, Changed, ActiveContent, Active, Cached
<1> QED BY <1>2, <1>3, <1>5 DEF ConfigInv

-----------------------------------------------------------------------------
(* The steps of the server and of others.                                  *)

\* A step that leaves the page and the cache alone.
LEMMA PageKept ==
    ASSUME ConfigInv, UNCHANGED pageVars
    PROVE  CacheOK' /\ PageOK' /\ EditorOK'
<1>1. UNCHANGED <<mounted, entry, get, invalid, activePath, content, typedIn, validation, dialog>>
  BY DEF pageVars
<1> QED BY <1>1, PartsKept, SameView

\* A mutation is answered or goes to its next step.
LEMMA AnswerForm ==
    ASSUME JobsOK, NEW i \in Instances, NEW m \in Mutations, NEW pc \in JobSteps
    PROVE  /\ Answer(i, m, pc) =>
                  \E j \in Jobs : j.pc = pc /\ job' = [job EXCEPT ![i][m] = j]
           /\ Goto(i, m, pc) =>
                  \E j \in Jobs : /\ j.pc = pc /\ job' = [job EXCEPT ![i][m] = j]
                                  /\ j.files = job[i][m].files /\ j.expected = job[i][m].expected
<1>1. ASSUME Answer(i, m, pc)
      PROVE  \E j \in Jobs : j.pc = pc /\ job' = [job EXCEPT ![i][m] = j]
  BY <1>1, JobFacts DEF Answer
<1>2. ASSUME Goto(i, m, pc)
      PROVE  \E j \in Jobs : /\ j.pc = pc /\ job' = [job EXCEPT ![i][m] = j]
                             /\ j.files = job[i][m].files /\ j.expected = job[i][m].expected
  <2> DEFINE j == [job[i][m] EXCEPT !.pc = pc]
  <2>1. /\ j \in Jobs /\ j.pc = pc
        /\ j.files = job[i][m].files /\ j.expected = job[i][m].expected
    BY JobFacts
  <2>2. job' = [job EXCEPT ![i][m] = j]
    BY <1>2 DEF Goto, JobsOK
  <2> HIDE DEF j
  <2> QED BY <2>1, <2>2
<1> QED BY <1>1, <1>2

\* An answer that is no save under way, everything else of the server unchanged.
LEMMA AnswerOK ==
    ASSUME ConfigInv, NEW i \in Instances, NEW m \in Mutations, NEW pc \in JobSteps,
           Answer(i, m, pc) \/ Goto(i, m, pc),
           m = "save" => pc \notin Unanswered, m = "publish" => pc # "hashed"
    PROVE  /\ JobsOK'
           /\ UNCHANGED <<draft, raced, slipped>> => SavesOK' /\ PublishesOK'
<1>1. JobsOK
  BY DEF ConfigInv
<1>2. PICK j \in Jobs : j.pc = pc /\ job' = [job EXCEPT ![i][m] = j]
  BY <1>1, AnswerForm
<1> QED BY <1>2, OtherJobOK

\* The lock keeps all saves but one out of the commit.
LEMMA OneInCommit ==
    ASSUME ConfigInv, NEW i \in Instances,
           \/ MutexFree
           \/ job[i]["save"].pc \in InCommit
    PROVE  \A i2 \in Instances : i2 # i => job[i2]["save"].pc \notin InCommit
  BY DEF ConfigInv, SavesOK, MutexFree, InCommit

\* The check of a save: the draft is the one it expects.
LEMMA CheckReplaceOK ==
    ASSUME ConfigInv, NEW i \in Instances, CheckReplace(i)
    PROVE  ConfigInv'
<1>1. /\ MutexFree /\ job[i]["save"].pc = "sent"
      /\ UNCHANGED serverVars /\ UNCHANGED pageVars /\ UNCHANGED events
      /\ \/ job[i]["save"].expected = draft /\ Goto(i, "save", "checked")
         \/ Answer(i, "save", "failed")
  BY DEF CheckReplace
<1>2. ServerOK'
  BY <1>1, PartsKept
<1>3. CacheOK' /\ PageOK' /\ EditorOK'
  BY <1>1, PageKept
<1>4. JobsOK /\ "save" \in Mutations /\ {"checked", "failed"} \subseteq JobSteps
  BY DEF ConfigInv, Mutations, JobSteps
<1>5. PICK j \in Jobs : /\ job' = [job EXCEPT ![i]["save"] = j]
                        /\ \/ j.pc = "failed"
                           \/ /\ j.pc = "checked" /\ j.files = job[i]["save"].files
                              /\ j.expected = draft
  <2>1. CASE job[i]["save"].expected = draft /\ Goto(i, "save", "checked")
    BY <1>4, <2>1, AnswerForm
  <2>2. CASE Answer(i, "save", "failed")
    BY <1>4, <2>2, AnswerForm
  <2> QED BY <1>1, <2>1, <2>2
<1>6. /\ job' \in [Instances -> [Mutations -> Jobs]] /\ job'[i]["save"] = j
      /\ \A i2 \in Instances : i2 # i => job'[i2]["save"] = job[i2]["save"]
      /\ \A i2 \in Instances : job'[i2]["publish"] = job[i2]["publish"]
  BY <1>4, <1>5 DEF JobsOK, Mutations
<1>7. \A i2 \in Instances : i2 # i => job'[i2]["save"].pc \notin InCommit
  BY <1>1, <1>6, OneInCommit
<1>8. JobsOK'
  BY <1>1, <1>4, <1>5, <1>6 DEF JobsOK, Unanswered
<1>9. SavesOK'
  BY <1>1, <1>5, <1>6, <1>7 DEF SavesOK, InCommit, serverVars
<1>10. PublishesOK'
  BY <1>1, <1>6, PublishesCarried DEF ConfigInv, CarriesPublish, serverVars
<1> QED BY <1>2, <1>3, <1>8, <1>9, <1>10 DEF ConfigInv

\* The commit of a save: the old files are moved away, the new ones installed, or
\* neither the new nor the old.
LEMMA CommitOK ==
    ASSUME ConfigInv, NEW i \in Instances, MoveAway(i) \/ Install(i)
    PROVE  ConfigInv'
<1>1. /\ job[i]["save"].pc \in InCommit
      /\ Write(NoFiles) \/ Write(job[i]["save"].files) \/ UNCHANGED <<draft, slipped>>
      /\ configDir' \in {configDir, TRUE, FALSE} /\ raced' \in {raced, FALSE}
      /\ UNCHANGED published /\ UNCHANGED pageVars /\ UNCHANGED events
      /\ Goto(i, "save", "moved") \/ Answer(i, "save", "replied") \/ Answer(i, "save", "failed")
  BY DEF MoveAway, Install, InCommit
<1>2. JobsOK /\ "save" \in Mutations /\ {"moved", "replied", "failed"} \subseteq JobSteps
  BY DEF ConfigInv, Mutations, JobSteps
<1>3. job[i]["save"].files \in Drafts
  BY <1>1, <1>2 DEF JobsOK, InCommit, Unanswered
<1>4. ServerOK'
  <2>1. draft' \in Drafts /\ slipped' \in BOOLEAN
    BY <1>1, <1>3, NoFilesIsDraft DEF ConfigInv, ServerOK, Write
  <2> QED BY <1>1, <2>1, ServerKept DEF ConfigInv, ServerOK
<1>5. CacheOK' /\ PageOK' /\ EditorOK'
  BY <1>1, PageKept
<1>6. PICK j \in Jobs : /\ job' = [job EXCEPT ![i]["save"] = j]
                        /\ \/ j.pc \in {"replied", "failed"}
                           \/ j.pc = "moved" /\ j.files = job[i]["save"].files
  <2>1. CASE Goto(i, "save", "moved")
    BY <1>2, <2>1, AnswerForm
  <2>2. CASE Answer(i, "save", "replied")
    BY <1>2, <2>2, AnswerForm
  <2>3. CASE Answer(i, "save", "failed")
    BY <1>2, <2>3, AnswerForm
  <2> QED BY <1>1, <2>1, <2>2, <2>3
<1>7. /\ job' \in [Instances -> [Mutations -> Jobs]] /\ job'[i]["save"] = j
      /\ \A i2 \in Instances : i2 # i => job'[i2]["save"] = job[i2]["save"]
      /\ \A i2 \in Instances : job'[i2]["publish"] = job[i2]["publish"]
  BY <1>2, <1>6 DEF JobsOK, Mutations
<1>8. \A i2 \in Instances : i2 # i => job'[i2]["save"].pc \notin InCommit
  BY <1>1, <1>7, OneInCommit
<1>9. JobsOK'
  BY <1>2, <1>3, <1>6, <1>7 DEF JobsOK, Unanswered
<1>10. SavesOK'
  BY <1>6, <1>7, <1>8 DEF SavesOK, InCommit
<1>11. PublishesOK'
  BY <1>1, <1>7, PublishesCarried DEF ConfigInv, CarriesPublish
<1> QED BY <1>4, <1>5, <1>9, <1>10, <1>11 DEF ConfigInv

\* Validation and the steps of a publish that do not stop between its reads.
LEMMA ServeOthersOK ==
    ASSUME ConfigInv, NEW i \in Instances,
           ServeValidate(i) \/ PrecheckPublish(i)
    PROVE  ConfigInv'
<1>1. /\ configDir' = TRUE
      /\ UNCHANGED <<draft, published, raced, slipped>> /\ UNCHANGED pageVars /\ UNCHANGED events
      /\ \E m \in {"validate", "publish"}, pc \in {"valid", "invalid", "failed", "prechecked"} :
             Goto(i, m, pc) \/ Answer(i, m, pc)
  BY DEF ServeValidate, PrecheckPublish, CreateConfigDir
<1>2. ServerOK'
  BY <1>1, ServerKept DEF ConfigInv, ServerOK
<1>3. CacheOK' /\ PageOK' /\ EditorOK'
  BY <1>1, PageKept
<1>4. PICK m \in {"validate", "publish"}, pc \in {"valid", "invalid", "failed", "prechecked"} :
          Goto(i, m, pc) \/ Answer(i, m, pc)
  BY <1>1
<1>5. m \in Mutations /\ m # "save" /\ pc \in JobSteps /\ pc # "hashed"
  BY DEF Mutations, JobSteps
<1>6. JobsOK' /\ SavesOK' /\ PublishesOK'
  BY <1>1, <1>4, <1>5, AnswerOK
<1> QED BY <1>2, <1>3, <1>6 DEF ConfigInv

\* The first read of a publish: its version is that of the draft.
LEMMA LoadHashOK ==
    ASSUME ConfigInv, NEW i \in Instances, LoadHash(i)
    PROVE  ConfigInv'
<1>1. /\ configDir' = TRUE
      /\ UNCHANGED <<draft, published, raced, slipped>> /\ UNCHANGED pageVars /\ UNCHANGED events
      /\ \A i2 \in Instances : job[i2]["publish"].pc # "hashed"
      /\ \/ job[i]["publish"].expected = draft /\ Goto(i, "publish", "hashed")
         \/ Answer(i, "publish", "failed")
  BY DEF LoadHash, BaseMatches, CreateConfigDir
<1>2. ServerOK'
  BY <1>1, ServerKept DEF ConfigInv, ServerOK
<1>3. CacheOK' /\ PageOK' /\ EditorOK'
  BY <1>1, PageKept
<1>4. JobsOK /\ SavesOK /\ "publish" \in Mutations /\ {"hashed", "failed"} \subseteq JobSteps
  BY DEF ConfigInv, Mutations, JobSteps
<1>5. PICK j \in Jobs : /\ job' = [job EXCEPT ![i]["publish"] = j]
                        /\ j.pc = "failed" \/ j.expected = draft
  <2>1. CASE job[i]["publish"].expected = draft /\ Goto(i, "publish", "hashed")
    BY <1>4, <2>1, AnswerForm
  <2>2. CASE Answer(i, "publish", "failed")
    BY <1>4, <2>2, AnswerForm
  <2> QED BY <1>1, <2>1, <2>2
<1>6. /\ job' \in [Instances -> [Mutations -> Jobs]] /\ job'[i]["publish"] = j
      /\ \A i2 \in Instances : i2 # i => job'[i2]["publish"] = job[i2]["publish"]
      /\ \A i2 \in Instances : job'[i2]["save"] = job[i2]["save"]
  BY <1>4, <1>5 DEF JobsOK, Mutations
<1>7. JobsOK'
  BY <1>4, <1>6 DEF JobsOK
<1>8. SavesOK'
  BY <1>1, <1>4, <1>6 DEF SavesOK
<1>9. PublishesOK'
  BY <1>1, <1>5, <1>6 DEF PublishesOK
<1> QED BY <1>2, <1>3, <1>7, <1>8, <1>9 DEF ConfigInv

\* The second read of a publish: what it reads is delivered, or nothing.
LEMMA LoadContentOK ==
    ASSUME ConfigInv, NEW i \in Instances, LoadContent(i)
    PROVE  ConfigInv'
<1>1. /\ published' \in {published, draft} /\ slipped' = FALSE
      /\ UNCHANGED <<draft, configDir, raced>> /\ UNCHANGED pageVars /\ UNCHANGED events
      /\ job[i]["publish"].pc = "hashed"
      /\ Answer(i, "publish", "replied") \/ Answer(i, "publish", "failed")
  BY DEF LoadContent
<1>2. ServerOK'
  BY <1>1, ServerKept DEF ConfigInv, ServerOK
<1>3. CacheOK' /\ PageOK' /\ EditorOK'
  BY <1>1, PageKept
<1>4. JobsOK /\ SavesOK /\ PublishesOK /\ "publish" \in Mutations /\ {"replied", "failed"} \subseteq JobSteps
  BY DEF ConfigInv, Mutations, JobSteps
<1>5. PICK j \in Jobs : job' = [job EXCEPT ![i]["publish"] = j] /\ j.pc # "hashed"
  BY <1>1, <1>4, AnswerForm
<1>6. /\ job' \in [Instances -> [Mutations -> Jobs]] /\ job'[i]["publish"] = j
      /\ \A i2 \in Instances : i2 # i => job'[i2]["publish"] = job[i2]["publish"]
      /\ \A i2 \in Instances : job'[i2]["save"] = job[i2]["save"]
  BY <1>4, <1>5 DEF JobsOK, Mutations
<1>7. JobsOK'
  BY <1>4, <1>6 DEF JobsOK
<1>8. SavesOK'
  BY <1>1, <1>4, <1>6 DEF SavesOK
<1>9. \A i2 \in Instances : job'[i2]["publish"].pc # "hashed"
  BY <1>1, <1>4, <1>5, <1>6 DEF PublishesOK
<1>10. PublishesOK'
  BY <1>9 DEF PublishesOK
<1> QED BY <1>2, <1>3, <1>7, <1>8, <1>10 DEF ConfigInv

\* The draft changes under the page: through the API, or on disk.
LEMMA OthersWriteOK ==
    ASSUME ConfigInv, NEW files \in DiskDrafts, OtherReplaces(files) \/ EditOnDisk(files)
    PROVE  ConfigInv'
<1>1. /\ Count /\ Write(files) /\ raced' \in BOOLEAN
      /\ UNCHANGED <<configDir, published, job>> /\ UNCHANGED pageVars
      /\ MutexFree \/ raced'
  BY DEF OtherReplaces, EditOnDisk, ConfigInv, ServerOK
<1>2. ServerOK'
  <2>1. draft' \in Drafts /\ slipped' \in BOOLEAN
    BY <1>1, ConfigAssumption DEF Write, ConfigInv, ServerOK
  <2> QED BY <1>1, <2>1, ServerKept DEF ConfigInv, ServerOK
<1>3. CacheOK' /\ PageOK' /\ EditorOK'
  BY <1>1, PageKept
<1>4. JobsOK'
  BY <1>1, PartsKept
<1>5. SavesOK'
  BY <1>1 DEF ConfigInv, SavesOK, MutexFree, InCommit
<1>6. PublishesOK'
  BY <1>1, PublishesCarried DEF ConfigInv, CarriesPublish
<1> QED BY <1>2, <1>3, <1>4, <1>5, <1>6 DEF ConfigInv

-----------------------------------------------------------------------------
(* The answers to mutations.                                               *)

\* A mutation succeeded: the configuration's queries are invalidated.
LEMMA MutationSucceedsOK ==
    ASSUME ConfigInv, NEW i \in Instances, NEW m \in Mutations, MutationSucceeds(i, m)
    PROVE  ConfigInv'
<1> DEFINE waiting == [IdleJob EXCEPT !.pc = "refetching", !.awaits = Keys]
<1>1. /\ InvalidateConfig
      /\ job' = IF mounted THEN [Unawait(Restarted(Keys)) EXCEPT ![i][m] = waiting]
                ELSE [job EXCEPT ![i][m] = IdleJob]
      /\ UNCHANGED <<mounted, activePath, content, typedIn, validation, dialog>>
      /\ UNCHANGED serverVars /\ UNCHANGED events
  BY DEF MutationSucceeds
<1>2. CacheOK /\ JobsOK /\ SavesOK /\ PublishesOK
  BY DEF ConfigInv
<1>3. CacheOK' /\ entry'["draft"].data = entry["draft"].data
  <2>1. CASE mounted
    <3>1. Refetch(Keys) /\ invalid' \subseteq Keys
      BY <1>1, <1>2, <2>1 DEF InvalidateConfig, CacheOK
    <3>2. CacheOK' /\ \A k \in Keys : entry'[k].data = entry[k].data
      BY <1>2, <3>1, RefetchOK
    <3> QED BY <1>2, <3>2, DraftData
  <2>2. CASE ~mounted
    <3>1. invalid' = Keys /\ UNCHANGED <<entry, get>>
      BY <1>1, <2>2 DEF InvalidateConfig
    <3> QED BY <1>2, <3>1 DEF CacheOK
  <2> QED BY <2>1, <2>2
<1>4. ServerOK' /\ PageOK'
  BY <1>1, PartsKept
<1>5. EditorOK'
  BY <1>1, <1>3, SameView
<1>6. waiting \in Jobs /\ waiting.pc = "refetching"
  <2>1. "refetching" \in JobSteps
    BY DEF JobSteps
  <2> QED BY <2>1, JobFacts DEF Jobs
<1> HIDE DEF waiting
<1>7. UNCHANGED <<draft, raced, slipped>>
  BY <1>1 DEF serverVars
<1>8. JobsOK' /\ SavesOK' /\ PublishesOK'
  <2>1. CASE mounted
    <3> DEFINE less == Unawait(Restarted(Keys))
    <3>1. /\ less \in [Instances -> [Mutations -> Jobs]]
          /\ \A i2 \in Instances, m2 \in Mutations :
                 /\ less[i2][m2].pc = job[i2][m2].pc
                 /\ less[i2][m2].files = job[i2][m2].files
                 /\ less[i2][m2].expected = job[i2][m2].expected
      BY <1>2, UnawaitOK
    <3>2. job' = [less EXCEPT ![i][m] = waiting]
      BY <1>1, <2>1
    <3> HIDE DEF less
    <3>3. job' \in [Instances -> [Mutations -> Jobs]]
      BY <1>6, <3>1, <3>2
    <3>4. \A i2 \in Instances : /\ job'[i2]["save"] \in {less[i2]["save"], waiting}
                               /\ job'[i2]["publish"] \in {less[i2]["publish"], waiting}
      BY <3>1, <3>2 DEF Mutations
    <3>5. \A i2 \in Instances : CarriesSave(i2) /\ CarriesPublish(i2)
      BY <1>6, <3>1, <3>4 DEF CarriesSave, CarriesPublish, Unanswered, Mutations
    <3> QED BY <1>2, <1>7, <3>3, <3>5, SavesCarried
  <2>2. CASE ~mounted
    <3>1. job' = [job EXCEPT ![i][m] = IdleJob]
      BY <1>1, <2>2
    <3>2. IdleJob \in Jobs /\ IdleJob.pc \notin Unanswered /\ IdleJob.pc # "hashed"
      BY JobFacts DEF Unanswered
    <3> QED BY <1>7, <3>1, <3>2, OtherJobOK
  <2> QED BY <2>1, <2>2
<1> QED BY <1>3, <1>4, <1>5, <1>8 DEF ConfigInv

\* A mutation is over, or its answer is lost.
LEMMA MutationEndsOK ==
    ASSUME ConfigInv, NEW i \in Instances, NEW m \in Mutations,
           RefetchAwaited(i, m) \/ MutationFails(i, m) \/ LoseAnswer(i, m)
    PROVE  ConfigInv'
<1>1. /\ UNCHANGED serverVars /\ UNCHANGED pageVars /\ (UNCHANGED events \/ Count)
      /\ Finish(i, m) \/ Answer(i, m, "failed")
  BY DEF RefetchAwaited, MutationFails, LoseAnswer
<1>2. ServerOK'
  BY <1>1, PartsKept
<1>3. CacheOK' /\ PageOK' /\ EditorOK'
  BY <1>1, PageKept
<1>4. UNCHANGED <<draft, raced, slipped>>
  BY <1>1 DEF serverVars
<1>5. JobsOK' /\ SavesOK' /\ PublishesOK'
  <2>1. CASE Finish(i, m)
    <3>1. job' = [job EXCEPT ![i][m] = IdleJob]
      BY <2>1 DEF Finish
    <3>2. IdleJob \in Jobs /\ IdleJob.pc \notin Unanswered /\ IdleJob.pc # "hashed"
      BY JobFacts DEF Unanswered
    <3> QED BY <1>4, <3>1, <3>2, OtherJobOK
  <2>2. CASE Answer(i, m, "failed")
    <3>1. "failed" \in JobSteps /\ "failed" \notin Unanswered /\ "failed" # "hashed"
      BY DEF JobSteps, Unanswered
    <3> QED BY <1>4, <2>2, <3>1, AnswerOK
  <2> QED BY <1>1, <2>1, <2>2
<1> QED BY <1>2, <1>3, <1>5 DEF ConfigInv

\* The result of a validation reaches its page.
LEMMA ValidationAnsweredOK ==
    ASSUME ConfigInv, NEW i \in Instances, ValidationAnswered(i)
    PROVE  ConfigInv'
<1>1. /\ validation' \in {validation, "ok", "failed"}
      /\ Finish(i, "validate")
      /\ UNCHANGED <<mounted, entry, get, invalid, activePath, content, typedIn, dialog>>
      /\ UNCHANGED serverVars /\ UNCHANGED events
  BY DEF ValidationAnswered
<1>2. ServerOK' /\ CacheOK'
  BY <1>1, PartsKept
<1>3. PageOK'
  BY <1>1 DEF ConfigInv, PageOK
<1>4. EditorOK'
  BY <1>1, SameView
<1>5. UNCHANGED <<draft, raced, slipped>> /\ "validate" \in Mutations
  BY <1>1 DEF serverVars, Mutations
<1>6. IdleJob \in Jobs /\ job' = [job EXCEPT ![i]["validate"] = IdleJob]
  BY <1>1, JobFacts DEF Finish
<1>7. JobsOK' /\ SavesOK' /\ PublishesOK'
  BY <1>5, <1>6, OtherJobOK
<1> QED BY <1>2, <1>3, <1>4, <1>7 DEF ConfigInv

-----------------------------------------------------------------------------
(* The theorems.                                                           *)

\* The page starts without cache, and the draft is one.
LEMMA ConfigStart ==
    ASSUME Init
    PROVE  ConfigInv
<1>1. ServerOK
  <2>1. events \in 0..MaxEvents
    BY ConfigAssumption DEF Init
  <2> QED BY <2>1, ConfigAssumption DEF Init, ServerOK
<1>2. CacheOK
  <2>1. EmptyQuery \in QueryEntries(Answers)
    BY EmptyOK
  <2> QED BY <2>1, EmptyOK, GetFacts DEF Init, CacheOK, EntryHas
<1>3. JobsOK /\ SavesOK /\ PublishesOK
  <2>1. \A i \in Instances, m \in Mutations : job[i][m] = IdleJob
    BY DEF Init
  <2>2. job \in [Instances -> [Mutations -> Jobs]]
    BY JobFacts DEF Init
  <2>3. "save" \in Mutations /\ "publish" \in Mutations /\ IdleJob.pc = "idle"
    BY JobFacts DEF Mutations
  <2> QED BY <2>1, <2>2, <2>3 DEF JobsOK, SavesOK, PublishesOK, Unanswered, InCommit
<1>4. PageOK /\ EditorOK
  BY DEF Init, PageOK, EditorOK
<1> QED BY <1>1, <1>2, <1>3, <1>4 DEF ConfigInv

\* Every step keeps the invariant.
LEMMA ConfigStep ==
    ASSUME ConfigInv, [Next]_vars
    PROVE  ConfigInv'
<1>1. ASSUME NEW k \in Keys, ServeGet(k) \/ AnswerGet(k) \/ LoseGet(k) PROVE ConfigInv'
  BY <1>1, ServeGetOK, AnswerGetOK
<1>2. ASSUME NEW i \in Instances, NEW m \in Mutations, ServeMutation(i, m) PROVE ConfigInv'
  BY <1>2, CheckReplaceOK, CommitOK, ServeOthersOK, LoadHashOK, LoadContentOK DEF ServeMutation
<1>3. ASSUME NEW i \in Instances, NEW m \in Mutations, AnswerMutation(i, m) \/ LoseAnswer(i, m)
      PROVE  ConfigInv'
  BY <1>3, MutationSucceedsOK, MutationEndsOK, ValidationAnsweredOK DEF AnswerMutation
<1>4. CASE Operator
  BY <1>4, EnterOK, LeavePageOK, RetryQueriesOK, SelectFileOK, TypeOK, SaveOK, RequestOK, DialogOK
     DEF Operator
<1>5. ASSUME NEW files \in DiskDrafts, OtherReplaces(files) \/ EditOnDisk(files) PROVE ConfigInv'
  BY <1>5, OthersWriteOK
<1>6. CASE UNCHANGED vars
  <2>1. /\ UNCHANGED serverVars /\ UNCHANGED events /\ UNCHANGED pageVars /\ UNCHANGED job
        /\ UNCHANGED <<draft, raced, slipped>>
    BY <1>6 DEF vars, serverVars, pageVars
  <2> QED BY <2>1, PageKept, PartsKept DEF ConfigInv
<1> QED BY <1>1, <1>2, <1>3, <1>4, <1>5, <1>6 DEF Next, Others

\* ConfigInv holds of every state of the specification.
THEOREM ConfigInvariance == Spec => []ConfigInv
<1>1. Init => ConfigInv
  BY ConfigStart
<1>2. ConfigInv /\ [Next]_vars => ConfigInv'
  BY ConfigStep
<1> QED BY <1>1, <1>2, PTL DEF Spec

\* The draft, the cache, the page and the mutations keep their types.
THEOREM ConfigTypeCorrect == Spec => []ConfigTypeOK
<1>1. ConfigInv => ConfigTypeOK
  BY InvParts
<1> QED BY <1>1, ConfigInvariance, PTL

\* Unsaved text in the editor was typed into the file that is open.
THEOREM TextStays == Spec => []TextStaysInItsFile
<1>1. ConfigInv => TextStaysInItsFile
  BY InvParts
<1> QED BY <1>1, ConfigInvariance, PTL

\* The publish dialog is never open over unsaved text.
THEOREM DialogIsSaved == Spec => []DialogShowsSaved
<1>1. ConfigInv => DialogShowsSaved
  BY InvParts
<1> QED BY <1>1, ConfigInvariance, PTL

\* A save replaces the draft its page had loaded, or one edited on disk after
\* the check.
THEOREM NoUpdateIsLost == Spec => NoLostUpdate
<1>1. ConfigInv /\ [Next]_vars =>
          [\A i \in Instances :
              job[i]["save"].pc = "checked" /\ job'[i]["save"].pc = "moved"
                  => draft = job[i]["save"].expected \/ raced]_vars
  BY DEF ConfigInv, SavesOK
<1> QED BY <1>1, ConfigInvariance, PTL DEF Spec, NoLostUpdate

\* Only the second read of PublishWithBase publishes.
LEMMA OnlyLoadContentPublishes ==
    ASSUME [Next]_vars, published' # published
    PROVE  \E i \in Instances : LoadContent(i)
<1>1. ~Operator
  BY DEF Operator, Enter, LeavePage, RetryQueries, SelectFile, Type, Save, Validate, OpenDialog,
         CloseDialog, Publish, serverVars
<1>2. ~Others
  BY DEF Others, OtherReplaces, EditOnDisk, LoseGet, LoseAnswer, serverVars
<1>3. \A k \in Keys : ~ServeGet(k) /\ ~AnswerGet(k)
  BY DEF ServeGet, AnswerGet, serverVars
<1>4. \A i \in Instances, m \in Mutations : ~AnswerMutation(i, m)
  BY DEF AnswerMutation, MutationSucceeds, RefetchAwaited, MutationFails, ValidationAnswered, serverVars
<1>5. \A i \in Instances, m \in Mutations : ServeMutation(i, m) => LoadContent(i)
  BY DEF ServeMutation, CheckReplace, MoveAway, Install, ServeValidate, PrecheckPublish, LoadHash, serverVars
<1> QED BY <1>1, <1>2, <1>3, <1>4, <1>5 DEF Next, vars

\* What is published is the draft whose version the page had read, unless the draft
\* was written between the two reads of PublishWithBase.
THEOREM PublishHasItsBase == Spec => PublishMatchesBase
<1>1. ConfigInv /\ [Next]_vars =>
          [published' # published =>
              \E i \in Instances :
                  /\ job[i]["publish"].pc = "hashed"
                  /\ job[i]["publish"].expected = published' \/ slipped]_vars
  <2> SUFFICES ASSUME ConfigInv, [Next]_vars, published' # published
               PROVE  \E i \in Instances :
                          /\ job[i]["publish"].pc = "hashed"
                          /\ job[i]["publish"].expected = published' \/ slipped
    OBVIOUS
  <2>1. PICK i \in Instances : LoadContent(i)
    BY OnlyLoadContentPublishes
  <2>2. job[i]["publish"].pc = "hashed" /\ published' = draft
    BY <2>1 DEF LoadContent
  <2> QED BY <2>2 DEF ConfigInv, PublishesOK
<1> QED BY <1>1, ConfigInvariance, PTL DEF Spec, PublishMatchesBase
=============================================================================
