--------------------------- MODULE ConsoleConfig ---------------------------
(***************************************************************************)
(* The console's configuration page against the draft on the server: one   *)
(* tab that edits, saves, validates and publishes, other API clients that  *)
(* replace the draft, and an operator who edits the files on disk.         *)
(*                                                                         *)
(* A draft is a function from file paths to texts; its resource version is *)
(* a hash of it, so here the draft itself.  Sessions are left to           *)
(* ConsoleSession, and the publish run after the draft is read to Publish. *)
(***************************************************************************)
EXTENDS Naturals, FiniteSets, FiniteSetsExt, Functions, QueryCache

CONSTANTS
    Paths,          \* file paths, 1..n in the order the API lists them
    Texts,          \* contents of a file
    Loads(_),       \* drafts that load (LoadDraft reports no error)
    Compiles(_),    \* drafts that compile
    Typed,          \* texts the operator types
    FirstDraft,     \* the draft to begin with
    DiskDrafts,     \* drafts others save or leave on disk
    NoDraft,        \* nothing published, no body
    MaxEvents       \* bound: visits, mutations started, changes by others and lost answers

Drafts == UNION {[S -> Texts] : S \in SUBSET Paths}

NoFiles == [p \in {} |-> CHOOSE t \in Texts : TRUE]

ASSUME ConfigAssumption ==
    /\ IsFiniteSet(Paths) /\ Paths = 1..Cardinality(Paths) /\ Paths # {}
    /\ Typed \subseteq Texts /\ DiskDrafts \cup {FirstDraft} \subseteq Drafts
    /\ MaxEvents \in Nat

VARIABLES
    draft,          \* server: the files of the draft
    configDir,      \* server: config.d is there
    published,      \* server: the draft published last, or NoDraft
    raced,          \* an edit on disk came between a save's check and its commit
    slipped,        \* the draft changed between the two reads of a publish
    events,         \* how many of the bounded events have happened
    mounted,        \* the page is on the screen
    entry,          \* query cache: "draft", "objects"
    get,            \* their requests: [pc, answer]
    invalid,        \* cached queries invalidated while no page was mounted
    activePath,     \* page state; 0 is ""
    content,
    typedIn,        \* history: the file the editor's text was typed into, 0 when it was loaded
    validation,     \* "none", "ok", "failed"
    dialog,         \* the publish dialog is open
    job             \* the page's mutations and those of a page left: see below

vars == <<draft, configDir, published, raced, slipped, events, mounted, entry, get, invalid,
          activePath, content, typedIn, validation, dialog, job>>

serverVars == <<draft, configDir, published, raced, slipped>>

\* ---- data -----------------------------------------------------------------

Keys == {"draft", "objects"}

\* A mutation lives in the page that started it; "left" are those of a page
\* that was left, whose answers only invalidate the cache.
Instances == {"page", "left"}

Mutations == {"save", "validate", "publish"}

\* awaits: the refetches a mutation that succeeded waits for.
IdleJob == [pc |-> "idle", files |-> NoDraft, expected |-> NoDraft, awaits |-> {}]

\* What getDraft answers: the version and the files, which are two reads.
Answers == [version : Drafts, files : Drafts]

IdleGet == [pc |-> "idle", answer |-> NoData]

SentGet == [pc |-> "sent", answer |-> NoData]

FailedGet == [pc |-> "failed", answer |-> NoData]

NoText == "nothing"

Init ==
    /\ draft = FirstDraft
    /\ configDir = TRUE
    /\ published = NoDraft
    /\ raced = FALSE /\ slipped = FALSE
    /\ events = 0
    /\ mounted = FALSE
    /\ entry = [k \in Keys |-> EmptyQuery]
    /\ get = [k \in Keys |-> IdleGet]
    /\ invalid = {}
    /\ activePath = 0 /\ content = NoText /\ typedIn = 0
    /\ validation = "none"
    /\ dialog = FALSE
    /\ job = [i \in Instances |-> [m \in Mutations |-> IdleJob]]

\* ---- the page's view of the cache -----------------------------------------

FilesOf(data) == IF data = NoData THEN NoFiles ELSE data.files

\* The files of the draft that is cached.
Cached == FilesOf(entry["draft"].data)

\* useMemo activeFile: the file of that path, or the first; 0 without files.
ActiveFile(files, path) ==
    IF files = NoFiles THEN 0
    ELSE IF path \in DOMAIN files THEN path
    ELSE Min(DOMAIN files)

Active == ActiveFile(Cached, activePath)

ActiveContent == Cached[Active]

Changed == Active # 0 /\ content # ActiveContent

\* Faulty variant: loading until every query has data, not until it has a result.
ScreenWaitsForData(e) ==
    IF \E k \in Keys : e[k].data = NoData THEN "loading"
    ELSE IF \E k \in Keys : e[k].status = "error" THEN "error" ELSE "editor"

Screen(e) ==
    LET statuses == {e[k].status : k \in Keys} IN
    IF "pending" \in statuses THEN "loading"
    ELSE IF "error" \in statuses THEN "error" ELSE "editor"

Shown == IF mounted THEN Screen(entry) ELSE "elsewhere"

TextOf(files, file) == IF file = 0 THEN NoText ELSE files[file]

\* Faulty variant: the effect depends on the content alone.
EffectDepsOnContent(files, path) == <<TextOf(files, ActiveFile(files, path))>>

\* What the effect depends on: [activeFile?.path, activeFile?.content].
EffectDeps(files, path) ==
    LET file == ActiveFile(files, path) IN <<file, TextOf(files, file)>>

\* The page renders with those files and that path; the effect resets the editor
\* to the file when what it depends on changed.
Render(files, path) ==
    LET file == ActiveFile(files, path) IN
    IF file # 0 /\ EffectDeps(files, path) # EffectDeps(Cached, activePath)
      THEN activePath' = file /\ content' = files[file] /\ typedIn' = 0
      ELSE activePath' = path /\ UNCHANGED <<content, typedIn>>

Count == events < MaxEvents /\ events' = events + 1

\* ---- queries ---------------------------------------------------------------

\* Of the queries K, those a refetch starts anew: a first fetch under way goes on,
\* any other is cancelled.
Restarted(K) == {k \in K : ~entry[k].fetching \/ entry[k].data # NoData}

Refetch(K) ==
    /\ entry' = [k \in Keys |-> IF k \in Restarted(K) THEN Fetch([entry[k] EXCEPT !.fetching = FALSE]) ELSE entry[k]]
    /\ get' = [k \in Keys |-> IF k \in Restarted(K) THEN SentGet ELSE get[k]]

\* The fetches of K ended or were cancelled: nobody waits for them any longer.
Unawait(K) == [i \in Instances |-> [m \in Mutations |-> [job[i][m] EXCEPT !.awaits = @ \ K]]]

\* The page mounts: queries without a result, with a failed or an invalidated
\* one are fetched, and those older than the stale time.
Enter ==
    /\ ~mounted
    /\ Count
    /\ mounted' = TRUE
    /\ \E stale \in {{}, Keys} :
           Refetch({k \in Keys : ~entry[k].fetching /\
                       (k \in stale \/ k \in invalid \/ entry[k].status # "success")})
    /\ invalid' = {}
    /\ activePath' = ActiveFile(Cached, 0)
    /\ content' = TextOf(Cached, activePath')
    /\ UNCHANGED <<typedIn, validation, dialog, job>> /\ UNCHANGED serverVars

\* The page unmounts: its state is gone, its saves and publishes go on.
LeavePage ==
    /\ mounted /\ ~dialog
    /\ \A m \in Mutations : job["left"][m].pc = "idle"
    /\ mounted' = FALSE
    /\ activePath' = 0 /\ content' = NoText /\ typedIn' = 0
    /\ validation' = "none"
    /\ job' = [job EXCEPT !["left"] = [job["page"] EXCEPT !["validate"] = IdleJob],
                          !["page"] = [m \in Mutations |-> IdleJob]]
    /\ UNCHANGED <<entry, get, invalid, dialog>> /\ UNCHANGED serverVars /\ UNCHANGED events

\* "Try again" of the ErrorBlock.
RetryQueries ==
    /\ Shown = "error"
    /\ Refetch(Keys)
    /\ job' = Unawait(Restarted(Keys))
    /\ UNCHANGED <<mounted, invalid, activePath, content, typedIn, validation, dialog>>
    /\ UNCHANGED serverVars /\ UNCHANGED events

\* LoadDraft creates config.d when it is not there.
CreateConfigDir == configDir' = TRUE

\* getDraft reads the files and hashes them: the version of the answer.  A save may
\* have moved config.d away after LoadDraft had seen it ...
HashDraft ==
    /\ get["draft"].pc = "sent"
    /\ CreateConfigDir \/ UNCHANGED configDir
    /\ get' = [get EXCEPT !["draft"] = [pc |-> "hashed", answer |-> [version |-> draft, files |-> NoFiles]]]

\* ... then it reads each of those files again for its contents.
ReadFiles ==
    LET version == get["draft"].answer.version IN
    /\ get["draft"].pc = "hashed"
    /\ get' = [get EXCEPT !["draft"] =
                  IF DOMAIN version \subseteq DOMAIN draft
                    THEN [pc |-> "replied", answer |-> [version |-> version, files |-> Restrict(draft, DOMAIN version)]]
                    ELSE FailedGet]
    /\ UNCHANGED configDir

\* listObjects loads the files, 422 when they do not load; its answer is only
\* displayed: any value stands for it.
ListObjects ==
    /\ get["objects"].pc = "sent"
    /\ CreateConfigDir
    /\ get' = [get EXCEPT !["objects"] =
                  IF Loads(draft)
                    THEN [pc |-> "replied", answer |-> [version |-> NoFiles, files |-> NoFiles]]
                    ELSE FailedGet]

ServeGet(k) ==
    /\ \/ k = "draft" /\ (HashDraft \/ ReadFiles)
       \/ k = "objects" /\ ListObjects
    /\ UNCHANGED <<mounted, entry, invalid, activePath, content, typedIn, validation, dialog, job>>
    /\ UNCHANGED <<draft, published, raced, slipped>> /\ UNCHANGED events

\* The answer reaches the cache and the page renders; the dialog is part of the
\* editor's screen and goes with it.
AnswerGet(k) ==
    LET new == IF get[k].pc = "replied" THEN Resolve(get[k].answer) ELSE Reject(entry[k], DefaultRetries) IN
    /\ get[k].pc \in {"replied", "failed"}
    /\ entry' = [entry EXCEPT ![k] = new]
    /\ get' = [get EXCEPT ![k] = IF new.fetching THEN SentGet ELSE IdleGet]
    /\ IF mounted /\ k = "draft" THEN Render(FilesOf(new.data), activePath) ELSE UNCHANGED <<activePath, content, typedIn>>
    /\ dialog' = (dialog /\ Screen(entry') = "editor")
    /\ job' = IF new.fetching THEN job ELSE Unawait({k})
    /\ UNCHANGED <<mounted, invalid, validation>>
    /\ UNCHANGED serverVars /\ UNCHANGED events

\* ---- the operator ----------------------------------------------------------

Editing == Shown = "editor" /\ ~dialog

SelectFile(path) ==
    /\ Editing
    /\ path \in DOMAIN Cached
    /\ path # activePath
    /\ Render(Cached, path)
    /\ UNCHANGED <<mounted, entry, get, invalid, validation, dialog, job>>
    /\ UNCHANGED serverVars /\ UNCHANGED events

Type(text) ==
    /\ Editing
    /\ Active # 0
    /\ text # content
    /\ content' = text
    /\ typedIn' = Active
    /\ UNCHANGED <<mounted, entry, get, invalid, activePath, validation, dialog, job>>
    /\ UNCHANGED serverVars /\ UNCHANGED events

Start(m, files, expected) ==
    /\ Count
    /\ job' = [job EXCEPT !["page"][m] = [IdleJob EXCEPT !.pc = "sent", !.files = files, !.expected = expected]]

\* The whole draft goes out with the open file's text and the cached version.
Save ==
    /\ Editing
    /\ Changed /\ job["page"]["save"].pc = "idle"
    /\ Start("save", [Cached EXCEPT ![Active] = content], entry["draft"].data.version)
    /\ UNCHANGED <<mounted, entry, get, invalid, activePath, content, typedIn, validation, dialog>>
    /\ UNCHANGED serverVars

Validate ==
    /\ Editing
    /\ ~Changed /\ job["page"]["validate"].pc = "idle"
    /\ Start("validate", NoDraft, NoDraft)
    /\ UNCHANGED <<mounted, entry, get, invalid, activePath, content, typedIn, validation, dialog>>
    /\ UNCHANGED serverVars

\* Faulty variant: text that is not saved does not keep the dialog closed.
MayReviewUnsaved == validation = "ok"

\* The trigger of the publish dialog.
MayReview == ~Changed /\ validation = "ok"

OpenDialog ==
    /\ Editing
    /\ MayReview
    /\ dialog' = TRUE
    /\ UNCHANGED <<mounted, entry, get, invalid, activePath, content, typedIn, validation, job>>
    /\ UNCHANGED serverVars /\ UNCHANGED events

CloseDialog ==
    /\ dialog
    /\ dialog' = FALSE
    /\ UNCHANGED <<mounted, entry, get, invalid, activePath, content, typedIn, validation, job>>
    /\ UNCHANGED serverVars /\ UNCHANGED events

\* The button in the dialog, with a message typed.
Publish ==
    /\ dialog
    /\ job["page"]["publish"].pc = "idle"
    /\ Start("publish", NoDraft, entry["draft"].data.version)
    /\ UNCHANGED <<mounted, entry, get, invalid, activePath, content, typedIn, validation, dialog>>
    /\ UNCHANGED serverVars

\* ---- the server ------------------------------------------------------------

Goto(i, m, pc) == job' = [job EXCEPT ![i][m].pc = pc]

Answer(i, m, pc) == job' = [job EXCEPT ![i][m] = [IdleJob EXCEPT !.pc = pc]]

pageVars == <<mounted, entry, get, invalid, activePath, content, typedIn, validation, dialog>>

\* Faulty variant: replaceDraft without the lock.
NoMutex == TRUE

\* ConfigAPI.mu is held by a save between its check and the end of its commit.
MutexFree == \A i \in Instances : job[i]["save"].pc \notin {"checked", "moved"}

\* ReplaceDraft: the version, then whether the new files load.
CheckReplace(i) ==
    LET j == job[i]["save"] IN
    /\ j.pc = "sent"
    /\ MutexFree
    /\ IF j.expected = draft /\ Loads(j.files) THEN Goto(i, "save", "checked") ELSE Answer(i, "save", "failed")
    /\ UNCHANGED serverVars /\ UNCHANGED pageVars /\ UNCHANGED events

\* The draft on disk changes, perhaps between the two reads of a publish.
Write(files) ==
    /\ draft' = files
    /\ slipped' = (slipped \/ \E i \in Instances : job[i]["publish"].pc = "hashed")

\* commitDraftStage: config.d is moved to the backup, then the new one installed.
MoveAway(i) ==
    /\ job[i]["save"].pc = "checked"
    /\ Write(NoFiles)
    /\ configDir' = FALSE
    /\ Goto(i, "save", "moved")
    /\ UNCHANGED <<published, raced>> /\ UNCHANGED pageVars /\ UNCHANGED events

\* No directory is renamed to one that exists.  When a read created config.d in
\* between, neither the new files nor the backup get there, and the backup is
\* removed.
Install(i) ==
    /\ job[i]["save"].pc = "moved"
    /\ \/ /\ ~configDir
          /\ Write(job[i]["save"].files)
          /\ configDir' = TRUE
          /\ Answer(i, "save", "replied")
       \/ /\ configDir
          /\ UNCHANGED <<draft, slipped, configDir>>
          /\ Answer(i, "save", "failed")
    /\ raced' = FALSE
    /\ UNCHANGED published /\ UNCHANGED pageVars /\ UNCHANGED events

\* validate compiles the draft as it is now.
ServeValidate(i) ==
    /\ job[i]["validate"].pc = "sent"
    /\ CreateConfigDir
    /\ Goto(i, "validate", IF Loads(draft) /\ Compiles(draft) THEN "valid" ELSE "invalid")
    /\ UNCHANGED <<draft, published, raced, slipped>> /\ UNCHANGED pageVars /\ UNCHANGED events

\* publish compares the draft with what is effective (NO_CHANGES), which what was
\* published last is once it is confirmed ...
PrecheckPublish(i) ==
    /\ job[i]["publish"].pc = "sent"
    /\ CreateConfigDir
    /\ \/ draft = published /\ Answer(i, "publish", "failed")
       \/ Goto(i, "publish", "prechecked")
    /\ UNCHANGED <<draft, published, raced, slipped>> /\ UNCHANGED pageVars /\ UNCHANGED events

\* Faulty variant: the expected version is not compared.
AnyBase(j) == TRUE

\* ... then PublishWithBase, under Publisher.mu, hashes it, which is compared with
\* the version asked for ...
BaseMatches(j) == j.expected = draft

LoadHash(i) ==
    LET j == job[i]["publish"] IN
    /\ j.pc = "prechecked"
    /\ \A i2 \in Instances : job[i2]["publish"].pc # "hashed"
    /\ CreateConfigDir
    /\ IF BaseMatches(j) THEN Goto(i, "publish", "hashed") ELSE Answer(i, "publish", "failed")
    /\ UNCHANGED <<draft, published, raced, slipped>> /\ UNCHANGED pageVars /\ UNCHANGED events

\* ... and reads it again, compiles and delivers what it has read now.  It may
\* also refuse: another run is active.
LoadContent(i) ==
    /\ job[i]["publish"].pc = "hashed"
    /\ \/ /\ configDir /\ Loads(draft) /\ Compiles(draft)
          /\ published' = draft
          /\ Answer(i, "publish", "replied")
       \/ /\ UNCHANGED published
          /\ Answer(i, "publish", "failed")
    /\ slipped' = FALSE
    /\ UNCHANGED <<draft, configDir, raced>> /\ UNCHANGED pageVars /\ UNCHANGED events

\* Another client replaces the draft through the API, with the version it read.
OtherReplaces(files) ==
    /\ Count
    /\ MutexFree
    /\ Loads(files) /\ files # draft
    /\ Write(files)
    /\ UNCHANGED <<configDir, published, raced, job>> /\ UNCHANGED pageVars

\* An operator edits the files on disk, at any moment at which config.d is there.
EditOnDisk(files) ==
    /\ Count
    /\ configDir
    /\ files # draft
    /\ Write(files)
    /\ raced' = ~MutexFree
    /\ UNCHANGED <<configDir, published, job>> /\ UNCHANGED pageVars

\* ---- answers to mutations --------------------------------------------------

Finish(i, m) == job' = [job EXCEPT ![i][m] = IdleJob]

\* Faulty variant: queries are only marked, also those that are mounted.
InvalidateWithoutRefetch == invalid' = Keys /\ UNCHANGED <<entry, get>>

\* invalidateQueries(["config"]): active queries refetch, others wait.
InvalidateConfig ==
    IF mounted THEN Refetch(Keys) /\ UNCHANGED invalid
    ELSE invalid' = Keys /\ UNCHANGED <<entry, get>>

\* A save or a publish succeeded; it stays pending while the refetch it awaits runs.
MutationSucceeds(i, m) ==
    /\ m \in {"save", "publish"} /\ job[i][m].pc = "replied"
    /\ InvalidateConfig
    /\ job' = IF mounted
                THEN [Unawait(Restarted(Keys)) EXCEPT ![i][m] = [IdleJob EXCEPT !.pc = "refetching", !.awaits = Keys]]
                ELSE [job EXCEPT ![i][m] = IdleJob]
    /\ UNCHANGED <<mounted, activePath, content, typedIn, validation, dialog>>
    /\ UNCHANGED serverVars /\ UNCHANGED events

RefetchAwaited(i, m) ==
    /\ job[i][m].pc = "refetching"
    /\ job[i][m].awaits = {}
    /\ Finish(i, m)
    /\ UNCHANGED serverVars /\ UNCHANGED pageVars /\ UNCHANGED events

MutationFails(i, m) ==
    /\ job[i][m].pc = "failed"
    /\ Finish(i, m)
    /\ UNCHANGED serverVars /\ UNCHANGED pageVars /\ UNCHANGED events

\* onSuccess: setValidation; nothing else resets it.
ValidationAnswered(i) ==
    LET pc == job[i]["validate"].pc IN
    /\ pc \in {"valid", "invalid"}
    /\ validation' = IF i = "page" THEN (IF pc = "valid" THEN "ok" ELSE "failed") ELSE validation
    /\ Finish(i, "validate")
    /\ UNCHANGED <<mounted, entry, get, invalid, activePath, content, typedIn, dialog>>
    /\ UNCHANGED serverVars /\ UNCHANGED events

\* ---- faults ----------------------------------------------------------------

\* A query or a mutation gets no answer, or an error (a file vanished while it was
\* hashed); a mutation's work may be done.
LoseGet(k) ==
    /\ get[k].pc \in {"sent", "replied"}
    /\ Count
    /\ get' = [get EXCEPT ![k] = FailedGet]
    /\ UNCHANGED <<mounted, entry, invalid, activePath, content, typedIn, validation, dialog, job>>
    /\ UNCHANGED serverVars

LoseAnswer(i, m) ==
    /\ job[i][m].pc \in {"sent", "replied", "valid", "invalid"}
    /\ Count
    /\ Answer(i, m, "failed")
    /\ UNCHANGED pageVars /\ UNCHANGED serverVars

\* ---- specification ---------------------------------------------------------

ServeMutation(i, m) ==
    \/ m = "save" /\ (CheckReplace(i) \/ MoveAway(i) \/ Install(i))
    \/ m = "validate" /\ ServeValidate(i)
    \/ m = "publish" /\ (PrecheckPublish(i) \/ LoadHash(i) \/ LoadContent(i))

AnswerMutation(i, m) ==
    \/ MutationSucceeds(i, m)
    \/ RefetchAwaited(i, m)
    \/ MutationFails(i, m)
    \/ m = "validate" /\ ValidationAnswered(i)

Operator ==
    \/ Enter
    \/ LeavePage
    \/ RetryQueries
    \/ \E path \in Paths : SelectFile(path)
    \/ \E text \in Typed : Type(text)
    \/ Save
    \/ Validate
    \/ OpenDialog
    \/ CloseDialog
    \/ Publish

Others ==
    \/ \E files \in DiskDrafts : OtherReplaces(files) \/ EditOnDisk(files)
    \/ \E k \in Keys : LoseGet(k)
    \/ \E i \in Instances, m \in Mutations : LoseAnswer(i, m)

Next ==
    \/ \E k \in Keys : ServeGet(k) \/ AnswerGet(k)
    \/ \E i \in Instances, m \in Mutations : ServeMutation(i, m) \/ AnswerMutation(i, m)
    \/ Operator
    \/ Others

\* The server answers and the browser handles answers, each request in turn; nobody
\* has to act.
Fairness ==
    /\ \A k \in Keys : WF_vars(ServeGet(k) \/ AnswerGet(k))
    /\ \A i \in Instances, m \in Mutations : WF_vars(ServeMutation(i, m) \/ AnswerMutation(i, m))

Spec == Init /\ [][Next]_vars

FairSpec == Spec /\ Fairness

\* ---- properties ------------------------------------------------------------

\* The types of the draft, the cache, the page and the mutations.
ConfigTypeOK ==
    /\ draft \in Drafts /\ published \in Drafts \cup {NoDraft}
    /\ configDir \in BOOLEAN /\ raced \in BOOLEAN /\ slipped \in BOOLEAN
    /\ events \in 0..MaxEvents
    /\ mounted \in BOOLEAN /\ dialog \in BOOLEAN
    /\ entry \in [Keys -> QueryEntries(Answers)]
    /\ \A k \in Keys : get[k].pc \in {"idle", "sent", "hashed", "replied", "failed"}
    /\ invalid \subseteq Keys
    /\ activePath \in Paths \cup {0} /\ typedIn \in Paths \cup {0}
    /\ content \in Texts \cup {NoText}
    /\ validation \in {"none", "ok", "failed"}

\* A save from the console replaces exactly the draft whose version its page had
\* read: what other clients saved since then is not overwritten (ReplaceDraft
\* under ConfigAPI.mu).  Only an edit on disk between check and commit can be lost.
NoLostUpdate ==
    [][\A i \in Instances :
          job[i]["save"].pc = "checked" /\ job'[i]["save"].pc = "moved"
              => draft = job[i]["save"].expected \/ raced]_vars

\* Unsaved text in the editor was typed into the file that is open: no change of
\* file or refetch leaves one file's text to be saved into another.
TextStaysInItsFile == Shown = "editor" /\ Changed => typedIn = Active

\* While the publish dialog says the draft is saved, the editor holds no unsaved
\* text, whatever is refetched behind it.
DialogShowsSaved == dialog => ~Changed

\* What is published is the draft whose version the page had read when the operator
\* pressed the button, also when somebody changed the draft after that.  The one
\* exception: the version is compared with a hash, the content is read after it, and
\* no lock keeps writers out; a write between these two reads is published.
PublishMatchesBase ==
    [][published' # published =>
          \E i \in Instances :
              /\ job[i]["publish"].pc = "hashed"
              /\ job[i]["publish"].expected = published' \/ slipped]_vars

\* A save that fails after it moved the old draft away puts it back: ReplaceDraft
\* "restores the prior draft if the commit cannot finish".
DraftSurvivesSave ==
    [][\A i \in Instances :
          job[i]["save"].pc = "moved" /\ job'[i]["save"].pc = "failed"
              => draft' = job[i]["save"].expected \/ raced]_vars

\* The page gets past its loading block, to the editor or to an error.
PageLoads == Shown = "loading" ~> Shown # "loading"

\* "Saving" ends: the save and the refetch it awaits finish, also when requests
\* fail, the draft changes meanwhile or the page is left.
SaveSettles == job["page"]["save"].pc # "idle" ~> job["page"]["save"].pc = "idle"
=============================================================================
