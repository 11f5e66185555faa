-------------------------------- MODULE Studio --------------------------------
(***************************************************************************)
(* The content studio: a partner asks for copy, a worker writes it, a      *)
(* person publishes or declines it.  The draft is a row; the job that      *)
(* writes it is a Celery message, acknowledged late; publishing is the     *)
(* console's own PATCH of the menu, recorded on the row afterwards.        *)
(* Publishing a dish's copy is therefore a write to Catalog, and what it   *)
(* writes reaches the index the way every edit does (Knowledge).           *)
(***************************************************************************)
EXTENDS Recommend

CONSTANTS
    Drafts,     \* draft ids
    Tabs,       \* open consoles of one restaurant's people
    Jobs,       \* Celery messages
    MaxRetries, \* the tasks' max_retries
    Boast,      \* output no fact or review supports
    MIN_ROWS    \* reviews with comments a summary needs

ASSUME RetriesAssumption == MaxRetries \in Nat /\ Jobs \subseteq Nat /\ Boast \notin Texts

VARIABLES
    drafts,     \* content_drafts
    made,       \* the rows in the order they were created
    jobs,       \* the content queue and the workers
    sending,    \* rows committed and not handed to the broker yet
    tab,        \* what each console shows and is doing
    told,       \* the decisions confirmed to a console: <<draft, answer, text>>
    shipped,    \* the texts a console wrote to the menu for each draft
    lost,       \* rows whose job a fault took
    extra,      \* redeliveries of each row's jobs
    generation, \* the degradation ladder's generation switch
    reviews     \* reviews with comments, at Order

\* What the actions of people, the catalog and the faults are allowed.
Allowances == {"edits", "deletes", "faults", "asks", "presses", "panels", "answers", "orders",
               "views", "redeliveries", "mishaps"}

svars == <<drafts, made, jobs, sending, tab, told, shipped, lost, extra, generation, reviews>>

DraftKinds == {"menu_item", "promotion", "engagement", "feedback_summary"}
Statuses == {"none", "queued", "drafted", "parked", "published", "rejected"}
Decided == {"published", "rejected"}
Rows == [status : Statuses, kind : DraftKinds, place : Branches, target : Dishes,
         content : Texts \cup {Gone}, published : Texts \cup {Gone}]
NoRow == [status |-> "none", kind |-> "menu_item", place |-> CHOOSE r \in Branches : TRUE,
          target |-> CHOOSE d \in Dishes : TRUE, content |-> Gone, published |-> Gone]
Job == [draft : Drafts, at : {"free", "queue", "write", "complete", "park"},
        retries : 0 .. MaxRetries, text : Texts \cup {Gone}]
FreeJob == [draft |-> CHOOSE d \in Drafts : TRUE, at |-> "free", retries |-> 0, text |-> Gone]
Tab == [seen : [Drafts -> Statuses], draft : Drafts, text : Texts \cup {Gone},
        at : {"idle", "patch", "approve", "publish", "reject", "decline", "replay", "requeue"}]
NoTab == [seen |-> [d \in Drafts |-> "none"], draft |-> CHOOSE d \in Drafts : TRUE,
          text |-> Gone, at |-> "idle"]

STypeOK ==
    /\ drafts \in [Drafts -> Rows] /\ made \in Seq(Drafts) /\ sending \subseteq Drafts
    /\ jobs \in [Jobs -> Job] /\ tab \in [Tabs -> Tab]
    /\ lost \subseteq Drafts /\ extra \in [Drafts -> Nat]
    /\ generation \in BOOLEAN /\ reviews \in Nat
    /\ shipped \in [Drafts -> SUBSET Texts]
    /\ told \subseteq Drafts \X Decided \X (Texts \cup {Gone})

SInit(corpus) ==
    /\ drafts = [d \in Drafts |-> NoRow] /\ made = <<>>
    /\ jobs = [j \in Jobs |-> FreeJob] /\ sending = {}
    /\ tab = [a \in Tabs |-> NoTab] /\ told = {} /\ shipped = [d \in Drafts |-> {}]
    /\ lost = {} /\ extra = [d \in Drafts |-> 0]
    /\ generation = TRUE /\ reviews = corpus

------------------------------------------------------------------------------
(* Asking                                                                   *)

\* The store's only write: UPDATE ... WHERE status = expected.
_move(d, expected, row) ==
    drafts' = IF drafts[d].status = expected THEN [drafts EXCEPT ![d] = row] ELSE drafts

create(d, kind, r, i) ==
    /\ drafts[d].status = "none" /\ d = CHOOSE x \in Drafts : drafts[x].status = "none"
    /\ drafts' = [drafts EXCEPT ![d] = [NoRow EXCEPT !.status = "queued", !.kind = kind,
                                                     !.place = r, !.target = i]]
    /\ made' = Append(made, d)
    /\ sending' = sending \cup {d}

AskFor == left["asks"] > 0 /\ left' = [left EXCEPT !["asks"] = @ - 1]
Beside == UNCHANGED <<text, off, open, feed, read, pending, drain, index, rvars>>
AskedFor == UNCHANGED <<jobs, tab, told, shipped, lost, extra, generation, reviews>> /\ Beside

\* The dish as the index has it: the row's place is the branch of the chunk.
MenuFacts == {f \in Branches \X Dishes : index[f[1]][f[2]] # NoChunk}

draft_menu_items(d) ==
    /\ AskFor
    /\ \E f \in MenuFacts : create(d, "menu_item", f[1], f[2])
    /\ AskedFor

\* Written from the restaurant's own totals, refused when they are thin.
_business_draft(d, kind) ==
    /\ AskFor /\ for_restaurant(NoRow.place) >= THIN
    /\ create(d, kind, NoRow.place, NoRow.target)
    /\ AskedFor

summarisable == reviews >= MIN_ROWS
summarise_feedback(d) ==
    /\ AskFor /\ summarisable
    /\ create(d, "feedback_summary", NoRow.place, NoRow.target)
    /\ AskedFor

_enqueue_draft(d) ==
    \E j \in Jobs :
        /\ jobs[j].at = "free" /\ \A i \in Jobs : i < j => jobs[i].at # "free"
        /\ jobs' = [jobs EXCEPT ![j] = [FreeJob EXCEPT !.draft = d, !.at = "queue"]]

Enqueue(d) ==
    /\ d \in sending /\ _enqueue_draft(d)
    /\ sending' = sending \ {d}
    /\ UNCHANGED <<kvars, rvars, drafts, made, tab, told, shipped, lost, extra, generation, reviews>>

\* The broker refuses the message after the row is committed: a 500.
EnqueueFails(d) ==
    /\ Spend("mishaps") /\ d \in sending
    /\ sending' = sending \ {d} /\ lost' = lost \cup {d}
    /\ Beside
    /\ UNCHANGED <<drafts, made, jobs, tab, told, shipped, extra, generation, reviews>>

------------------------------------------------------------------------------
(* The worker                                                               *)

JobAt(j, at) == jobs' = [jobs EXCEPT ![j].at = at]
End(j) == jobs' = [jobs EXCEPT ![j] = FreeJob]
Worker == UNCHANGED <<kvars, rvars, made, sending, tab, told, shipped, extra, generation, reviews>>

shed_reason == ~generation

\* Mutant: a job shed by the ladder just ends.
_run_job_dropped(j) ==
    /\ jobs[j].at = "queue"
    /\ IF shed_reason \/ drafts[jobs[j].draft].status # "queued" THEN End(j)
       ELSE JobAt(j, "write")
    /\ UNCHANGED <<drafts, lost>> /\ Worker

_run_job(j) ==
    /\ jobs[j].at = "queue"
    /\ IF shed_reason THEN JobAt(j, "park")
       ELSE IF drafts[jobs[j].draft].status # "queued" THEN End(j)
       ELSE JobAt(j, "write")
    /\ UNCHANGED <<drafts, lost>> /\ Worker

\* What the rules catch: an accolade, a contact, a testimonial; in a summary
\* also a theme or a quote that is not in the reviews.
unsupportable(t) == t = Boast

generate_copy(j) ==
    \E t \in Texts \cup {Boast} :
        IF unsupportable(t) THEN JobAt(j, "park")
        ELSE jobs' = [jobs EXCEPT ![j].at = "complete", ![j].text = t]

run_draft(j) ==
    /\ jobs[j].at = "write" /\ drafts[jobs[j].draft].kind # "feedback_summary"
    /\ generate_copy(j)
    /\ UNCHANGED <<drafts, lost>> /\ Worker

\* The corpus is read again here, and may have shrunk below the floor.
run_summary(j) ==
    /\ jobs[j].at = "write" /\ drafts[jobs[j].draft].kind = "feedback_summary"
    /\ IF reviews < MIN_ROWS THEN JobAt(j, "park") ELSE generate_copy(j)
    /\ UNCHANGED <<drafts, lost>> /\ Worker

\* A refusal, an unreadable answer, and every failure that is not the provider
\* being down, the database failing under the completing write among them.
PermanentFailure(j) ==
    /\ Spend("mishaps") /\ jobs[j].at \in {"write", "complete"}
    /\ JobAt(j, "park")
    /\ Beside
    /\ UNCHANGED <<drafts, made, sending, tab, told, shipped, lost, extra, generation, reviews>>

\* LlmUnavailable, LlmRateLimited: the message is sent again, with a backoff.
autoretry(j) ==
    /\ Spend("mishaps") /\ jobs[j].at = "write"
    /\ IF jobs[j].retries >= MaxRetries THEN JobAt(j, "park")
       ELSE jobs' = [jobs EXCEPT ![j].at = "queue", ![j].retries = @ + 1]
    /\ Beside
    /\ UNCHANGED <<drafts, made, sending, tab, told, shipped, lost, extra, generation, reviews>>

DraftComplete(j) ==
    /\ jobs[j].at = "complete"
    /\ LET d == jobs[j].draft IN
       _move(d, "queued", [drafts[d] EXCEPT !.status = "drafted", !.content = jobs[j].text])
    /\ End(j) /\ UNCHANGED lost /\ Worker

park(j) ==
    /\ jobs[j].at = "park"
    /\ LET d == jobs[j].draft IN
       _move(d, "queued", [drafts[d] EXCEPT !.status = "parked"])
    /\ End(j) /\ UNCHANGED lost /\ Worker

\* The database fails under the last arm as well: the task is failed and acked.
ParkFails(j) ==
    /\ Spend("mishaps") /\ jobs[j].at = "park"
    /\ End(j) /\ lost' = lost \cup {jobs[j].draft}
    /\ Beside
    /\ UNCHANGED <<drafts, made, sending, tab, told, shipped, extra, generation, reviews>>

\* acks_late, reject_on_worker_lost: a worker that dies has its message
\* delivered again; one that only lost the broker goes on beside the new one.
WorkerLost(j) ==
    /\ Spend("mishaps") /\ jobs[j].at \in {"write", "complete", "park"}
    /\ \/ jobs' = [jobs EXCEPT ![j].at = "queue", ![j].text = Gone] /\ UNCHANGED extra
       \/ /\ _enqueue_draft(jobs[j].draft)
          /\ extra' = [extra EXCEPT ![jobs[j].draft] = @ + 1]
    /\ Beside
    /\ UNCHANGED <<drafts, made, sending, tab, told, shipped, lost, generation, reviews>>

SwitchGeneration ==
    /\ Spend("mishaps") /\ generation' = ~generation
    /\ Beside
    /\ UNCHANGED <<drafts, made, jobs, sending, tab, told, shipped, lost, extra, reviews>>

ReviewGone ==
    /\ Spend("mishaps") /\ reviews > 0 /\ reviews' = reviews - 1
    /\ Beside
    /\ UNCHANGED <<drafts, made, jobs, sending, tab, told, shipped, lost, extra, generation>>

------------------------------------------------------------------------------
(* The console                                                              *)

ConsoleAt(a, at) == tab' = [tab EXCEPT ![a].at = at]
Answer(a, what) ==
    /\ told' = told \cup {<<tab[a].draft, what, tab[a].text>> : w \in {what} \cap Decided}
    /\ tab' = [tab EXCEPT ![a].at = "idle", ![a].text = Gone,
                          ![a].seen = IF what \in {"refused", "failed"} THEN @
                                      ELSE [d \in Drafts |-> drafts'[d].status]]
Console == UNCHANGED <<kvars, rvars, jobs, made, lost, extra, generation, reviews>>

\* The page is opened, or polls while a draft it shows is still queued.  (A list
\* nobody will act on is not read: a bound of the runs.)
list_drafts(a) ==
    /\ left["presses"] > 0
    /\ tab[a].at = "idle" /\ tab[a].seen # [d \in Drafts |-> drafts[d].status]
    /\ (\A d \in Drafts : tab[a].seen[d] = "none") \/ (\E d \in Drafts : tab[a].seen[d] = "queued")
    /\ tab' = [tab EXCEPT ![a].seen = [d \in Drafts |-> drafts[d].status]]
    /\ UNCHANGED <<drafts, sending, told, shipped>> /\ Console

Reviewable(a, d) == tab[a].seen[d] = "drafted" /\ drafts[d].kind # "feedback_summary"

Press(a, d, at, t) ==
    /\ tab[a].at = "idle" /\ left["presses"] > 0
    /\ left' = [left EXCEPT !["presses"] = @ - 1]
    /\ tab' = [tab EXCEPT ![a].at = at, ![a].draft = d, ![a].text = t]
    /\ Beside
    /\ UNCHANGED <<drafts, made, jobs, sending, told, shipped, lost, extra, generation, reviews>>

\* Mutant: record, and leave the menu as it is.
publish_recorded(a) ==
    \E d \in Drafts, t \in Texts : Reviewable(a, d) /\ Press(a, d, "approve", t)
\* Publish, then record.
publish(a) ==
    \E d \in Drafts, t \in Texts :
        /\ Reviewable(a, d)
        /\ Press(a, d, IF drafts[d].kind = "menu_item" THEN "patch" ELSE "approve", t)
decline(a) == \E d \in Drafts : Reviewable(a, d) /\ Press(a, d, "reject", Gone)
retry(a) == \E d \in Drafts : tab[a].seen[d] = "parked" /\ Press(a, d, "replay", Gone)

\* The ordinary item PATCH, addressed to the place the row names.
patchItem(a) ==
    LET d == tab[a].draft IN
    /\ tab[a].at = "patch"
    /\ IF Found(drafts[d].place, drafts[d].target)
       THEN /\ update_item(drafts[d].place, drafts[d].target, tab[a].text)
            /\ shipped' = [shipped EXCEPT ![d] = @ \cup {tab[a].text}]
            /\ ConsoleAt(a, "approve") /\ UNCHANGED told
       ELSE Answer(a, "failed") /\ UNCHANGED <<text, off, open, feed, shipped>>
    /\ UNCHANGED <<read, pending, drain, index, left, rvars, drafts, made, jobs, sending, lost,
                   extra, generation, reviews>>

\* The read, its early answers, and the guarded write whose answer is heeded.
approve(a) ==
    LET row == drafts[tab[a].draft] IN
    /\ tab[a].at = "approve" /\ UNCHANGED drafts
    /\ \/ row.status = "published" /\ row.published = tab[a].text /\ Answer(a, "published")
       \/ /\ row.status # "drafted" /\ ~(row.status = "published" /\ row.published = tab[a].text)
          /\ Answer(a, "refused")
       \/ row.status = "drafted" /\ ConsoleAt(a, "publish") /\ UNCHANGED told
    /\ UNCHANGED <<sending, shipped>> /\ Console

_decide(a, status, content) ==
    LET d == tab[a].draft IN
    /\ _move(d, "drafted", [drafts[d] EXCEPT !.status = status, !.published = content])
    /\ Answer(a, IF drafts[d].status = "drafted" THEN status ELSE "refused")

approve_decide(a) ==
    /\ tab[a].at = "publish" /\ _decide(a, "published", tab[a].text)
    /\ UNCHANGED <<sending, shipped>> /\ Console

reject(a) ==
    LET row == drafts[tab[a].draft] IN
    /\ tab[a].at = "reject" /\ UNCHANGED drafts
    /\ \/ row.status = "rejected" /\ Answer(a, "rejected")
       \/ row.status \notin {"rejected", "drafted"} /\ Answer(a, "refused")
       \/ row.status = "drafted" /\ ConsoleAt(a, "decline") /\ UNCHANGED told
    /\ UNCHANGED <<sending, shipped>> /\ Console

reject_decide(a) ==
    /\ tab[a].at = "decline" /\ _decide(a, "rejected", Gone)
    /\ UNCHANGED <<sending, shipped>> /\ Console

replay(a) ==
    LET row == drafts[tab[a].draft] IN
    /\ tab[a].at = "replay" /\ UNCHANGED drafts
    /\ \/ row.status # "parked" /\ Answer(a, "refused")
       \/ row.status = "parked" /\ ConsoleAt(a, "requeue") /\ UNCHANGED told
    /\ UNCHANGED <<sending, shipped>> /\ Console

\* parked -> queued, and only the call that moved it enqueues a job.
replay_draft(a) ==
    LET d == tab[a].draft IN
    /\ tab[a].at = "requeue"
    /\ _move(d, "parked", [drafts[d] EXCEPT !.status = "queued"])
    /\ IF drafts[d].status = "parked"
       THEN Answer(a, "queued") /\ sending' = sending \cup {d} /\ lost' = lost \ {d}
       ELSE Answer(a, "refused") /\ UNCHANGED <<sending, lost>>
    /\ UNCHANGED shipped
    /\ UNCHANGED <<kvars, rvars, jobs, made, extra, generation, reviews>>

\* A call fails: the card stays as it is and the button can be pressed again.
CallFails(a) ==
    /\ Spend("mishaps") /\ tab[a].at \in {"patch", "approve", "reject", "replay"}
    /\ Answer(a, "failed")
    /\ Beside
    /\ UNCHANGED <<drafts, made, jobs, sending, shipped, lost, extra, generation, reviews>>

\* A call is carried out and its answer is lost.
ReplyLost(a) ==
    LET d == tab[a].draft IN
    /\ Spend("mishaps")
    /\ \/ /\ tab[a].at = "patch"
          /\ update_item(drafts[d].place, drafts[d].target, tab[a].text)
          /\ shipped' = [shipped EXCEPT ![d] = @ \cup {tab[a].text}]
          /\ UNCHANGED drafts
       \/ /\ tab[a].at = "publish"
          /\ _move(d, "drafted", [drafts[d] EXCEPT !.status = "published",
                                                   !.published = tab[a].text])
          /\ UNCHANGED <<text, off, open, feed, shipped>>
       \/ /\ tab[a].at = "decline"
          /\ _move(d, "drafted", [drafts[d] EXCEPT !.status = "rejected"])
          /\ UNCHANGED <<text, off, open, feed, shipped>>
    /\ Answer(a, "failed")
    /\ UNCHANGED <<read, pending, drain, index, rvars>>
    /\ UNCHANGED <<made, jobs, sending, lost, extra, generation, reviews>>

------------------------------------------------------------------------------
Asking == \E d \in Drafts :
    \/ draft_menu_items(d) \/ summarise_feedback(d)
    \/ \E kind \in {"promotion", "engagement"} : _business_draft(d, kind)
Writing ==
    \/ \E d \in Drafts : Enqueue(d)
    \/ \E j \in Jobs : \/ _run_job(j) \/ run_draft(j) \/ run_summary(j)
                       \/ DraftComplete(j) \/ park(j)
Pressing == \E a \in Tabs : publish(a) \/ decline(a) \/ retry(a)
Answering == \E a \in Tabs :
    \/ list_drafts(a) \/ patchItem(a) \/ approve(a) \/ approve_decide(a)
    \/ reject(a) \/ reject_decide(a) \/ replay(a) \/ replay_draft(a)
SFaults ==
    \/ \E d \in Drafts : EnqueueFails(d)
    \/ \E j \in Jobs : PermanentFailure(j) \/ autoretry(j) \/ ParkFails(j) \/ WorkerLost(j)
    \/ \E a \in Tabs : CallFails(a) \/ ReplyLost(a)
    \/ SwitchGeneration \/ ReviewGone

SNext == Asking \/ Writing \/ Pressing \/ Answering \/ SFaults

\* The three together, over any menu, corpus and allowance.
plane == <<kvars, rvars, svars>>
PlaneInit ==
    /\ \E t0 \in [Dishes -> Texts], budget \in [Allowances -> Nat] : KInit(t0, budget)
    /\ RInit /\ \E corpus \in Nat : SInit(corpus)
Recommends == (Feeding \/ Redelivered \/ Shopping) /\ UNCHANGED svars
Indexes == KNext /\ UNCHANGED <<rvars, svars>>
PlaneNext == Indexes \/ Recommends \/ SNext
PlaneSpec == PlaneInit /\ [][PlaneNext]_plane

------------------------------------------------------------------------------
LiveJobs(d) == {j \in Jobs : jobs[j].at # "free" /\ jobs[j].draft = d}

\* The summary the feedback panel shows: the newest that finished.
latest == LET done == SelectSeq(made, LAMBDA d : /\ drafts[d].kind = "feedback_summary"
                                                 /\ drafts[d].status = "drafted")
          IN IF done = <<>> THEN Gone ELSE drafts[Last(done)].content

\* A dish's copy recorded as published had been written to the menu by a
\* console first (PartnerStudio publishes, then records).
PublishedWasShipped ==
    \A d \in Drafts : drafts[d].status = "published" /\ drafts[d].kind = "menu_item"
                          => drafts[d].published \in shipped[d]

\* What a person decided stays as decided: no late delivery, retry or second
\* console changes the row (the guards of complete, park and _decide).
DecisionStands ==
    [][\A d \in Drafts : drafts[d].status \in Decided => drafts'[d] = drafts[d]]_svars

\* Whoever was told "published" or "rejected" reads a row that says so, with
\* their text; a person who lost the race was told so (approve, reject).
ToldTheTruth ==
    \A m \in told :
        /\ drafts[m[1]].status = m[2]
        /\ m[2] = "published" => drafts[m[1]].published = m[3]

\* A queued row has a job, or one about to be sent: nothing a person cannot
\* reach is left in `queued`, but by the two faults that lose the message
\* (_run_job's three arms, replay).
QueuedHasJob ==
    \A d \in Drafts : drafts[d].status = "queued" => d \in sending \cup lost \/ LiveJobs(d) # {}

\* One job at a time writes a row, but for the broker's own redeliveries: two
\* replays of one parked row do not buy two provider calls.
OneJobEach ==
    \A d \in Drafts : Cardinality(LiveJobs(d)) + (IF d \in sending THEN 1 ELSE 0) <= 1 + extra[d]

\* Pressing "Refresh summary" never takes the summary there is off the panel,
\* however the new job ends (read_feedback asks for the latest `drafted` one).
SummaryStays == [][latest # Gone => latest' # Gone]_svars

\* No draft waits for ever: every row that is queued, and queued again by a
\* person, is in the end written or parked, unless a fault took its message.
DraftSettles == <>[](\A d \in Drafts : drafts[d].status = "queued" => d \in lost)
==============================================================================
