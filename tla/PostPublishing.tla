----------------------------- MODULE PostPublishing -----------------------------
(***************************************************************************)
(* Scheduling, cancelling and publishing posts: the use cases              *)
(* SchedulePost, CancelScheduledPost, DisconnectChannel, PublishPost and   *)
(* QuarantineMedia, running concurrently over the tables they share.       *)
(*                                                                         *)
(* Every repository call of the code is one autocommit statement, so every *)
(* repository call is one step here, and a request keeps between two steps *)
(* what its goroutine holds in memory: the rows it has read.  Steps of     *)
(* different requests interleave freely.  All posts and channels belong to *)
(* one brand; who may run a use case is decided elsewhere, so a permission *)
(* check either passes or ends the request.                                *)
(***************************************************************************)
EXTENDS PostDomain, ChannelDomain, FiniteSets

CONSTANTS
    Posts,             \* posts of the brand
    Channels,          \* connected channels of the brand
    Schedulers,        \* goroutines serving SchedulePost
    Cancellers,        \* goroutines serving CancelScheduledPost
    Disconnecters,     \* goroutines serving DisconnectChannel
    Workers,           \* goroutines running PublishPost
    None,              \* no post, no channel
    VersionRule,       \* what postRepo.Update compares: see Accepts
    VariantStorable,   \* does post_variants take a variant that is pending?
    Faults,            \* may calls fail whose errors the code passes over?
    Crashes,           \* may processes die, or calls fail that end a request?
    PostStarts,        \* statuses a post may have initially
    ChannelStarts,     \* statuses a channel may have initially
    MaxVersion,        \* bound: no request loads a post beyond this version
    MaxPosted          \* bound: external publications are counted up to this

ASSUME ConstantsAssumption ==
    /\ None \notin Posts \cup Channels
    /\ VersionRule \in {"postgres", "unchecked"}
    /\ {VariantStorable, Faults, Crashes} \subseteq BOOLEAN
    /\ PostStarts \subseteq {"draft", "validated", "scheduled"}
    /\ ChannelStarts \subseteq ChannelStatuses \ {"error"}
    /\ MaxVersion \in Nat
    /\ MaxPosted \in Nat \ {0}

VARIABLES
    posts,         \* table posts
    variants,      \* table post_variants: status of the variant, or "none"
    channels,      \* table channels
    quarantined,   \* posts that carry a quarantined media asset
    schedule,      \* running SchedulePost requests
    cancel,        \* running CancelScheduledPost requests
    disconnect,    \* running DisconnectChannel requests
    worker         \* running PublishPost executions

\* History: read by the properties only.
VARIABLES
    posted,        \* times the platform was told to publish a post on a channel
    targets,       \* channels of the last schedule of a post that was stored
    reported,      \* the last status PublishPost returned for a post
    streak         \* failed publications on a channel since its last success

tables == <<posts, variants, channels, quarantined>>
requests == <<schedule, cancel, disconnect, worker>>
history == <<posted, targets, reported, streak>>
vars == <<posts, variants, channels, quarantined,
          schedule, cancel, disconnect, worker,
          posted, targets, reported, streak>>

VariantStatuses == {"none", "pending", "failed", "published"}

IdleSchedule == [pc |-> "idle", post |-> None, read |-> NewPost,
                 chans |-> {}, todo |-> {}]
IdleCancel == [pc |-> "idle", post |-> None, read |-> NewPost]
NoChannel == [status |-> "active", failures |-> 0]
IdleDisconnect == [pc |-> "idle", chan |-> None, row |-> NoChannel,
                   read |-> [p \in Posts |-> NewPost], todo |-> {}]
IdleWorker == [pc |-> "idle", post |-> None, read |-> NewPost, todo |-> {},
               chan |-> None, row |-> NoChannel, done |-> {}]

PostOrNone == Posts \cup {None}
ChannelOrNone == Channels \cup {None}

\* What a goroutine of each kind may hold: a busy one knows what it works on.
ScheduleState ==
    {r \in [pc : {"idle", "conflict", "media", "channels", "date", "variants"},
            post : PostOrNone, read : PostRow,
            chans : SUBSET Channels, todo : SUBSET Channels] :
        r.pc \notin {"idle", "conflict"} => r.post \in Posts}
CancelState ==
    {r \in [pc : {"idle", "conflict", "save"}, post : PostOrNone, read : PostRow] :
        r.pc = "save" => r.post \in Posts}
DisconnectState ==
    {r \in [pc : {"idle", "list", "cancel"}, chan : ChannelOrNone,
            row : ChannelRow, read : [Posts -> PostRow], todo : SUBSET Posts] :
        r.pc # "idle" => r.chan \in Channels}
WorkerState ==
    {r \in [pc : {"idle", "media", "virus", "load", "next", "refused", "send",
                  "sent", "reset", "failed", "record"},
            post : PostOrNone, read : PostRow, todo : SUBSET Channels,
            chan : ChannelOrNone, row : ChannelRow, done : SUBSET Channels] :
        /\ r.pc # "idle" => r.post \in Posts
        /\ r.pc \notin {"idle", "media", "virus", "load", "next"} =>
              r.chan \in Channels}

TablesTyped ==
    /\ posts \in [Posts -> PostRow]
    /\ variants \in [Posts -> [Channels -> VariantStatuses]]
    /\ channels \in [Channels -> ChannelRow]
    /\ quarantined \subseteq Posts

RequestsTyped ==
    /\ schedule \in [Schedulers -> ScheduleState]
    /\ cancel \in [Cancellers -> CancelState]
    /\ disconnect \in [Disconnecters -> DisconnectState]
    /\ worker \in [Workers -> WorkerState]

HistoryTyped ==
    /\ posted \in [Posts -> [Channels -> 0..MaxPosted]]
    /\ targets \in [Posts -> SUBSET Channels]
    /\ reported \in [Posts -> {"none", "virus", "failed", "published"}]
    /\ streak \in [Channels -> 0..ChannelErrorThreshold]

\* Every variable holds a value of its kind.
TypeOK == TablesTyped /\ RequestsTyped /\ HistoryTyped

(***************************************************************************)
(* A post starts where the editorial workflow, an earlier schedule or the  *)
(* INSERT of postRepo.Create, which takes an aggregate in any status, left *)
(* it; a scheduled one has a variant pending on each channel it targets    *)
(* where the table takes such variants.                                    *)
(***************************************************************************)
InitialPost(s) ==
    [status |-> s, version |-> 1,
     scheduledAt |-> IF s = "scheduled" THEN "set" ELSE "nil"]

Init ==
    /\ \E start \in [Posts -> PostStarts] :
          posts = [p \in Posts |-> InitialPost(start[p])]
    /\ targets \in {f \in [Posts -> SUBSET Channels] :
                      \A p \in Posts : posts[p].status = "scheduled" <=> f[p] # {}}
    /\ variants = [p \in Posts |-> [c \in Channels |->
                     IF VariantStorable /\ c \in targets[p] THEN "pending"
                     ELSE "none"]]
    /\ \E start \in [Channels -> ChannelStarts] :
          channels = [c \in Channels |-> [status |-> start[c], failures |-> 0]]
    /\ quarantined = {}
    /\ schedule = [s \in Schedulers |-> IdleSchedule]
    /\ cancel = [k \in Cancellers |-> IdleCancel]
    /\ disconnect = [d \in Disconnecters |-> IdleDisconnect]
    /\ worker = [w \in Workers |-> IdleWorker]
    /\ posted = [p \in Posts |-> [c \in Channels |-> 0]]
    /\ reported = [p \in Posts |-> "none"]
    /\ streak = [c \in Channels |-> 0]

(***************************************************************************)
(* postRepo.Update.  "postgres" is the UPDATE ... WHERE version = $10 of   *)
(* the repository, $10 being the aggregate's version, which the transition *)
(* methods have already incremented; "unchecked" is the IPostRepo port     *)
(* taken at its word, a store that keeps the aggregate it is given.        *)
(***************************************************************************)
MutantAccepts(p, row) == TRUE   \* mutant: the last writer wins

Accepts(p, row) ==
    VersionRule = "postgres" => posts[p].version = row.version

Stored(row) ==
    IF VersionRule = "postgres" THEN [row EXCEPT !.version = @ + 1] ELSE row

UpdatePost(p, row) == posts' = [posts EXCEPT ![p] = Stored(row)]

Loadable(p) == posts[p].version < MaxVersion
--------------------------------------------------------------------------------
(***************************************************************************)
(* The editorial workflow: the transition methods no use case persists,    *)
(* applied to the stored post.                                             *)
(***************************************************************************)
Review(p) ==
    /\ Loadable(p)
    /\ \/ CanSubmit(posts[p])
          /\ posts' = [posts EXCEPT ![p] = SubmitForValidation(@)]
       \/ CanValidate(posts[p])
          /\ posts' = [posts EXCEPT ![p] = Validate(@)]
       \/ CanReject(posts[p])
          /\ posts' = [posts EXCEPT ![p] = Reject(@)]
    /\ UNCHANGED <<variants, channels, quarantined, requests, history>>

\* QuarantineMedia, for an asset attached to p.
Quarantine(p) ==
    /\ p \notin quarantined
    /\ quarantined' = quarantined \cup {p}
    /\ UNCHANGED <<posts, variants, channels, requests, history>>
--------------------------------------------------------------------------------
(* SchedulePost.Execute *)

Free(req) == req.pc \in {"idle", "conflict"}

\* Steps 2 and 3: load the post, which must be validated.
ScheduleLoad(s, p, chans) ==
    /\ Free(schedule[s])
    /\ Loadable(p)
    /\ posts[p].status = "validated"
    /\ schedule' = [schedule EXCEPT ![s] =
          [pc |-> "media", post |-> p, read |-> posts[p],
           chans |-> chans, todo |-> {}]]
    /\ UNCHANGED <<tables, cancel, disconnect, worker, history>>

\* Step 7: a quarantined asset blocks; an error of ListByPost does not.
ScheduleCheckMedia(s) ==
    /\ schedule[s].pc = "media"
    /\ schedule[s].post \notin quarantined \/ Faults
    /\ schedule' = [schedule EXCEPT ![s].pc = "channels",
                                    ![s].todo = schedule[s].chans]
    /\ UNCHANGED <<tables, cancel, disconnect, worker, history>>

\* Step 8, for one of the channels of the command.
ScheduleCheckChannel(s, c, tokenValid) ==
    /\ schedule[s].pc = "channels"
    /\ c \in schedule[s].todo
    /\ CanPublish(channels[c], tokenValid)
    /\ schedule' = [schedule EXCEPT
          ![s].todo = @ \ {c},
          ![s].pc = IF schedule[s].todo = {c} THEN "date" ELSE "channels"]
    /\ UNCHANGED <<tables, cancel, disconnect, worker, history>>

\* Steps 4 to 9 may refuse the request: a permission, X-7, CanPublish or P-2.
ScheduleRefuse(s) ==
    /\ \/ schedule[s].pc \in {"media", "date"}
       \/ /\ schedule[s].pc = "channels"
          /\ \E c \in schedule[s].todo, tokenValid \in BOOLEAN :
                ~CanPublish(channels[c], tokenValid)
    /\ schedule' = [schedule EXCEPT ![s] = IdleSchedule]
    /\ UNCHANGED <<tables, cancel, disconnect, worker, history>>

\* Step 9: post.Schedule accepts the date; the post moves in memory only.
ScheduleDate(s) ==
    /\ schedule[s].pc = "date"
    /\ CanSchedule(schedule[s].read)
    /\ schedule' = [schedule EXCEPT ![s].pc = "variants",
                                    ![s].todo = schedule[s].chans]
    /\ UNCHANGED <<tables, cancel, disconnect, worker, history>>

\* Step 10: insert a pending variant.  UNIQUE(post_id, channel_id) keeps an
\* existing one as it is, chk_post_variants_status knows no variant that is
\* pending, and whatever the error of the insertion is, it is dropped.
ScheduleCreateVariant(s, c) ==
    LET p == schedule[s].post IN
    /\ schedule[s].pc = "variants"
    /\ c \in schedule[s].todo
    /\ \/ /\ VariantStorable
          /\ variants' = [variants EXCEPT ![p][c] =
                             IF @ = "none" THEN "pending" ELSE @]
       \/ (~VariantStorable \/ Faults) /\ UNCHANGED variants
    /\ schedule' = [schedule EXCEPT ![s].todo = @ \ {c}]
    /\ UNCHANGED <<posts, channels, quarantined, cancel, disconnect, worker,
                   history>>

\* Mutant: the post is stored before its variants.
MutantScheduleSave(s) ==
    /\ schedule[s].pc = "variants"
    /\ UpdatePost(schedule[s].post, Schedule(schedule[s].read))
    /\ targets' = [targets EXCEPT ![schedule[s].post] = schedule[s].chans]
    /\ schedule' = [schedule EXCEPT ![s] = IdleSchedule]
    /\ UNCHANGED <<variants, channels, quarantined, cancel, disconnect, worker,
                   posted, reported, streak>>

\* Step 11: the post is stored last.
ScheduleSave(s) ==
    LET p == schedule[s].post
        row == Schedule(schedule[s].read)
    IN
    /\ schedule[s].pc = "variants"
    /\ schedule[s].todo = {}
    /\ \/ /\ Accepts(p, row)
          /\ UpdatePost(p, row)
          /\ targets' = [targets EXCEPT ![p] = schedule[s].chans]
          /\ schedule' = [schedule EXCEPT ![s] = IdleSchedule]
       \/ /\ ~Accepts(p, row)
          /\ schedule' = [schedule EXCEPT ![s] =
                             [IdleSchedule EXCEPT !.pc = "conflict"]]
          /\ UNCHANGED <<posts, targets>>
    /\ UNCHANGED <<variants, channels, quarantined, cancel, disconnect, worker,
                   posted, reported, streak>>

\* The process dies, or the final Update fails: the variants stay.
ScheduleDies(s) ==
    /\ Crashes
    /\ ~Free(schedule[s])
    /\ schedule' = [schedule EXCEPT ![s] = IdleSchedule]
    /\ UNCHANGED <<tables, cancel, disconnect, worker, history>>
--------------------------------------------------------------------------------
(* CancelScheduledPost.Execute *)

CancelLoad(k, p) ==
    /\ Free(cancel[k])
    /\ Loadable(p)
    /\ CanCancel(posts[p])
    /\ cancel' = [cancel EXCEPT ![k] =
          [pc |-> "save", post |-> p, read |-> posts[p]]]
    /\ UNCHANGED <<tables, schedule, disconnect, worker, history>>

CancelSave(k) ==
    LET p == cancel[k].post
        row == Cancel(cancel[k].read)
    IN
    /\ cancel[k].pc = "save"
    /\ \/ /\ Accepts(p, row)
          /\ UpdatePost(p, row)
          /\ cancel' = [cancel EXCEPT ![k] = IdleCancel]
       \/ /\ ~Accepts(p, row)
          /\ cancel' = [cancel EXCEPT ![k] = [@ EXCEPT !.pc = "conflict"]]
          /\ UNCHANGED posts
    /\ UNCHANGED <<variants, channels, quarantined, schedule, disconnect, worker,
                   history>>

CancelDies(k) ==
    /\ Crashes
    /\ cancel[k].pc = "save"
    /\ cancel' = [cancel EXCEPT ![k] = IdleCancel]
    /\ UNCHANGED <<tables, schedule, disconnect, worker, history>>
--------------------------------------------------------------------------------
(* DisconnectChannel.Execute *)

\* Steps 2 to 7: the channel is marked disconnected in memory.
DisconnectLoad(d, c) ==
    /\ disconnect[d].pc = "idle"
    /\ \A p \in Posts : Loadable(p)
    /\ channels[c].status # "disconnected"
    /\ disconnect' = [disconnect EXCEPT ![d] =
          [IdleDisconnect EXCEPT !.pc = "list", !.chan = c,
                                 !.row = SetStatus(channels[c], "disconnected")]]
    /\ UNCHANGED <<tables, schedule, cancel, worker, history>>

\* Step 8: list the scheduled posts of the brand; an error of the list counts
\* as an empty one.
DisconnectList(d) ==
    /\ disconnect[d].pc = "list"
    /\ \E listed \in {{p \in Posts : posts[p].status = "scheduled"}}
                       \cup (IF Faults THEN {{}} ELSE {}) :
          disconnect' = [disconnect EXCEPT
             ![d].pc = "cancel",
             ![d].todo = listed,
             ![d].read = [p \in Posts |-> IF p \in listed THEN posts[p]
                                                          ELSE NewPost]]
    /\ UNCHANGED <<tables, schedule, cancel, worker, history>>

\* Mutant: a refused update ends the request.
MutantDisconnectCancelPost(d, p) ==
    LET row == Cancel(disconnect[d].read[p]) IN
    /\ disconnect[d].pc = "cancel"
    /\ p \in disconnect[d].todo
    /\ \/ /\ Accepts(p, row)
          /\ UpdatePost(p, row)
          /\ disconnect' = [disconnect EXCEPT ![d].todo = @ \ {p}]
       \/ /\ ~Accepts(p, row)
          /\ disconnect' = [disconnect EXCEPT ![d] = IdleDisconnect]
          /\ UNCHANGED posts
    /\ UNCHANGED <<variants, channels, quarantined, schedule, cancel, worker,
                   history>>

\* Step 8, one listed post: a refused update is skipped.
DisconnectCancelPost(d, p) ==
    LET row == Cancel(disconnect[d].read[p]) IN
    /\ disconnect[d].pc = "cancel"
    /\ p \in disconnect[d].todo
    /\ \/ Accepts(p, row) /\ UpdatePost(p, row)
       \/ (~Accepts(p, row) \/ Faults) /\ UNCHANGED posts
    /\ disconnect' = [disconnect EXCEPT ![d].todo = @ \ {p},
                                        ![d].read[p] = NewPost]
    /\ UNCHANGED <<variants, channels, quarantined, schedule, cancel, worker,
                   history>>

\* Step 9: the channel row is stored, whatever it has become meanwhile.
DisconnectSave(d) ==
    /\ disconnect[d].pc = "cancel"
    /\ disconnect[d].todo = {}
    /\ channels' = [channels EXCEPT ![disconnect[d].chan] = disconnect[d].row]
    /\ disconnect' = [disconnect EXCEPT ![d] = IdleDisconnect]
    /\ UNCHANGED <<posts, variants, quarantined, schedule, cancel, worker, history>>

DisconnectDies(d) ==
    /\ Crashes
    /\ disconnect[d].pc # "idle"
    /\ disconnect' = [disconnect EXCEPT ![d] = IdleDisconnect]
    /\ UNCHANGED <<tables, schedule, cancel, worker, history>>
--------------------------------------------------------------------------------
(* PublishPost.Execute *)

\* Mutant: the status of the post is not looked at.
MutantPublishLoad(w, p) ==
    /\ worker[w].pc = "idle"
    /\ Loadable(p)
    /\ worker' = [worker EXCEPT ![w] =
          [IdleWorker EXCEPT !.pc = "media", !.post = p, !.read = posts[p]]]
    /\ UNCHANGED <<tables, schedule, cancel, disconnect, history>>

\* Step 1: an execution begins with a post that is scheduled.
PublishLoad(w, p) ==
    /\ worker[w].pc = "idle"
    /\ Loadable(p)
    /\ posts[p].status = "scheduled"
    /\ worker' = [worker EXCEPT ![w] =
          [IdleWorker EXCEPT !.pc = "media", !.post = p, !.read = posts[p]]]
    /\ UNCHANGED <<tables, schedule, cancel, disconnect, history>>

\* Step 2: X-7 is checked once more, and again an error lets the post through.
PublishCheckMedia(w) ==
    /\ worker[w].pc = "media"
    /\ \/ /\ worker[w].post \in quarantined
          /\ worker' = [worker EXCEPT ![w].pc = "virus"]
       \/ /\ worker[w].post \notin quarantined \/ Faults
          /\ worker' = [worker EXCEPT ![w].pc = "load"]
    /\ UNCHANGED <<tables, schedule, cancel, disconnect, history>>

\* The post is written back as it was read: no transition precedes the Update.
WriteBack(w) ==
    LET p == worker[w].post IN
    \/ Accepts(p, worker[w].read) /\ UpdatePost(p, worker[w].read)
    \/ (~Accepts(p, worker[w].read) \/ Faults) /\ UNCHANGED posts

Report(w, result) ==
    /\ reported' = [reported EXCEPT ![worker[w].post] = result]
    /\ worker' = [worker EXCEPT ![w] = IdleWorker]

PublishVirus(w) ==
    /\ worker[w].pc = "virus"
    /\ WriteBack(w)
    /\ Report(w, "virus")
    /\ UNCHANGED <<variants, channels, quarantined, schedule, cancel, disconnect,
                   posted, targets, streak>>

\* Step 3: the variants of the post, of any status; none ends the execution.
PublishLoadVariants(w) ==
    LET found == {c \in Channels : variants[worker[w].post][c] # "none"} IN
    /\ worker[w].pc = "load"
    /\ worker' = [worker EXCEPT ![w] =
          IF found = {} THEN IdleWorker
          ELSE [@ EXCEPT !.pc = "next", !.todo = found]]
    /\ UNCHANGED <<tables, schedule, cancel, disconnect, history>>

\* Step 5: load the channel of the next variant and ask whether it can publish.
PublishLoadChannel(w, c, tokenValid) ==
    /\ worker[w].pc = "next"
    /\ c \in worker[w].todo
    /\ \E loaded \in {TRUE, ~Faults} :
          worker' = [worker EXCEPT
             ![w].chan = c,
             ![w].row = channels[c],
             ![w].pc = IF loaded /\ CanPublish(channels[c], tokenValid)
                       THEN "send" ELSE "refused"]
    /\ UNCHANGED <<tables, schedule, cancel, disconnect, history>>

\* Mutant: the next turn of the loop skips the loading of its channel.
MutantNextVariant(w) ==
    [worker[w] EXCEPT !.pc = "send", !.todo = @ \ {worker[w].chan},
                      !.chan = None, !.row = NoChannel]

NextVariant(w) ==
    [worker[w] EXCEPT !.pc = "next", !.todo = @ \ {worker[w].chan},
                      !.chan = None, !.row = NoChannel]

\* variant.MarkFailed or MarkPublished and its Update, whose error is dropped.
MarkVariant(w, to) ==
    \/ variants' = [variants EXCEPT ![worker[w].post][worker[w].chan] = to]
    \/ Faults /\ UNCHANGED variants

\* Mutant: the loop breaks where it should continue.
MutantPublishRefused(w) ==
    /\ worker[w].pc = "refused"
    /\ MarkVariant(w, "failed")
    /\ worker' = [worker EXCEPT ![w] = [NextVariant(w) EXCEPT !.todo = {}]]
    /\ UNCHANGED <<posts, channels, quarantined, schedule, cancel, disconnect,
                   history>>

PublishRefused(w) ==
    /\ worker[w].pc = "refused"
    /\ MarkVariant(w, "failed")
    /\ worker' = [worker EXCEPT ![w] = NextVariant(w)]
    /\ UNCHANGED <<posts, channels, quarantined, schedule, cancel, disconnect,
                   history>>

CountedPost(n) == IF n < MaxPosted THEN n + 1 ELSE n

\* Mutant: the error of the platform is dropped.
MutantPublishSend(w) ==
    /\ worker[w].pc = "send"
    /\ \/ posted' = [posted EXCEPT ![worker[w].post][worker[w].chan] =
                         CountedPost(@)]
       \/ UNCHANGED posted
    /\ worker' = [worker EXCEPT ![w].pc = "sent"]
    /\ UNCHANGED <<tables, schedule, cancel, disconnect, targets, reported, streak>>

\* The call to the platform.  A success without a platform id is a success the
\* loop forgets: MarkPublished refuses it and no branch handles the refusal.
PublishSend(w) ==
    /\ worker[w].pc = "send"
    /\ \/ /\ posted' = [posted EXCEPT ![worker[w].post][worker[w].chan] =
                           CountedPost(@)]
          /\ \/ worker' = [worker EXCEPT ![w].pc = "sent"]
             \/ worker' = [worker EXCEPT ![w] = NextVariant(w)]
       \/ /\ worker' = [worker EXCEPT ![w].pc = "failed"]
          /\ UNCHANGED posted
    /\ UNCHANGED <<tables, schedule, cancel, disconnect, targets, reported, streak>>

PublishMarkPublished(w) ==
    /\ worker[w].pc = "sent"
    /\ MarkVariant(w, "published")
    /\ worker' = [worker EXCEPT ![w].pc = "reset"]
    /\ UNCHANGED <<posts, channels, quarantined, schedule, cancel, disconnect,
                   history>>

\* channelRepo.Update writes the whole row the worker loaded, status included.
UpdateChannel(w, row) ==
    \/ channels' = [channels EXCEPT ![worker[w].chan] = row]
    \/ Faults /\ UNCHANGED channels

PublishResetFailures(w) ==
    /\ worker[w].pc = "reset"
    /\ UpdateChannel(w, ResetFailureCount(worker[w].row))
    /\ streak' = [streak EXCEPT ![worker[w].chan] = 0]
    /\ worker' = [worker EXCEPT ![w] = [NextVariant(w) EXCEPT
                                          !.done = @ \cup {worker[w].chan}]]
    /\ UNCHANGED <<posts, variants, quarantined, schedule, cancel, disconnect,
                   posted, targets, reported>>

PublishMarkFailed(w) ==
    /\ worker[w].pc = "failed"
    /\ MarkVariant(w, "failed")
    /\ worker' = [worker EXCEPT ![w].pc = "record"]
    /\ UNCHANGED <<posts, channels, quarantined, schedule, cancel, disconnect,
                   history>>

PublishRecordFailure(w) ==
    /\ worker[w].pc = "record"
    /\ UpdateChannel(w, RecordPublicationFailure(worker[w].row))
    /\ streak' = [streak EXCEPT ![worker[w].chan] =
                     IF @ < ChannelErrorThreshold THEN @ + 1 ELSE @]
    /\ worker' = [worker EXCEPT ![w] = NextVariant(w)]
    /\ UNCHANGED <<posts, variants, quarantined, schedule, cancel, disconnect,
                   posted, targets, reported>>

\* Step 6: published if one channel was, failed otherwise.
PublishFinish(w) ==
    /\ worker[w].pc = "next"
    /\ worker[w].todo = {}
    /\ WriteBack(w)
    /\ Report(w, IF worker[w].done # {} THEN "published" ELSE "failed")
    /\ UNCHANGED <<variants, channels, quarantined, schedule, cancel, disconnect,
                   posted, targets, streak>>

PublishDies(w) ==
    /\ Crashes
    /\ worker[w].pc # "idle"
    /\ worker' = [worker EXCEPT ![w] = IdleWorker]
    /\ UNCHANGED <<tables, schedule, cancel, disconnect, history>>
--------------------------------------------------------------------------------
ScheduleStep(s) ==
    \/ ScheduleCheckMedia(s)
    \/ \E c \in Channels, tokenValid \in BOOLEAN :
          ScheduleCheckChannel(s, c, tokenValid)
    \/ ScheduleRefuse(s)
    \/ ScheduleDate(s)
    \/ \E c \in Channels : ScheduleCreateVariant(s, c)
    \/ ScheduleSave(s)

DisconnectStep(d) ==
    \/ DisconnectList(d)
    \/ \E p \in Posts : DisconnectCancelPost(d, p)
    \/ DisconnectSave(d)

PublishStep(w) ==
    \/ PublishCheckMedia(w)
    \/ PublishVirus(w)
    \/ PublishLoadVariants(w)
    \/ \E c \in Channels, tokenValid \in BOOLEAN :
          PublishLoadChannel(w, c, tokenValid)
    \/ PublishRefused(w)
    \/ PublishSend(w)
    \/ PublishMarkPublished(w)
    \/ PublishResetFailures(w)
    \/ PublishMarkFailed(w)
    \/ PublishRecordFailure(w)
    \/ PublishFinish(w)

\* What one goroutine may do next.
ScheduleNext(s) ==
    \/ \E p \in Posts, chans \in (SUBSET Channels) \ {{}} : ScheduleLoad(s, p, chans)
    \/ ScheduleStep(s)
    \/ ScheduleDies(s)
CancelNext(k) ==
    (\E p \in Posts : CancelLoad(k, p)) \/ CancelSave(k) \/ CancelDies(k)
DisconnectNext(d) ==
    (\E c \in Channels : DisconnectLoad(d, c)) \/ DisconnectStep(d) \/ DisconnectDies(d)
PublishNext(w) ==
    (\E p \in Posts : PublishLoad(w, p)) \/ PublishStep(w) \/ PublishDies(w)

Next ==
    \/ \E p \in Posts : Review(p) \/ Quarantine(p)
    \/ \E s \in Schedulers : ScheduleNext(s)
    \/ \E k \in Cancellers : CancelNext(k)
    \/ \E d \in Disconnecters : DisconnectNext(d)
    \/ \E w \in Workers : PublishNext(w)

Spec == Init /\ [][Next]_vars

(***************************************************************************)
(* A request that has started runs to its end.  Nothing has to start one,  *)
(* a PublishPost no more than the others.                                  *)
(***************************************************************************)
Fairness ==
    /\ \A s \in Schedulers : WF_vars(ScheduleStep(s))
    /\ \A k \in Cancellers : WF_vars(CancelSave(k))
    /\ \A d \in Disconnecters : WF_vars(DisconnectStep(d))
    /\ \A w \in Workers : WF_vars(PublishStep(w))

FairSpec == Spec /\ Fairness
--------------------------------------------------------------------------------
(***************************************************************************)
(* Properties the code keeps.                                              *)
(***************************************************************************)

\* C-4: a channel whose stored count of consecutive failures has reached the
\* threshold is out of service, whichever stale row was written over it last.
ErrorThreshold ==
    \A c \in Channels : channels[c].failures >= ChannelErrorThreshold =>
                           ~CanPublish(channels[c], TRUE)

\* C-4: three publications in a row that failed on a channel take it out of
\* service.  It needs the failures recorded one at a time: see README.
ThreeFailuresStopTheChannel ==
    \A c \in Channels : streak[c] >= ChannelErrorThreshold =>
                           ~CanPublish(channels[c], TRUE)

\* A variant is marked published only after the platform has been called for
\* it, whatever fails, dies or is scheduled again in between.
PublishedVariantWasPosted ==
    \A p \in Posts, c \in Channels :
        variants[p][c] = "published" => posted[p][c] > 0

\* Where a pending variant can be stored and no insertion fails, a stored schedule
\* has a variant on every channel it targets: SchedulePost writes the variants
\* before the post, and nothing removes them.
ScheduledPostHasItsVariants ==
    \A p \in Posts : posts[p].status = "scheduled" =>
        /\ targets[p] # {}
        /\ \A c \in targets[p] : variants[p][c] # "none"

\* The variants of a schedule that was refused or died before its last write stay
\* in the table.  They send nothing of themselves: the platform is called for a
\* post only once some schedule of it has been stored, perhaps on other channels
\* (SentToTargetsOnly does not hold).
NothingSentBeforeASchedule ==
    \A p \in Posts, c \in Channels : posted[p][c] > 0 => targets[p] # {}

\* The stored statuses implement the life cycle of PostLifecycle: no request
\* working on a stale copy takes a post along an arrow SM-01 does not have.
SM == INSTANCE PostLifecycle WITH status <- [p \in Posts |-> posts[p].status]
Lifecycle == SM!Spec

\* publish.go, step 5: an execution that has passed the check of the media comes
\* to every variant that waits then, whichever of the others fail and whatever
\* becomes of the post: the variant is settled, or the platform called for it.
EveryVariantIsAttempted ==
    \A w \in Workers, p \in Posts, c \in Channels :
        worker[w].pc = "load" /\ worker[w].post = p /\ variants[p][c] = "pending" ~>
            variants[p][c] \in {"failed", "published"} \/ posted[p][c] > 0

\* A disconnection that has listed the scheduled posts ends with the channel
\* stored as disconnected, even when every one of its cancellations is refused.
DisconnectionIsStored ==
    \A d \in Disconnecters, c \in Channels :
        disconnect[d].pc # "idle" /\ disconnect[d].chan = c ~>
            channels[c].status = "disconnected"
--------------------------------------------------------------------------------
(***************************************************************************)
(* Properties a comment, a message or the schema states and the code does  *)
(* not keep.                                                               *)
(***************************************************************************)

\* publish.go, step 6: the status PublishPost returns is the status stored.
ReportedStatusIsStored ==
    [][\A p \in Posts :
          reported'[p] # reported[p] /\ reported'[p] \in {"failed", "published"}
             => posts'[p].status = reported'[p]]_vars

\* publish.go, step 2: a quarantined asset found by the worker fails the post.
VirusFailsThePost ==
    [][\A p \in Posts : reported'[p] # reported[p] /\ reported'[p] = "virus"
                           => posts'[p].status = "failed"]_vars

\* 0015_create_publish_jobs: no variant is published twice.
NoDoublePublication ==
    \A p \in Posts, c \in Channels : posted[p][c] <= 1

\* postgres_post_repo.go: CONCURRENCY_CONFLICT means that the post has been
\* modified since the refused request read it.
ConflictMeansConcurrentWrite ==
    [][\A s \in Schedulers :
          schedule[s].pc = "variants" /\ schedule'[s].pc = "conflict" =>
             posts[schedule[s].post] # schedule[s].read]_vars

\* 0010_create_posts: a write based on a row that has changed since is refused.
StaleWriteIsRefused ==
    [][\A k \in Cancellers :
          cancel[k].pc = "save" /\ cancel'[k].pc = "idle" =>
             posts[cancel[k].post] = cancel[k].read]_vars

\* channel.go, C-1: a disconnected channel publishes again only once it has
\* been reconnected, which nothing here does.
DisconnectedStaysDisconnected ==
    [][\A c \in Channels : channels[c].status = "disconnected" =>
                              channels'[c].status = "disconnected"]_vars

\* connect.go, step 8: a disconnection leaves no post of the brand scheduled.
DisconnectCancelsSchedules ==
    [][\A d \in Disconnecters :
          disconnect[d].pc = "cancel" /\ disconnect'[d].pc = "idle" =>
             \A p \in Posts : posts[p].status # "scheduled"]_vars

\* repositories.go, PostVariant: one variant per target channel, so a worker
\* sends a post to channels of its schedule only.
SentToTargetsOnly ==
    \A w \in Workers :
        worker[w].pc = "send" => worker[w].chan \in targets[worker[w].post]

\* publish.go, step 10: a variant whose creation failed is created again.
MissingVariantIsRecreated ==
    \A p \in Posts, c \in Channels :
        /\ posts[p].status = "scheduled"
        /\ c \in targets[p]
        /\ variants[p][c] = "none"
        ~> variants[p][c] # "none" \/ posts[p].status # "scheduled"
--------------------------------------------------------------------------------
(***************************************************************************)
(* What an execution has done when it ends.                                *)
(***************************************************************************)

\* publish.go, step 6: nothing takes a stored post beyond the schedule, so that
\* whatever status the worker reports none is ever stored.
NothingStoredBeyondTheSchedule ==
    \A p \in Posts : posts[p].status \notin {"published", "failed", "cancelled"}

\* publish.go, step 6: a post is reported published only when the platform has
\* been called for one of its channels.
ReportedPublishedWasSent ==
    \A p \in Posts : reported[p] = "published" => \E c \in Channels : posted[p][c] > 0

\* publish.go, step 5: a loop that is over has settled every channel the post was
\* scheduled on or has sent to it, whichever of them failed.  A call answered
\* without a platform id leaves a variant that was sent pending.
TargetsAreAttempted ==
    \A w \in Workers : worker[w].pc = "next" /\ worker[w].todo = {} =>
        \A c \in targets[worker[w].post] :
            \/ variants[worker[w].post][c] \in {"failed", "published"}
            \/ posted[worker[w].post][c] > 0

\* 0011_create_post_variants, publish.go, step 10: a table that takes no pending
\* variant gets no variant at all, and nothing of a schedule is ever sent.
NoVariantNothingSent ==
    \A p \in Posts, c \in Channels : variants[p][c] = "none" /\ posted[p][c] = 0

\* No schedule of a post is stored while a worker is at it.
ScheduledApart ==
    [][\A p \in Posts : targets'[p] # targets[p] =>
          \A w \in Workers : worker[w].pc = "idle" \/ worker[w].post # p]_vars

\* connect.go, step 9: a disconnection ends only by storing the channel it was
\* asked to disconnect as disconnected.
DisconnectionEndsStored ==
    [][\A d \in Disconnecters, c \in Channels :
          /\ disconnect[d].pc # "idle"
          /\ disconnect'[d].pc = "idle"
          /\ disconnect[d].chan = c
          => channels'[c].status = "disconnected"]_vars
================================================================================
