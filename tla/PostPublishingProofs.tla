------------------------- MODULE PostPublishingProofs -------------------------
(***************************************************************************)
(* Proofs about PostPublishing, for any posts, channels and goroutines:    *)
(* first what the worker does with the variants it takes, then what a      *)
(* schedule leaves in the tables (which posts a worker may send, which     *)
(* variants a scheduled post has and, when the version column is compared  *)
(* on every write, that the stored statuses follow PostLifecycle).         *)
(***************************************************************************)
EXTENDS PostPublishing, TLAPS

\* Every transition of the Post aggregate yields a post.
LEMMA PostTransitionTypes ==
    ASSUME NEW post \in PostRow
    PROVE  /\ SubmitForValidation(post) \in PostRow
           /\ Validate(post) \in PostRow
           /\ Reject(post) \in PostRow
           /\ Schedule(post) \in PostRow
           /\ Cancel(post) \in PostRow
           /\ Stored(post) \in PostRow
  <1>1. ASSUME NEW to \in PostStatuses PROVE MovedTo(post, to) \in PostRow
    BY DEF MovedTo, PostRow
  <1>2. SubmitForValidation(post) \in PostRow /\ Validate(post) \in PostRow
    BY <1>1 DEF SubmitForValidation, Validate, PostStatuses
  <1>3. Reject(post) \in PostRow
    BY <1>1 DEF Reject, PostStatuses
  <1>4. Schedule(post) \in PostRow
    BY <1>1 DEF Schedule, PostStatuses, PostRow
  <1>5. Cancel(post) \in PostRow
    BY <1>1 DEF Cancel, PostStatuses, PostRow
  <1>6. Stored(post) \in PostRow
    BY DEF Stored, PostRow
  <1> QED
    BY <1>2, <1>3, <1>4, <1>5, <1>6

LEMMA NewPostType == NewPost \in PostRow
  BY DEF NewPost, PostRow, PostStatuses

\* Every method of the Channel aggregate yields a channel.
LEMMA ChannelMethodTypes ==
    ASSUME NEW channel \in ChannelRow
    PROVE  /\ RecordPublicationFailure(channel) \in ChannelRow
           /\ ResetFailureCount(channel) \in ChannelRow
           /\ SetStatus(channel, "disconnected") \in ChannelRow
  <1>1. RecordPublicationFailure(channel) \in ChannelRow
    BY DEF RecordPublicationFailure, ChannelRow, ChannelStatuses
  <1>2. ResetFailureCount(channel) \in ChannelRow
    BY DEF ResetFailureCount, ChannelRow
  <1>3. SetStatus(channel, "disconnected") \in ChannelRow
    BY DEF SetStatus, ChannelRow, ChannelStatuses
  <1> QED
    BY <1>1, <1>2, <1>3

\* A goroutine that serves nothing is in a state of its kind.
LEMMA IdleTypes ==
    /\ IdleSchedule \in ScheduleState
    /\ [IdleSchedule EXCEPT !.pc = "conflict"] \in ScheduleState
    /\ IdleCancel \in CancelState
    /\ IdleDisconnect \in DisconnectState
    /\ IdleWorker \in WorkerState
  BY DEF IdleSchedule, ScheduleState, IdleCancel, CancelState, IdleDisconnect,
         DisconnectState, IdleWorker, WorkerState, PostOrNone, ChannelOrNone,
         NewPost, PostRow, PostStatuses, NoChannel, ChannelRow, ChannelStatuses

LEMMA TypeOKInit == Init => TypeOK
  <1> SUFFICES ASSUME Init PROVE TypeOK
    OBVIOUS
  <1> USE ConstantsAssumption DEF ConstantsAssumption
  <1>1. posts \in [Posts -> PostRow]
    <2>1. ASSUME NEW s \in PostStarts PROVE InitialPost(s) \in PostRow
      BY DEF InitialPost, PostRow, PostStatuses
    <2>2. PICK start \in [Posts -> PostStarts] :
             posts = [p \in Posts |-> InitialPost(start[p])]
      BY DEF Init
    <2>3. \A p \in Posts : InitialPost(start[p]) \in PostRow
      BY <2>1
    <2> QED
      BY <2>2, <2>3
  <1>2. targets \in [Posts -> SUBSET Channels]
    BY DEF Init
  <1>3. variants \in [Posts -> [Channels -> VariantStatuses]]
    BY DEF Init, VariantStatuses
  <1>4. channels \in [Channels -> ChannelRow]
    <2>1. ASSUME NEW s \in ChannelStarts
          PROVE  [status |-> s, failures |-> 0] \in ChannelRow
      BY DEF ChannelRow
    <2>2. PICK start \in [Channels -> ChannelStarts] :
             channels = [c \in Channels |-> [status |-> start[c], failures |-> 0]]
      BY DEF Init
    <2>3. \A c \in Channels : [status |-> start[c], failures |-> 0] \in ChannelRow
      BY <2>1
    <2> QED
      BY <2>2, <2>3
  <1>5. /\ schedule \in [Schedulers -> ScheduleState]
        /\ cancel \in [Cancellers -> CancelState]
        /\ disconnect \in [Disconnecters -> DisconnectState]
        /\ worker \in [Workers -> WorkerState]
    BY IdleTypes DEF Init
  <1>6. /\ posted \in [Posts -> [Channels -> 0..MaxPosted]]
        /\ reported \in [Posts -> {"none", "virus", "failed", "published"}]
        /\ streak \in [Channels -> 0..ChannelErrorThreshold]
        /\ quarantined \subseteq Posts
    BY DEF Init, ChannelErrorThreshold
  <1> QED
    BY <1>1, <1>2, <1>3, <1>4, <1>5, <1>6
       DEF TypeOK, TablesTyped, RequestsTyped, HistoryTyped

LEMMA TypeOKSchedule ==
    ASSUME TypeOK, NEW s \in Schedulers, ScheduleNext(s)
    PROVE  TypeOK'
  <1> USE DEF tables, requests, history
  <1>0. ASSUME NEW r \in ScheduleState, schedule' = [schedule EXCEPT ![s] = r],
               UNCHANGED <<tables, cancel, disconnect, worker, history>>
        PROVE  TypeOK'
    BY <1>0 DEF TypeOK, TablesTyped, RequestsTyped, HistoryTyped
  <1>1. ASSUME NEW p \in Posts, NEW chans \in (SUBSET Channels) \ {{}},
               ScheduleLoad(s, p, chans)
        PROVE  TypeOK'
    <2>1. [pc |-> "media", post |-> p, read |-> posts[p],
           chans |-> chans, todo |-> {}] \in ScheduleState
      BY DEF TypeOK, TablesTyped, ScheduleState, PostOrNone
    <2> QED
      BY <1>0, <1>1, <2>1 DEF ScheduleLoad
  <1>2. CASE ScheduleCheckMedia(s)
    <2>1. [schedule[s] EXCEPT !.pc = "channels", !.todo = schedule[s].chans]
             \in ScheduleState
      BY <1>2 DEF TypeOK, RequestsTyped, ScheduleState, ScheduleCheckMedia
    <2> QED
      BY <1>0, <1>2, <2>1 DEF ScheduleCheckMedia
  <1>3. ASSUME NEW c \in Channels, NEW tokenValid \in BOOLEAN,
               ScheduleCheckChannel(s, c, tokenValid)
        PROVE  TypeOK'
    <2>1. [schedule[s] EXCEPT
              !.todo = schedule[s].todo \ {c},
              !.pc = IF schedule[s].todo = {c} THEN "date" ELSE "channels"]
             \in ScheduleState
      BY <1>3 DEF TypeOK, RequestsTyped, ScheduleState, ScheduleCheckChannel
    <2> QED
      BY <1>0, <1>3, <2>1 DEF ScheduleCheckChannel
  <1>4. CASE ScheduleRefuse(s) \/ ScheduleDies(s)
    BY <1>0, <1>4, IdleTypes DEF ScheduleRefuse, ScheduleDies
  <1>5. CASE ScheduleDate(s)
    <2>1. [schedule[s] EXCEPT !.pc = "variants", !.todo = schedule[s].chans]
             \in ScheduleState
      BY <1>5 DEF TypeOK, RequestsTyped, ScheduleState, ScheduleDate
    <2> QED
      BY <1>0, <1>5, <2>1 DEF ScheduleDate
  <1>6. ASSUME NEW c \in Channels, ScheduleCreateVariant(s, c)
        PROVE  TypeOK'
    <2>1. [schedule[s] EXCEPT !.todo = schedule[s].todo \ {c}] \in ScheduleState
      BY DEF TypeOK, RequestsTyped, ScheduleState
    <2>2. RequestsTyped'
      BY <1>6, <2>1 DEF ScheduleCreateVariant, TypeOK, RequestsTyped
    <2>3. schedule[s].post \in Posts
      BY <1>6 DEF ScheduleCreateVariant, TypeOK, RequestsTyped, ScheduleState
    <2>4. variants' \in [Posts -> [Channels -> VariantStatuses]]
      <3> DEFINE v == IF variants[schedule[s].post][c] = "none" THEN "pending"
                      ELSE variants[schedule[s].post][c]
      <3>1. variants \in [Posts -> [Channels -> VariantStatuses]]
        BY DEF TypeOK, TablesTyped
      <3>2. v \in VariantStatuses
        BY <2>3, <3>1 DEF VariantStatuses
      <3>3. PICK status \in VariantStatuses :
               \/ variants' = [variants EXCEPT ![schedule[s].post][c] = status]
               \/ UNCHANGED variants
        BY <1>6, <3>2 DEF ScheduleCreateVariant
      <3> QED
        BY <2>3, <3>1, <3>3
    <2>5. TablesTyped'
      BY <1>6, <2>4 DEF ScheduleCreateVariant, TypeOK, TablesTyped
    <2> QED
      BY <1>6, <2>2, <2>5 DEF ScheduleCreateVariant, TypeOK, HistoryTyped
  <1>7. CASE ScheduleSave(s)
    <2> DEFINE p == schedule[s].post
    <2>1. p \in Posts /\ schedule[s].read \in PostRow
          /\ schedule[s].chans \in SUBSET Channels
      BY <1>7 DEF TypeOK, RequestsTyped, ScheduleState, ScheduleSave
    <2>2. Stored(Schedule(schedule[s].read)) \in PostRow
      BY <2>1, PostTransitionTypes
    <2>3. TablesTyped'
      BY <1>7, <2>1, <2>2 DEF ScheduleSave, UpdatePost, TypeOK, TablesTyped
    <2>4. RequestsTyped'
      BY <1>7, IdleTypes DEF ScheduleSave, TypeOK, RequestsTyped
    <2>5. HistoryTyped'
      BY <1>7, <2>1 DEF ScheduleSave, TypeOK, HistoryTyped
    <2> QED
      BY <2>3, <2>4, <2>5 DEF TypeOK
  <1> QED
    BY <1>1, <1>2, <1>3, <1>4, <1>5, <1>6, <1>7 DEF ScheduleNext, ScheduleStep

LEMMA TypeOKCancel ==
    ASSUME TypeOK, NEW k \in Cancellers, CancelNext(k)
    PROVE  TypeOK'
  <1> USE DEF tables, requests, history
  <1>1. ASSUME NEW p \in Posts, CancelLoad(k, p) PROVE TypeOK'
    <2>1. [pc |-> "save", post |-> p, read |-> posts[p]] \in CancelState
      BY DEF TypeOK, TablesTyped, CancelState, PostOrNone
    <2> QED
      BY <1>1, <2>1
         DEF CancelLoad, TypeOK, TablesTyped, RequestsTyped, HistoryTyped
  <1>2. CASE CancelSave(k)
    <2>1. cancel[k].post \in Posts /\ cancel[k].read \in PostRow
      BY <1>2 DEF TypeOK, RequestsTyped, CancelState, CancelSave
    <2>2. Stored(Cancel(cancel[k].read)) \in PostRow
      BY <2>1, PostTransitionTypes
    <2>3. TablesTyped'
      BY <1>2, <2>1, <2>2 DEF CancelSave, UpdatePost, TypeOK, TablesTyped
    <2>4. [cancel[k] EXCEPT !.pc = "conflict"] \in CancelState
      BY DEF TypeOK, RequestsTyped, CancelState
    <2>5. RequestsTyped'
      BY <1>2, <2>4, IdleTypes DEF CancelSave, TypeOK, RequestsTyped
    <2> QED
      BY <1>2, <2>3, <2>5 DEF CancelSave, TypeOK, HistoryTyped
  <1>3. CASE CancelDies(k)
    BY <1>3, IdleTypes
       DEF CancelDies, TypeOK, TablesTyped, RequestsTyped, HistoryTyped
  <1> QED
    BY <1>1, <1>2, <1>3 DEF CancelNext

LEMMA TypeOKDisconnect ==
    ASSUME TypeOK, NEW d \in Disconnecters, DisconnectNext(d)
    PROVE  TypeOK'
  <1> USE DEF tables, requests, history
  <1>0. ASSUME NEW r \in DisconnectState,
               disconnect' = [disconnect EXCEPT ![d] = r],
               UNCHANGED <<schedule, cancel, worker, history>>, TablesTyped'
        PROVE  TypeOK'
    BY <1>0 DEF TypeOK, RequestsTyped, HistoryTyped
  <1>1. ASSUME NEW c \in Channels, DisconnectLoad(d, c) PROVE TypeOK'
    <2>1. SetStatus(channels[c], "disconnected") \in ChannelRow
      BY ChannelMethodTypes DEF TypeOK, TablesTyped
    <2>2. [IdleDisconnect EXCEPT
              !.pc = "list", !.chan = c,
              !.row = SetStatus(channels[c], "disconnected")] \in DisconnectState
      BY <2>1, IdleTypes DEF DisconnectState, ChannelOrNone
    <2> QED
      BY <1>0, <1>1, <2>2 DEF DisconnectLoad, TypeOK, TablesTyped
  <1>2. CASE DisconnectList(d)
    <2> DEFINE rows(listed) == [p \in Posts |-> IF p \in listed THEN posts[p]
                                                              ELSE NewPost]
    <2>1. PICK listed \in SUBSET Posts :
             disconnect' = [disconnect EXCEPT ![d].pc = "cancel",
                                              ![d].todo = listed,
                                              ![d].read = rows(listed)]
      BY <1>2 DEF DisconnectList
    <2>2. rows(listed) \in [Posts -> PostRow]
      BY NewPostType DEF TypeOK, TablesTyped
    <2> HIDE DEF rows
    <2>3. [disconnect[d] EXCEPT !.pc = "cancel",
                                !.todo = listed,
                                !.read = rows(listed)] \in DisconnectState
      BY <1>2, <2>2 DEF DisconnectList, TypeOK, RequestsTyped, DisconnectState
    <2>4. disconnect' = [disconnect EXCEPT ![d] =
             [disconnect[d] EXCEPT !.pc = "cancel",
                                   !.todo = listed,
                                   !.read = rows(listed)]]
      BY <2>1
    <2>5. TablesTyped'
      BY <1>2 DEF DisconnectList, TypeOK, TablesTyped
    <2> QED
      BY <1>0, <1>2, <2>3, <2>4, <2>5 DEF DisconnectList
  <1>3. ASSUME NEW p \in Posts, DisconnectCancelPost(d, p) PROVE TypeOK'
    <2>1. disconnect[d].read \in [Posts -> PostRow]
      BY DEF TypeOK, RequestsTyped, DisconnectState
    <2>2. Stored(Cancel(disconnect[d].read[p])) \in PostRow
      BY <2>1, PostTransitionTypes
    <2>3. TablesTyped'
      BY <1>3, <2>2
         DEF DisconnectCancelPost, UpdatePost, TypeOK, TablesTyped
    <2>4. [disconnect[d].read EXCEPT ![p] = NewPost] \in [Posts -> PostRow]
      BY <2>1, NewPostType
    <2>5. [disconnect[d] EXCEPT
              !.todo = disconnect[d].todo \ {p},
              !.read = [disconnect[d].read EXCEPT ![p] = NewPost]]
             \in DisconnectState
      BY <1>3, <2>4
         DEF DisconnectCancelPost, TypeOK, RequestsTyped, DisconnectState
    <2>6. disconnect' = [disconnect EXCEPT ![d] =
             [disconnect[d] EXCEPT
                !.todo = disconnect[d].todo \ {p},
                !.read = [disconnect[d].read EXCEPT ![p] = NewPost]]]
      BY <1>3 DEF DisconnectCancelPost
    <2> QED
      BY <1>0, <1>3, <2>3, <2>5, <2>6 DEF DisconnectCancelPost
  <1>4. CASE DisconnectSave(d)
    <2>1. disconnect[d].row \in ChannelRow /\ disconnect[d].chan \in Channels
      BY <1>4 DEF DisconnectSave, TypeOK, RequestsTyped, DisconnectState
    <2>2. TablesTyped'
      BY <1>4, <2>1 DEF DisconnectSave, TypeOK, TablesTyped
    <2> QED
      BY <1>0, <1>4, <2>2, IdleTypes DEF DisconnectSave
  <1>5. CASE DisconnectDies(d)
    BY <1>0, <1>5, IdleTypes DEF DisconnectDies, TypeOK, TablesTyped
  <1> QED
    BY <1>1, <1>2, <1>3, <1>4, <1>5 DEF DisconnectNext, DisconnectStep

\* What a busy worker knows about its execution.
LEMMA BusyWorker ==
    ASSUME TypeOK, NEW w \in Workers, worker[w].pc # "idle"
    PROVE  /\ worker[w].post \in Posts
           /\ worker[w].read \in PostRow
           /\ worker[w].row \in ChannelRow
           /\ worker[w].done \in SUBSET Channels
           /\ worker[w].pc \notin {"media", "virus", "load", "next"} =>
                 worker[w].chan \in Channels
  BY DEF TypeOK, RequestsTyped, WorkerState

LEMMA NextVariantType ==
    ASSUME TypeOK, NEW w \in Workers, worker[w].pc # "idle"
    PROVE  NextVariant(w) \in WorkerState
  <1>1. NoChannel \in ChannelRow
    BY DEF NoChannel, ChannelRow, ChannelStatuses
  <1> QED
    BY <1>1 DEF TypeOK, RequestsTyped, WorkerState, NextVariant, ChannelOrNone

LEMMA TypeOKWorker ==
    ASSUME TypeOK, NEW w \in Workers, PublishNext(w)
    PROVE  TypeOK'
  <1> USE DEF tables, requests, history
  <1>0. ASSUME NEW r \in WorkerState, worker' = [worker EXCEPT ![w] = r],
               UNCHANGED <<schedule, cancel, disconnect>>,
               TablesTyped', HistoryTyped'
        PROVE  TypeOK'
    BY <1>0 DEF TypeOK, RequestsTyped
  <1>a. UNCHANGED tables => TablesTyped'
    BY DEF TypeOK, TablesTyped
  <1>b. UNCHANGED history => HistoryTyped'
    BY DEF TypeOK, HistoryTyped
  <1>1. ASSUME NEW p \in Posts, PublishLoad(w, p) PROVE TypeOK'
    <2>1. [IdleWorker EXCEPT !.pc = "media", !.post = p, !.read = posts[p]]
             \in WorkerState
      BY IdleTypes DEF TypeOK, TablesTyped, WorkerState, PostOrNone
    <2> QED
      BY <1>0, <1>a, <1>b, <1>1, <2>1 DEF PublishLoad
  <1>2. CASE PublishCheckMedia(w)
    <2>1. [worker[w] EXCEPT !.pc = "virus"] \in WorkerState
          /\ [worker[w] EXCEPT !.pc = "load"] \in WorkerState
      BY <1>2, BusyWorker
         DEF PublishCheckMedia, TypeOK, RequestsTyped, WorkerState
    <2> QED
      BY <1>0, <1>a, <1>b, <1>2, <2>1 DEF PublishCheckMedia
  <1>3. ASSUME WriteBack(w), worker[w].pc # "idle",
               UNCHANGED <<variants, channels, quarantined>>
        PROVE  TablesTyped'
    <2>1. Stored(worker[w].read) \in PostRow
      BY <1>3, BusyWorker, PostTransitionTypes
    <2> QED
      BY <1>3, <2>1, BusyWorker
         DEF WriteBack, UpdatePost, TypeOK, TablesTyped
  <1>4. ASSUME NEW result \in {"virus", "failed", "published"}, Report(w, result),
               worker[w].pc # "idle", UNCHANGED <<posted, targets, streak>>
        PROVE  HistoryTyped'
    BY <1>4, BusyWorker DEF Report, TypeOK, HistoryTyped
  <1>5. CASE PublishVirus(w)
    BY <1>0, <1>3, <1>4, <1>5, IdleTypes DEF PublishVirus, Report
  <1>6. CASE PublishLoadVariants(w)
    <2> DEFINE found == {c \in Channels : variants[worker[w].post][c] # "none"}
    <2>1. [worker[w] EXCEPT !.pc = "next", !.todo = found] \in WorkerState
      BY <1>6, BusyWorker
         DEF PublishLoadVariants, TypeOK, RequestsTyped, WorkerState
    <2> QED
      BY <1>0, <1>a, <1>b, <1>6, <2>1, IdleTypes DEF PublishLoadVariants
  <1>7. ASSUME NEW c \in Channels, NEW tokenValid \in BOOLEAN,
               PublishLoadChannel(w, c, tokenValid)
        PROVE  TypeOK'
    <2>1. ASSUME NEW pc \in {"send", "refused"}
          PROVE  [worker[w] EXCEPT !.chan = c, !.row = channels[c], !.pc = pc]
                    \in WorkerState
      <3>1. worker[w] \in WorkerState /\ channels[c] \in ChannelRow
        BY DEF TypeOK, TablesTyped, RequestsTyped
      <3>2. worker[w].post \in Posts
        BY <1>7, BusyWorker DEF PublishLoadChannel
      <3> QED
        BY <2>1, <3>1, <3>2 DEF WorkerState, ChannelOrNone
    <2>2. PICK pc \in {"send", "refused"} :
             worker' = [worker EXCEPT ![w] =
                [worker[w] EXCEPT !.chan = c, !.row = channels[c], !.pc = pc]]
      BY <1>7 DEF PublishLoadChannel
    <2> QED
      BY <1>0, <1>a, <1>b, <1>7, <2>1, <2>2 DEF PublishLoadChannel
  <1>8. ASSUME NEW to \in VariantStatuses, MarkVariant(w, to),
               worker[w].post \in Posts, worker[w].chan \in Channels,
               UNCHANGED <<posts, channels, quarantined>>
        PROVE  TablesTyped'
    <2>1. variants' \in [Posts -> [Channels -> VariantStatuses]]
      BY <1>8 DEF MarkVariant, TypeOK, TablesTyped
    <2> QED
      BY <1>8, <2>1 DEF TypeOK, TablesTyped
  <1>9. CASE PublishRefused(w)
    BY <1>0, <1>b, <1>8, <1>9, BusyWorker, NextVariantType
       DEF PublishRefused, VariantStatuses
  <1>10. CASE PublishSend(w)
    <2>1. \A n \in 0..MaxPosted : CountedPost(n) \in 0..MaxPosted
      BY ConstantsAssumption DEF ConstantsAssumption, CountedPost
    <2>2. HistoryTyped'
      <3>1. worker[w].post \in Posts /\ worker[w].chan \in Channels
        BY <1>10, BusyWorker DEF PublishSend
      <3>2. CountedPost(posted[worker[w].post][worker[w].chan]) \in 0..MaxPosted
        BY <2>1, <3>1 DEF TypeOK, HistoryTyped
      <3>3. PICK n \in 0..MaxPosted :
               \/ posted' = [posted EXCEPT ![worker[w].post][worker[w].chan] = n]
               \/ UNCHANGED posted
        BY <1>10, <3>2 DEF PublishSend
      <3>4. posted' \in [Posts -> [Channels -> 0..MaxPosted]]
        BY <3>1, <3>3 DEF TypeOK, HistoryTyped
      <3> QED
        BY <1>10, <3>4 DEF PublishSend, TypeOK, HistoryTyped
    <2>3. [worker[w] EXCEPT !.pc = "sent"] \in WorkerState
          /\ [worker[w] EXCEPT !.pc = "failed"] \in WorkerState
      BY <1>10, BusyWorker DEF PublishSend, TypeOK, RequestsTyped, WorkerState
    <2> QED
      BY <1>0, <1>a, <1>10, <2>2, <2>3, NextVariantType DEF PublishSend
  <1>11. CASE PublishMarkPublished(w) \/ PublishMarkFailed(w)
    <2>1. [worker[w] EXCEPT !.pc = "reset"] \in WorkerState
          /\ [worker[w] EXCEPT !.pc = "record"] \in WorkerState
      BY <1>11, BusyWorker DEF PublishMarkPublished, PublishMarkFailed,
                               TypeOK, RequestsTyped, WorkerState
    <2> QED
      BY <1>0, <1>b, <1>8, <1>11, <2>1, BusyWorker
         DEF PublishMarkPublished, PublishMarkFailed, VariantStatuses
  <1>12. ASSUME NEW row \in ChannelRow, UpdateChannel(w, row),
                worker[w].chan \in Channels,
                UNCHANGED <<posts, variants, quarantined>>
         PROVE  TablesTyped'
    BY <1>12 DEF UpdateChannel, TypeOK, TablesTyped
  <1>13. CASE PublishResetFailures(w)
    <2>1. [NextVariant(w) EXCEPT !.done = NextVariant(w).done \cup {worker[w].chan}]
             \in WorkerState
      BY <1>13, BusyWorker, NextVariantType DEF PublishResetFailures, WorkerState
    <2>2. HistoryTyped'
      BY <1>13, BusyWorker
         DEF PublishResetFailures, TypeOK, HistoryTyped, ChannelErrorThreshold
    <2>3. ResetFailureCount(worker[w].row) \in ChannelRow
      BY <1>13, BusyWorker, ChannelMethodTypes DEF PublishResetFailures
    <2> QED
      BY <1>0, <1>12, <1>13, <2>1, <2>2, <2>3, BusyWorker
         DEF PublishResetFailures
  <1>14. CASE PublishRecordFailure(w)
    <2>1. HistoryTyped'
      BY <1>14, BusyWorker
         DEF PublishRecordFailure, TypeOK, HistoryTyped, ChannelErrorThreshold
    <2>2. RecordPublicationFailure(worker[w].row) \in ChannelRow
      BY <1>14, BusyWorker, ChannelMethodTypes DEF PublishRecordFailure
    <2> QED
      BY <1>0, <1>12, <1>14, <2>1, <2>2, BusyWorker, NextVariantType
         DEF PublishRecordFailure
  <1>15. CASE PublishFinish(w)
    BY <1>0, <1>3, <1>4, <1>15, IdleTypes DEF PublishFinish, Report
  <1>16. CASE PublishDies(w)
    BY <1>0, <1>a, <1>b, <1>16, IdleTypes DEF PublishDies
  <1> QED
    BY <1>1, <1>2, <1>5, <1>6, <1>7, <1>9, <1>10, <1>11, <1>13, <1>14, <1>15,
       <1>16 DEF PublishNext, PublishStep

LEMMA TypeOKEditorial ==
    ASSUME TypeOK, NEW p \in Posts, Review(p) \/ Quarantine(p)
    PROVE  TypeOK'
  <1> USE DEF tables, requests, history
  <1>1. CASE Review(p)
    <2>1. posts[p] \in PostRow
      BY DEF TypeOK, TablesTyped
    <2>2. TablesTyped'
      BY <1>1, <2>1, PostTransitionTypes DEF Review, TypeOK, TablesTyped
    <2> QED
      BY <1>1, <2>2 DEF Review, TypeOK, RequestsTyped, HistoryTyped
  <1>2. CASE Quarantine(p)
    BY <1>2 DEF Quarantine, TypeOK, TablesTyped, RequestsTyped, HistoryTyped
  <1> QED
    BY <1>1, <1>2

\* Every variable always holds a value of its kind: no interleaving of the
\* requests, and no fault, makes one of them work on a missing row.
THEOREM TypeCorrect == Spec => []TypeOK
  <1>1. Init => TypeOK
    BY TypeOKInit
  <1>2. TypeOK /\ [Next]_vars => TypeOK'
    <2> SUFFICES ASSUME TypeOK, [Next]_vars PROVE TypeOK'
      OBVIOUS
    <2>1. CASE Next
      BY <2>1, TypeOKSchedule, TypeOKCancel, TypeOKDisconnect, TypeOKWorker,
         TypeOKEditorial DEF Next
    <2>2. CASE UNCHANGED vars
      BY <2>2 DEF vars, TypeOK, TablesTyped, RequestsTyped, HistoryTyped
    <2> QED
      BY <2>1, <2>2
  <1> QED
    BY <1>1, <1>2, PTL DEF Spec
-------------------------------------------------------------------------------
(***************************************************************************)
(* What the steps of a goroutine of each kind leave alone.                 *)
(***************************************************************************)
LEMMA EditorialFrame ==
    ASSUME NEW p \in Posts, Review(p) \/ Quarantine(p)
    PROVE  UNCHANGED <<variants, channels, requests, history>>
  BY DEF Review, Quarantine

LEMMA ScheduleFrame ==
    ASSUME NEW s \in Schedulers, ScheduleNext(s)
    PROVE  UNCHANGED <<channels, quarantined, cancel, disconnect, worker,
                       posted, reported, streak>>
  BY DEF ScheduleNext, ScheduleStep, ScheduleLoad, ScheduleCheckMedia,
         ScheduleCheckChannel, ScheduleRefuse, ScheduleDate, ScheduleCreateVariant,
         ScheduleSave, ScheduleDies, tables, history

LEMMA CancelFrame ==
    ASSUME NEW k \in Cancellers, CancelNext(k)
    PROVE  UNCHANGED <<variants, channels, quarantined, schedule, disconnect,
                       worker, history>>
  BY DEF CancelNext, CancelLoad, CancelSave, CancelDies, tables

LEMMA DisconnectFrame ==
    ASSUME NEW d \in Disconnecters, DisconnectNext(d)
    PROVE  UNCHANGED <<variants, quarantined, schedule, cancel, worker, history>>
  BY DEF DisconnectNext, DisconnectStep, DisconnectLoad, DisconnectList,
         DisconnectCancelPost, DisconnectSave, DisconnectDies, tables

LEMMA PublishFrame ==
    ASSUME NEW w \in Workers, PublishNext(w)
    PROVE  UNCHANGED <<quarantined, schedule, cancel, disconnect, targets>>
  BY DEF PublishNext, PublishStep, PublishLoad, PublishCheckMedia, PublishVirus,
         PublishLoadVariants, PublishLoadChannel, PublishRefused, PublishSend,
         PublishMarkPublished, PublishResetFailures, PublishMarkFailed,
         PublishRecordFailure, PublishFinish, PublishDies, tables, history
-------------------------------------------------------------------------------
(***************************************************************************)
(* C-4.  A worker writes back the channel it loaded before the platform    *)
(* answered, so the stored rows alone are not inductive: the row a worker  *)
(* holds was in service, hence below the threshold, when it was loaded,    *)
(* and the row a disconnection holds is already out of service.            *)
(***************************************************************************)
Retired(row) == row.failures >= ChannelErrorThreshold => ~CanPublish(row, TRUE)

Publishing == {"send", "sent", "reset", "failed", "record"}

ThresholdInv ==
    /\ \A c \in Channels : Retired(channels[c])
    /\ \A d \in Disconnecters :
          disconnect[d].pc # "idle" => Retired(disconnect[d].row)
    /\ \A w \in Workers :
          worker[w].pc \in Publishing =>
             worker[w].row.failures < ChannelErrorThreshold

LEMMA RowsStayRetired ==
    ASSUME NEW row \in ChannelRow
    PROVE  /\ Retired(SetStatus(row, "disconnected"))
           /\ Retired(ResetFailureCount(row))
           /\ row.failures < ChannelErrorThreshold =>
                 Retired(RecordPublicationFailure(row))
           /\ Retired(row) /\ (\E tokenValid \in BOOLEAN : CanPublish(row, tokenValid))
                 => row.failures < ChannelErrorThreshold
  <1>1. Retired(SetStatus(row, "disconnected"))
    BY DEF Retired, SetStatus, CanPublish, ChannelRow
  <1>2. Retired(ResetFailureCount(row))
    BY DEF Retired, ResetFailureCount, ChannelErrorThreshold, ChannelRow
  <1>3. ASSUME row.failures < ChannelErrorThreshold
        PROVE  Retired(RecordPublicationFailure(row))
    BY <1>3 DEF Retired, RecordPublicationFailure, CanPublish
  <1>4. ASSUME Retired(row), NEW tokenValid \in BOOLEAN, CanPublish(row, tokenValid)
        PROVE  row.failures < ChannelErrorThreshold
    BY <1>4 DEF Retired, CanPublish, ChannelRow, ChannelErrorThreshold
  <1> QED
    BY <1>1, <1>2, <1>3, <1>4

LEMMA ThresholdDisconnect ==
    ASSUME TypeOK, ThresholdInv, NEW d \in Disconnecters, DisconnectNext(d)
    PROVE  ThresholdInv'
  <1> USE DEF ThresholdInv
  <1>1. UNCHANGED worker
    BY DisconnectFrame
  <1>2. ASSUME NEW c \in Channels, DisconnectLoad(d, c)
        PROVE  ThresholdInv'
    <2>1. Retired(SetStatus(channels[c], "disconnected"))
      BY RowsStayRetired DEF TypeOK, TablesTyped
    <2> QED
      BY <1>1, <1>2, <2>1 DEF DisconnectLoad, IdleDisconnect, TypeOK,
                              RequestsTyped, DisconnectState, tables
  <1>3. ASSUME UNCHANGED channels,
               \A e \in Disconnecters :
                  /\ disconnect'[e].row = disconnect[e].row
                  /\ disconnect'[e].pc # "idle" => disconnect[e].pc # "idle"
        PROVE  ThresholdInv'
    BY <1>1, <1>3
  <1>a. CASE DisconnectList(d)
    BY <1>3, <1>a DEF DisconnectList, TypeOK, RequestsTyped, DisconnectState, tables
  <1>b. ASSUME NEW p \in Posts, DisconnectCancelPost(d, p) PROVE ThresholdInv'
    BY <1>3, <1>b DEF DisconnectCancelPost, TypeOK, RequestsTyped, DisconnectState
  <1>4. CASE DisconnectSave(d)
    <2>1. disconnect[d].pc # "idle"
      BY <1>4 DEF DisconnectSave
    <2>2. \A c \in Channels : Retired(channels'[c])
      BY <1>4, <2>1 DEF DisconnectSave, TypeOK, TablesTyped
    <2>3. \A e \in Disconnecters :
             disconnect'[e].pc # "idle" => disconnect'[e] = disconnect[e]
      BY <1>4 DEF DisconnectSave, IdleDisconnect, TypeOK, RequestsTyped
    <2> QED
      BY <1>1, <2>2, <2>3
  <1>5. CASE DisconnectDies(d)
    BY <1>1, <1>5 DEF DisconnectDies, IdleDisconnect, TypeOK, RequestsTyped,
                      DisconnectState, tables
  <1> QED
    BY <1>2, <1>a, <1>b, <1>4, <1>5 DEF DisconnectNext, DisconnectStep

LEMMA ThresholdPublish ==
    ASSUME TypeOK, ThresholdInv, NEW w \in Workers, PublishNext(w)
    PROVE  ThresholdInv'
  <1> USE DEF ThresholdInv
  <1>1. UNCHANGED disconnect
    BY PublishFrame
  \* A step that leaves the channels alone and gives the worker no new row.
  <1>2. ASSUME UNCHANGED channels,
               \A x \in Workers : worker'[x].pc \in Publishing =>
                  worker[x].pc \in Publishing /\ worker'[x].row = worker[x].row
        PROVE  ThresholdInv'
    BY <1>1, <1>2
  <1>3. \A x \in Workers : NextVariant(x).pc = "next" /\ IdleWorker.pc = "idle"
    BY DEF NextVariant, IdleWorker, TypeOK, RequestsTyped, WorkerState
  <1>4. ASSUME NEW p \in Posts, PublishLoad(w, p) PROVE ThresholdInv'
    BY <1>2, <1>4
       DEF PublishLoad, IdleWorker, Publishing, TypeOK, RequestsTyped, tables
  <1>5. CASE PublishCheckMedia(w) \/ PublishLoadVariants(w)
    BY <1>2, <1>3, <1>5 DEF PublishCheckMedia, PublishLoadVariants, Publishing,
                            TypeOK, RequestsTyped, WorkerState, tables
  <1>6. CASE PublishVirus(w) \/ PublishFinish(w) \/ PublishDies(w)
    BY <1>2, <1>3, <1>6 DEF PublishVirus, PublishFinish, PublishDies, Report,
                            Publishing, TypeOK, RequestsTyped, tables
  <1>7. ASSUME NEW c \in Channels, NEW tokenValid \in BOOLEAN,
               PublishLoadChannel(w, c, tokenValid)
        PROVE  ThresholdInv'
    <2>1. channels[c] \in ChannelRow /\ UNCHANGED channels
      BY <1>7 DEF PublishLoadChannel, TypeOK, TablesTyped, tables
    <2>2. worker'[w].row = channels[c]
          /\ (worker'[w].pc \in Publishing => CanPublish(channels[c], tokenValid))
      BY <1>7 DEF PublishLoadChannel, Publishing, TypeOK, RequestsTyped, WorkerState
    <2>3. \A x \in Workers \ {w} : worker'[x] = worker[x]
      BY <1>7 DEF PublishLoadChannel, TypeOK, RequestsTyped
    <2> QED
      BY <1>1, <2>1, <2>2, <2>3, RowsStayRetired
  <1>8. CASE PublishRefused(w) \/ PublishSend(w) \/ PublishMarkPublished(w)
             \/ PublishMarkFailed(w)
    BY <1>2, <1>3, <1>8 DEF PublishRefused, PublishSend, PublishMarkPublished,
       PublishMarkFailed, Publishing, TypeOK, RequestsTyped, WorkerState, tables
  <1>9. ASSUME NEW row \in ChannelRow, Retired(row), UpdateChannel(w, row),
               \A x \in Workers : worker'[x].pc \in Publishing =>
                                     worker'[x] = worker[x]
        PROVE  ThresholdInv'
    <2>1. \A c \in Channels : Retired(channels'[c])
      BY <1>9 DEF UpdateChannel, TypeOK, TablesTyped
    <2> QED
      BY <1>1, <1>9, <2>1
  <1>10. CASE PublishResetFailures(w)
    <2>1. worker[w].row \in ChannelRow
      BY <1>10, BusyWorker DEF PublishResetFailures
    <2>2. ResetFailureCount(worker[w].row) \in ChannelRow
          /\ Retired(ResetFailureCount(worker[w].row))
      BY <2>1, RowsStayRetired, ChannelMethodTypes
    <2>3. [NextVariant(w) EXCEPT !.done = NextVariant(w).done \cup {worker[w].chan}].pc
             = "next"
      BY <1>3 DEF NextVariant
    <2>4. \A x \in Workers : worker'[x].pc \in Publishing => worker'[x] = worker[x]
      BY <1>10, <2>3 DEF PublishResetFailures, Publishing, TypeOK, RequestsTyped
    <2> QED
      BY <1>9, <1>10, <2>2, <2>4 DEF PublishResetFailures
  <1>11. CASE PublishRecordFailure(w)
    <2>1. worker[w].row \in ChannelRow
          /\ worker[w].row.failures < ChannelErrorThreshold
      BY <1>11, BusyWorker DEF PublishRecordFailure, Publishing
    <2>2. RecordPublicationFailure(worker[w].row) \in ChannelRow
          /\ Retired(RecordPublicationFailure(worker[w].row))
      BY <2>1, RowsStayRetired, ChannelMethodTypes
    <2>3. \A x \in Workers : worker'[x].pc \in Publishing => worker'[x] = worker[x]
      BY <1>3, <1>11 DEF PublishRecordFailure, Publishing, TypeOK, RequestsTyped
    <2> QED
      BY <1>9, <1>11, <2>2, <2>3 DEF PublishRecordFailure
  <1> QED
    BY <1>4, <1>5, <1>6, <1>7, <1>8, <1>10, <1>11 DEF PublishNext, PublishStep

LEMMA ThresholdInvariant == Spec => []ThresholdInv
  <1>1. Init => ThresholdInv
    <2> SUFFICES ASSUME Init PROVE ThresholdInv
      OBVIOUS
    <2>1. \A c \in Channels : channels[c].failures = 0
      BY DEF Init
    <2>2. /\ \A d \in Disconnecters : disconnect[d].pc = "idle"
          /\ \A w \in Workers : worker[w].pc = "idle"
      BY DEF Init, IdleDisconnect, IdleWorker
    <2>3. \A c \in Channels : Retired(channels[c])
      BY <2>1 DEF Retired, ChannelErrorThreshold
    <2> QED
      BY <2>2, <2>3 DEF ThresholdInv, Publishing
  <1>2. TypeOK /\ ThresholdInv /\ [Next]_vars => ThresholdInv'
    <2> SUFFICES ASSUME TypeOK, ThresholdInv, [Next]_vars PROVE ThresholdInv'
      OBVIOUS
    <2>1. ASSUME UNCHANGED <<channels, disconnect, worker>> PROVE ThresholdInv'
      BY <2>1 DEF ThresholdInv
    <2>2. CASE UNCHANGED vars
      BY <2>1, <2>2 DEF vars
    <2>3. CASE \E p \in Posts : Review(p) \/ Quarantine(p)
      BY <2>1, <2>3, EditorialFrame DEF requests
    <2>4. CASE \E s \in Schedulers : ScheduleNext(s)
      BY <2>1, <2>4, ScheduleFrame
    <2>5. CASE \E k \in Cancellers : CancelNext(k)
      BY <2>1, <2>5, CancelFrame
    <2> QED
      BY <2>2, <2>3, <2>4, <2>5, ThresholdDisconnect, ThresholdPublish DEF Next
  <1> QED
    BY <1>1, <1>2, TypeCorrect, PTL DEF Spec

\* C-4, for any number of workers, channels and disconnections, with faults or
\* without: a stored channel at the threshold is out of service.
THEOREM ErrorThresholdHolds == Spec => []ErrorThreshold
  <1>1. ThresholdInv => ErrorThreshold
    BY DEF ThresholdInv, ErrorThreshold, Retired
  <1> QED
    BY <1>1, ThresholdInvariant, PTL
-------------------------------------------------------------------------------
(***************************************************************************)
(* C-4 as it is meant, for one worker and no fault.  The row a worker      *)
(* loaded counts the whole streak of its channel, for nobody else records  *)
(* a failure meanwhile; a disconnection may write an older count back, but *)
(* only with a status that takes the channel out of service.               *)
(***************************************************************************)
StreakInv ==
    /\ \A c \in Channels :
          CanPublish(channels[c], TRUE) => streak[c] <= channels[c].failures
    /\ \A d \in Disconnecters :
          disconnect[d].pc # "idle" => ~CanPublish(disconnect[d].row, TRUE)
    /\ \A w \in Workers :
          worker[w].pc \in Publishing =>
             streak[worker[w].chan] <= worker[w].row.failures

LEMMA StreakDisconnect ==
    ASSUME TypeOK, StreakInv, NEW d \in Disconnecters, DisconnectNext(d)
    PROVE  StreakInv'
  <1>1. UNCHANGED <<worker, streak>>
    BY DisconnectFrame DEF history
  <1>2. ASSUME NEW c \in Channels, DisconnectLoad(d, c)
        PROVE  StreakInv'
    <2>1. ~CanPublish(SetStatus(channels[c], "disconnected"), TRUE)
      BY DEF CanPublish, SetStatus, TypeOK, TablesTyped, ChannelRow
    <2> QED
      BY <1>1, <1>2, <2>1 DEF StreakInv, DisconnectLoad, IdleDisconnect, TypeOK,
                              RequestsTyped, DisconnectState, tables
  <1>3. ASSUME UNCHANGED channels,
               \A e \in Disconnecters :
                  /\ disconnect'[e].row = disconnect[e].row
                  /\ disconnect'[e].pc # "idle" => disconnect[e].pc # "idle"
        PROVE  StreakInv'
    BY <1>1, <1>3 DEF StreakInv
  <1>a. CASE DisconnectList(d)
    BY <1>3, <1>a DEF DisconnectList, TypeOK, RequestsTyped, DisconnectState, tables
  <1>b. ASSUME NEW p \in Posts, DisconnectCancelPost(d, p) PROVE StreakInv'
    BY <1>3, <1>b DEF DisconnectCancelPost, TypeOK, RequestsTyped, DisconnectState
  <1>4. CASE DisconnectSave(d)
    <2>1. disconnect[d].pc # "idle"
      BY <1>4 DEF DisconnectSave
    <2>2. \A c \in Channels :
             CanPublish(channels'[c], TRUE) => channels'[c] = channels[c]
      BY <1>4, <2>1 DEF StreakInv, DisconnectSave, TypeOK, TablesTyped
    <2>3. \A e \in Disconnecters :
             disconnect'[e].pc # "idle" => disconnect'[e] = disconnect[e]
      BY <1>4 DEF DisconnectSave, IdleDisconnect, TypeOK, RequestsTyped
    <2> QED
      BY <1>1, <2>2, <2>3 DEF StreakInv
  <1>5. CASE DisconnectDies(d)
    BY <1>1, <1>5 DEF StreakInv, DisconnectDies, IdleDisconnect, TypeOK,
                      RequestsTyped, DisconnectState, tables
  <1> QED
    BY <1>2, <1>a, <1>b, <1>4, <1>5 DEF DisconnectNext, DisconnectStep

LEMMA StreakPublish ==
    ASSUME ~Faults, \A v, w \in Workers : v = w,
           TypeOK, StreakInv, NEW w \in Workers, PublishNext(w)
    PROVE  StreakInv'
  <1>1. UNCHANGED disconnect
    BY PublishFrame
  \* A step that records nothing and gives the worker no new row.
  <1>2. ASSUME UNCHANGED <<channels, streak>>,
               worker'[w].pc \in Publishing =>
                  /\ worker[w].pc \in Publishing
                  /\ worker'[w].row = worker[w].row
                  /\ worker'[w].chan = worker[w].chan
        PROVE  StreakInv'
    BY <1>1, <1>2 DEF StreakInv
  <1>3. NextVariant(w).pc = "next" /\ IdleWorker.pc = "idle"
    BY DEF NextVariant, IdleWorker, TypeOK, RequestsTyped, WorkerState
  <1>4. ASSUME NEW p \in Posts, PublishLoad(w, p) PROVE StreakInv'
    BY <1>2, <1>4 DEF PublishLoad, IdleWorker, Publishing, TypeOK,
                      RequestsTyped, tables, history
  <1>5. CASE PublishCheckMedia(w) \/ PublishLoadVariants(w)
    <2>1. UNCHANGED <<channels, streak>>
      BY <1>5 DEF PublishCheckMedia, PublishLoadVariants, tables, history
    <2>2. worker'[w].pc \notin Publishing
      <3>1. ASSUME PublishCheckMedia(w) PROVE worker'[w].pc \in {"virus", "load"}
        BY <3>1 DEF PublishCheckMedia, TypeOK, RequestsTyped, WorkerState
      <3>2. ASSUME PublishLoadVariants(w) PROVE worker'[w].pc \in {"idle", "next"}
        BY <1>3, <3>2 DEF PublishLoadVariants, TypeOK, RequestsTyped, WorkerState
      <3> QED
        BY <1>5, <3>1, <3>2 DEF Publishing
    <2> QED
      BY <1>2, <2>1, <2>2
  <1>6. CASE PublishVirus(w) \/ PublishFinish(w) \/ PublishDies(w)
    BY <1>2, <1>3, <1>6 DEF PublishVirus, PublishFinish, PublishDies, Report,
                            Publishing, TypeOK, RequestsTyped, tables, history
  <1>7. ASSUME NEW c \in Channels, NEW tokenValid \in BOOLEAN,
               PublishLoadChannel(w, c, tokenValid)
        PROVE  StreakInv'
    <2>1. UNCHANGED <<channels, streak>>
      BY <1>7 DEF PublishLoadChannel, tables, history
    <2>2. /\ worker'[w].row = channels[c]
          /\ worker'[w].chan = c
          /\ worker'[w].pc \in Publishing => CanPublish(channels[c], TRUE)
      BY <1>7 DEF PublishLoadChannel, Publishing, CanPublish, TypeOK,
                  RequestsTyped, WorkerState
    <2> QED
      BY <1>1, <2>1, <2>2 DEF StreakInv
  <1>8. CASE PublishRefused(w) \/ PublishSend(w) \/ PublishMarkPublished(w)
             \/ PublishMarkFailed(w)
    <2>1. UNCHANGED <<channels, streak>>
      BY <1>8 DEF PublishRefused, PublishSend, PublishMarkPublished,
                  PublishMarkFailed, tables, history
    <2>2. worker'[w].pc \in Publishing =>
             /\ worker[w].pc \in Publishing
             /\ worker'[w].row = worker[w].row
             /\ worker'[w].chan = worker[w].chan
      BY <1>3, <1>8 DEF PublishRefused, PublishSend, PublishMarkPublished,
         PublishMarkFailed, Publishing, TypeOK, RequestsTyped, WorkerState
    <2> QED
      BY <1>2, <2>1, <2>2
  \* A step that stores the row the worker holds and counts what it stores.
  <1>9. ASSUME NEW row \in ChannelRow, UpdateChannel(w, row),
               NEW n \in Nat, n <= row.failures,
               streak' = [streak EXCEPT ![worker[w].chan] = n],
               worker'[w].pc = "next"
        PROVE  StreakInv'
    <2>1. channels' = [channels EXCEPT ![worker[w].chan] = row]
      BY <1>9 DEF UpdateChannel
    <2>2. \A c \in Channels :
             CanPublish(channels'[c], TRUE) => streak'[c] <= channels'[c].failures
      BY <1>9, <2>1 DEF StreakInv, TypeOK, TablesTyped, HistoryTyped
    <2>3. \A v \in Workers : worker'[v].pc \notin Publishing
      BY <1>9 DEF Publishing
    <2> QED
      BY <1>1, <2>2, <2>3 DEF StreakInv
  <1>10. CASE PublishResetFailures(w)
    <2>1. worker[w].row \in ChannelRow
      BY <1>10, BusyWorker DEF PublishResetFailures
    <2>2. /\ ResetFailureCount(worker[w].row) \in ChannelRow
          /\ ResetFailureCount(worker[w].row).failures = 0
      BY <2>1, ChannelMethodTypes DEF ResetFailureCount, ChannelRow
    <2>3. [NextVariant(w) EXCEPT !.done = NextVariant(w).done \cup {worker[w].chan}].pc
             = "next"
      BY <1>3 DEF NextVariant
    <2>4. worker'[w].pc = "next"
      BY <1>10, <2>3 DEF PublishResetFailures, TypeOK, RequestsTyped
    <2>5. /\ UpdateChannel(w, ResetFailureCount(worker[w].row))
          /\ streak' = [streak EXCEPT ![worker[w].chan] = 0]
      BY <1>10 DEF PublishResetFailures
    <2> DEFINE row == ResetFailureCount(worker[w].row)
    <2>6. 0 \in Nat /\ 0 <= row.failures /\ row \in ChannelRow
      BY <2>2
    <2> HIDE DEF row
    <2> QED
      BY <1>9, <2>4, <2>5, <2>6 DEF row
  <1>11. CASE PublishRecordFailure(w)
    <2>1. /\ worker[w].row \in ChannelRow
          /\ worker[w].chan \in Channels
          /\ streak[worker[w].chan] <= worker[w].row.failures
      BY <1>11, BusyWorker DEF StreakInv, PublishRecordFailure, Publishing
    <2>2. /\ RecordPublicationFailure(worker[w].row) \in ChannelRow
          /\ RecordPublicationFailure(worker[w].row).failures
                = worker[w].row.failures + 1
      BY <2>1, ChannelMethodTypes DEF RecordPublicationFailure
    <2> DEFINE n == IF streak[worker[w].chan] < ChannelErrorThreshold
                    THEN streak[worker[w].chan] + 1 ELSE streak[worker[w].chan]
    <2>a. streak[worker[w].chan] \in Nat /\ worker[w].row.failures \in Nat
      BY <2>1 DEF TypeOK, HistoryTyped, ChannelErrorThreshold, ChannelRow
    <2>3. n \in Nat /\ n <= worker[w].row.failures + 1
      BY <2>1, <2>a DEF ChannelErrorThreshold
    <2>4. worker'[w].pc = "next"
      BY <1>3, <1>11 DEF PublishRecordFailure, TypeOK, RequestsTyped
    <2>5. /\ UpdateChannel(w, RecordPublicationFailure(worker[w].row))
          /\ streak' = [streak EXCEPT ![worker[w].chan] = n]
      BY <1>11 DEF PublishRecordFailure
    <2> HIDE DEF n
    <2> QED
      BY <1>9, <2>2, <2>3, <2>4, <2>5
  <1> QED
    BY <1>4, <1>5, <1>6, <1>7, <1>8, <1>10, <1>11 DEF PublishNext, PublishStep

\* C-4 where failures are recorded one at a time: with one worker and no failing call,
\* three failed publications in a row take a channel out of service, however
\* schedules, cancellations and disconnections run beside it.
THEOREM ThreeFailuresStopTheChannelHolds ==
    ASSUME ~Faults, \A v, w \in Workers : v = w
    PROVE  Spec => []ThreeFailuresStopTheChannel
  <1>1. Init => StreakInv
    <2> SUFFICES ASSUME Init PROVE StreakInv
      OBVIOUS
    <2>1. \A c \in Channels : streak[c] = 0 /\ channels[c].failures = 0
      BY DEF Init
    <2>2. /\ \A d \in Disconnecters : disconnect[d].pc = "idle"
          /\ \A w \in Workers : worker[w].pc = "idle"
      BY DEF Init, IdleDisconnect, IdleWorker
    <2>3. \A c \in Channels : streak[c] <= channels[c].failures
      BY <2>1
    <2>4. \A w \in Workers : worker[w].pc \notin Publishing
      BY <2>2 DEF Publishing
    <2> QED
      BY <2>2, <2>3, <2>4 DEF StreakInv
  <1>2. TypeOK /\ StreakInv /\ [Next]_vars => StreakInv'
    <2> SUFFICES ASSUME TypeOK, StreakInv, [Next]_vars PROVE StreakInv'
      OBVIOUS
    <2>1. ASSUME UNCHANGED <<channels, disconnect, worker, streak>> PROVE StreakInv'
      BY <2>1 DEF StreakInv
    <2>2. CASE UNCHANGED vars
      BY <2>1, <2>2 DEF vars
    <2>3. CASE \E p \in Posts : Review(p) \/ Quarantine(p)
      BY <2>1, <2>3, EditorialFrame DEF requests, history
    <2>4. CASE \E s \in Schedulers : ScheduleNext(s)
      BY <2>1, <2>4, ScheduleFrame DEF history
    <2>5. CASE \E k \in Cancellers : CancelNext(k)
      BY <2>1, <2>5, CancelFrame DEF history
    <2> QED
      BY <2>2, <2>3, <2>4, <2>5, StreakDisconnect, StreakPublish DEF Next
  <1>3. TypeOK /\ ThresholdInv /\ StreakInv => ThreeFailuresStopTheChannel
    <2> SUFFICES ASSUME TypeOK, ThresholdInv, StreakInv, NEW c \in Channels,
                        streak[c] >= ChannelErrorThreshold
                 PROVE  ~CanPublish(channels[c], TRUE)
      BY DEF ThreeFailuresStopTheChannel
    <2>1. streak[c] \in Nat /\ channels[c].failures \in Nat
      BY DEF TypeOK, TablesTyped, HistoryTyped, ChannelRow, ChannelErrorThreshold
    <2>2. CanPublish(channels[c], TRUE) => streak[c] <= channels[c].failures
      BY DEF StreakInv
    <2>3. CanPublish(channels[c], TRUE) => channels[c].failures >= ChannelErrorThreshold
      BY <2>1, <2>2 DEF ChannelErrorThreshold
    <2> QED
      BY <2>3 DEF ThresholdInv, Retired
  <1> QED
    BY <1>1, <1>2, <1>3, TypeCorrect, ThresholdInvariant, PTL DEF Spec
-------------------------------------------------------------------------------
(***************************************************************************)
(* No variant is marked published before the platform was called: between  *)
(* the answer of the platform and the mark, the call has been counted.     *)
(***************************************************************************)
PostedInv ==
    /\ PublishedVariantWasPosted
    /\ \A w \in Workers :
          worker[w].pc = "sent" => posted[worker[w].post][worker[w].chan] > 0

LEMMA PostedStepWorker ==
    ASSUME TypeOK, PostedInv, NEW w \in Workers, PublishNext(w)
    PROVE  PostedInv'
  <1> USE DEF PostedInv, PublishedVariantWasPosted
  <1>1. NextVariant(w).pc = "next" /\ IdleWorker.pc = "idle"
    BY DEF NextVariant, IdleWorker, TypeOK, RequestsTyped, WorkerState
  \* Steps that mark nothing, send nothing, and do not enter "sent".
  <1>2. ASSUME UNCHANGED <<variants, posted>>,
               \A x \in Workers : worker'[x].pc = "sent" => worker'[x] = worker[x]
        PROVE  PostedInv'
    BY <1>2
  <1>3. ASSUME NEW p \in Posts, PublishLoad(w, p) PROVE PostedInv'
    BY <1>2, <1>3 DEF PublishLoad, IdleWorker, TypeOK, RequestsTyped, tables, history
  <1>4. CASE PublishCheckMedia(w) \/ PublishLoadVariants(w)
    BY <1>1, <1>2, <1>4 DEF PublishCheckMedia, PublishLoadVariants, TypeOK,
                            RequestsTyped, WorkerState, tables, history
  <1>5. CASE PublishVirus(w) \/ PublishFinish(w) \/ PublishDies(w)
    BY <1>1, <1>2, <1>5 DEF PublishVirus, PublishFinish, PublishDies, Report,
                            TypeOK, RequestsTyped, tables, history
  <1>6. ASSUME NEW c \in Channels, NEW tokenValid \in BOOLEAN,
               PublishLoadChannel(w, c, tokenValid)
        PROVE  PostedInv'
    <2>1. \A x \in Workers : worker'[x].pc = "sent" => worker'[x] = worker[x]
      BY <1>6 DEF PublishLoadChannel, TypeOK, RequestsTyped, WorkerState
    <2> QED
      BY <1>2, <1>6, <2>1 DEF PublishLoadChannel, tables, history
  <1>7. CASE PublishResetFailures(w) \/ PublishRecordFailure(w)
    <2>1. [NextVariant(w) EXCEPT !.done = NextVariant(w).done \cup {worker[w].chan}].pc
             = "next"
      BY DEF NextVariant
    <2>2. \A x \in Workers : worker'[x].pc = "sent" => worker'[x] = worker[x]
      BY <1>1, <1>7, <2>1
         DEF PublishResetFailures, PublishRecordFailure, TypeOK, RequestsTyped
    <2> QED
      BY <1>2, <1>7, <2>2 DEF PublishResetFailures, PublishRecordFailure
  \* A step that marks the variant of w, and calls no platform.
  <1>8. ASSUME NEW to \in {"failed", "published"}, MarkVariant(w, to),
               worker[w].post \in Posts, worker[w].chan \in Channels,
               to = "published" => posted[worker[w].post][worker[w].chan] > 0,
               UNCHANGED posted,
               \A x \in Workers : worker'[x].pc = "sent" => worker'[x] = worker[x]
        PROVE  PostedInv'
    <2>1. \A p \in Posts, c \in Channels :
             variants'[p][c] = "published" => posted[p][c] > 0
      BY <1>8 DEF MarkVariant, TypeOK, TablesTyped
    <2> QED
      BY <1>8, <2>1
  <1>9. CASE PublishRefused(w) \/ PublishMarkFailed(w)
    <2>1. worker[w].post \in Posts /\ worker[w].chan \in Channels
      BY <1>9, BusyWorker DEF PublishRefused, PublishMarkFailed
    <2>2. \A x \in Workers : worker'[x].pc = "sent" => worker'[x] = worker[x]
      BY <1>1, <1>9 DEF PublishRefused, PublishMarkFailed, TypeOK, RequestsTyped,
                        WorkerState
    <2> QED
      BY <1>8, <1>9, <2>1, <2>2 DEF PublishRefused, PublishMarkFailed, history
  <1>10. CASE PublishMarkPublished(w)
    <2>1. worker[w].post \in Posts /\ worker[w].chan \in Channels
      BY <1>10, BusyWorker DEF PublishMarkPublished
    <2>2. \A x \in Workers : worker'[x].pc = "sent" => worker'[x] = worker[x]
      BY <1>10 DEF PublishMarkPublished, TypeOK, RequestsTyped, WorkerState
    <2> QED
      BY <1>8, <1>10, <2>1, <2>2 DEF PublishMarkPublished, history
  <1>11. CASE PublishSend(w)
    <2>1. worker[w].post \in Posts /\ worker[w].chan \in Channels
      BY <1>11, BusyWorker DEF PublishSend
    <2>2. \A n \in 0..MaxPosted : CountedPost(n) >= n /\ CountedPost(n) > 0
      BY ConstantsAssumption DEF ConstantsAssumption, CountedPost
    <2>3. \A p \in Posts, c \in Channels : posted[p][c] \in 0..MaxPosted
      BY DEF TypeOK, HistoryTyped
    <2>4. CASE UNCHANGED posted /\ worker' = [worker EXCEPT ![w].pc = "failed"]
      BY <1>11, <1>2, <2>4 DEF PublishSend, TypeOK, RequestsTyped, WorkerState, tables
    <2>5. CASE posted' = [posted EXCEPT ![worker[w].post][worker[w].chan] =
                             CountedPost(@)]
      <3>1. \A p \in Posts, c \in Channels :
               /\ posted[p][c] > 0 => posted'[p][c] > 0
               /\ p = worker[w].post /\ c = worker[w].chan => posted'[p][c] > 0
        BY <2>1, <2>2, <2>3, <2>5 DEF TypeOK, HistoryTyped
      <3>2. \A x \in Workers \ {w} : worker'[x] = worker[x]
        BY <1>11 DEF PublishSend, TypeOK, RequestsTyped
      <3>3. worker'[w].pc = "sent" => /\ worker'[w].post = worker[w].post
                                     /\ worker'[w].chan = worker[w].chan
        BY <1>1, <1>11 DEF PublishSend, TypeOK, RequestsTyped, WorkerState
      <3>4. \A x \in Workers : worker[x].pc = "sent" =>
               worker[x].post \in Posts /\ worker[x].chan \in Channels
        BY BusyWorker
      <3>5. UNCHANGED variants
        BY <1>11 DEF PublishSend, tables
      <3> QED
        BY <2>1, <3>1, <3>2, <3>3, <3>4, <3>5
    <2> QED
      BY <1>11, <2>4, <2>5 DEF PublishSend
  <1> QED
    BY <1>3, <1>4, <1>5, <1>6, <1>7, <1>9, <1>10, <1>11 DEF PublishNext, PublishStep

\* For any number of workers, with crashes and failed writes: a variant that
\* reads published has been sent to the platform.
THEOREM PublishedWasPosted == Spec => []PublishedVariantWasPosted
  <1>1. Init => PostedInv
    BY DEF Init, PostedInv, PublishedVariantWasPosted, IdleWorker
  <1>2. TypeOK /\ PostedInv /\ [Next]_vars => PostedInv'
    <2> SUFFICES ASSUME TypeOK, PostedInv, [Next]_vars PROVE PostedInv'
      OBVIOUS
    <2>1. ASSUME UNCHANGED <<worker, posted>>,
                 \A p \in Posts, c \in Channels :
                    variants'[p][c] = "published" => variants[p][c] = "published"
          PROVE  PostedInv'
      BY <2>1 DEF PostedInv, PublishedVariantWasPosted
    <2>2. CASE UNCHANGED vars
      BY <2>1, <2>2 DEF vars
    <2>3. CASE \E p \in Posts : Review(p) \/ Quarantine(p)
      BY <2>1, <2>3, EditorialFrame DEF requests, history
    <2>4. ASSUME NEW s \in Schedulers, ScheduleNext(s) PROVE PostedInv'
      <3>1. ASSUME NEW c \in Channels, ScheduleCreateVariant(s, c)
            PROVE  \A p \in Posts, d \in Channels :
                      variants'[p][d] = "published" => variants[p][d] = "published"
        BY <3>1 DEF ScheduleCreateVariant, TypeOK, TablesTyped
      <3>2. (\E c \in Channels : ScheduleCreateVariant(s, c)) \/ UNCHANGED variants
        BY <2>4 DEF ScheduleNext, ScheduleStep, ScheduleLoad, ScheduleCheckMedia,
           ScheduleCheckChannel, ScheduleRefuse, ScheduleDate, ScheduleSave,
           ScheduleDies, tables
      <3> QED
        BY <2>1, <2>4, <3>1, <3>2, ScheduleFrame
    <2>5. CASE \E k \in Cancellers : CancelNext(k)
      BY <2>1, <2>5, CancelFrame DEF history
    <2>6. CASE \E d \in Disconnecters : DisconnectNext(d)
      BY <2>1, <2>6, DisconnectFrame DEF history
    <2> QED
      BY <2>2, <2>3, <2>4, <2>5, <2>6, PostedStepWorker DEF Next
  <1>3. PostedInv => PublishedVariantWasPosted
    BY DEF PostedInv
  <1> QED
    BY <1>1, <1>2, <1>3, TypeCorrect, PTL DEF Spec
-------------------------------------------------------------------------------

\* The status a post has after each write.
LEMMA StoredStatus ==
    ASSUME NEW post \in PostRow
    PROVE  /\ Stored(post).status = post.status
           /\ Stored(Schedule(post)).status = "scheduled"
           /\ Stored(Cancel(post)).status = "draft"
           /\ SubmitForValidation(post).status = "pending_validation"
           /\ Validate(post).status = "validated"
           /\ Reject(post).status = "rejected"
  BY DEF Stored, Schedule, Cancel, SubmitForValidation, Validate, Reject,
         MovedTo, PostRow

(***************************************************************************)
(* The channels of a schedule are never empty and its history is kept, so  *)
(* a post that was ever taken by a worker has been scheduled.              *)
(***************************************************************************)
SentInv ==
    /\ \A p \in Posts : posts[p].status = "scheduled" => targets[p] # {}
    /\ NothingSentBeforeASchedule
    /\ \A s \in Schedulers : ~Free(schedule[s]) => schedule[s].chans # {}
    /\ \A w \in Workers : worker[w].pc # "idle" => targets[worker[w].post] # {}

LEMMA SentInit == Init => SentInv
  <1> SUFFICES ASSUME Init PROVE SentInv
    OBVIOUS
  <1>1. \A p \in Posts : posts[p].status = "scheduled" => targets[p] # {}
    BY DEF Init
  <1>2. NothingSentBeforeASchedule
    BY DEF Init, NothingSentBeforeASchedule
  <1>3. \A s \in Schedulers : Free(schedule[s])
    BY DEF Init, IdleSchedule, Free
  <1>4. \A w \in Workers : worker[w].pc = "idle"
    BY DEF Init, IdleWorker
  <1> QED
    BY <1>1, <1>2, <1>3, <1>4 DEF SentInv

LEMMA SentSchedule ==
    ASSUME TypeOK, SentInv, NEW s \in Schedulers, ScheduleNext(s)
    PROVE  SentInv'
  <1> USE DEF SentInv, NothingSentBeforeASchedule
  <1>1. UNCHANGED <<worker, posted>>
    BY ScheduleFrame
  <1>2. ASSUME UNCHANGED <<posts, targets>>,
               \A t \in Schedulers : ~Free(schedule'[t]) => schedule'[t].chans # {}
        PROVE  SentInv'
    BY <1>1, <1>2
  <1>3. ASSUME NEW p \in Posts, NEW chans \in (SUBSET Channels) \ {{}},
               ScheduleLoad(s, p, chans)
        PROVE  SentInv'
    <2>1. schedule'[s].chans = chans
      BY <1>3 DEF ScheduleLoad, TypeOK, RequestsTyped
    <2>2. \A t \in Schedulers \ {s} : schedule'[t] = schedule[t]
      BY <1>3 DEF ScheduleLoad, TypeOK, RequestsTyped
    <2>3. chans # {}
      OBVIOUS
    <2>4. UNCHANGED <<posts, targets>>
      BY <1>3 DEF ScheduleLoad, tables, history
    <2>5. \A t \in Schedulers : ~Free(schedule'[t]) => schedule'[t].chans # {}
      BY <2>1, <2>2, <2>3
    <2> QED
      BY <1>2, <2>4, <2>5
  <1>4. ASSUME ~Free(schedule[s]), schedule'[s].chans = schedule[s].chans,
               \A t \in Schedulers \ {s} : schedule'[t] = schedule[t],
               UNCHANGED <<posts, targets>>
        PROVE  SentInv'
    BY <1>2, <1>4
  <1>5. CASE ScheduleCheckMedia(s) \/ ScheduleDate(s)
    BY <1>4, <1>5 DEF ScheduleCheckMedia, ScheduleDate, TypeOK, RequestsTyped,
                      ScheduleState, Free, tables, history
  <1>6. ASSUME NEW c \in Channels, NEW tokenValid \in BOOLEAN,
               ScheduleCheckChannel(s, c, tokenValid)
        PROVE  SentInv'
    BY <1>4, <1>6 DEF ScheduleCheckChannel, TypeOK, RequestsTyped, ScheduleState,
                      Free, tables, history
  <1>7. ASSUME NEW c \in Channels, ScheduleCreateVariant(s, c) PROVE SentInv'
    BY <1>4, <1>7 DEF ScheduleCreateVariant, TypeOK, RequestsTyped, ScheduleState,
                      Free, history
  <1>8. CASE ScheduleRefuse(s) \/ ScheduleDies(s)
    BY <1>2, <1>8 DEF ScheduleRefuse, ScheduleDies, IdleSchedule, Free, TypeOK,
                      RequestsTyped, tables, history
  <1>9. CASE ScheduleSave(s)
    <2>1. Free(IdleSchedule) /\ Free([IdleSchedule EXCEPT !.pc = "conflict"])
      BY DEF IdleSchedule, Free
    <2>2. \A t \in Schedulers : ~Free(schedule'[t]) => schedule'[t].chans # {}
      BY <1>9, <2>1 DEF ScheduleSave, TypeOK, RequestsTyped
    <2>3. schedule[s].chans # {} /\ schedule[s].post \in Posts
      BY <1>9 DEF ScheduleSave, Free, TypeOK, RequestsTyped, ScheduleState
    <2>4. CASE UNCHANGED <<posts, targets>>
      BY <1>2, <2>2, <2>4
    <2>5. CASE /\ UpdatePost(schedule[s].post, Schedule(schedule[s].read))
               /\ targets' = [targets EXCEPT ![schedule[s].post] = schedule[s].chans]
      <3>1. /\ \A p \in Posts : targets[p] # {} => targets'[p] # {}
            /\ targets'[schedule[s].post] # {}
        BY <2>3, <2>5 DEF TypeOK, HistoryTyped
      <3>2. \A p \in Posts \ {schedule[s].post} : posts'[p] = posts[p]
        BY <2>5 DEF UpdatePost, TypeOK, TablesTyped
      <3>3. \A w \in Workers : worker[w].pc # "idle" => worker[w].post \in Posts
        BY BusyWorker
      <3> QED
        BY <1>1, <2>2, <3>1, <3>2, <3>3
    <2> QED
      BY <1>9, <2>4, <2>5 DEF ScheduleSave
  <1> QED
    BY <1>3, <1>5, <1>6, <1>7, <1>8, <1>9 DEF ScheduleNext, ScheduleStep

\* A write that leaves the post a draft takes nothing from the invariant.
LEMMA SentCancel ==
    ASSUME TypeOK, SentInv, NEW k \in Cancellers, CancelNext(k)
    PROVE  SentInv'
  <1>1. UNCHANGED <<schedule, worker, targets, posted>>
    BY CancelFrame DEF history
  <1>2. \A p \in Posts : posts'[p].status = "scheduled" => posts[p].status = "scheduled"
    <2>1. CASE UNCHANGED posts
      BY <2>1
    <2>2. CASE CancelSave(k)
      <3>1. cancel[k].post \in Posts /\ cancel[k].read \in PostRow
        BY <2>2 DEF CancelSave, TypeOK, RequestsTyped, CancelState
      <3>2. Stored(Cancel(cancel[k].read)).status = "draft"
        BY <3>1, StoredStatus
      <3> QED
        BY <2>2, <3>1, <3>2 DEF CancelSave, UpdatePost, TypeOK, TablesTyped
    <2> QED
      BY <2>1, <2>2 DEF CancelNext, CancelLoad, CancelDies, tables
  <1> QED
    BY <1>1, <1>2 DEF SentInv, NothingSentBeforeASchedule

LEMMA SentDisconnect ==
    ASSUME TypeOK, SentInv, NEW d \in Disconnecters, DisconnectNext(d)
    PROVE  SentInv'
  <1>1. UNCHANGED <<schedule, worker, targets, posted>>
    BY DisconnectFrame DEF history
  <1>2. \A p \in Posts : posts'[p].status = "scheduled" => posts[p].status = "scheduled"
    <2>1. CASE UNCHANGED posts
      BY <2>1
    <2>2. ASSUME NEW q \in Posts, DisconnectCancelPost(d, q)
          PROVE  \A p \in Posts :
                    posts'[p].status = "scheduled" => posts[p].status = "scheduled"
      <3>1. disconnect[d].read[q] \in PostRow
        BY DEF TypeOK, RequestsTyped, DisconnectState
      <3>2. Stored(Cancel(disconnect[d].read[q])).status = "draft"
        BY <3>1, StoredStatus
      <3> QED
        BY <2>2, <3>2 DEF DisconnectCancelPost, UpdatePost, TypeOK, TablesTyped
    <2> QED
      BY <2>1, <2>2 DEF DisconnectNext, DisconnectStep, DisconnectLoad,
                        DisconnectList, DisconnectSave, DisconnectDies, tables
  <1> QED
    BY <1>1, <1>2 DEF SentInv, NothingSentBeforeASchedule

LEMMA SentPublish ==
    ASSUME TypeOK, SentInv, NEW w \in Workers, PublishNext(w)
    PROVE  SentInv'
  <1> USE DEF SentInv, NothingSentBeforeASchedule
  <1>1. UNCHANGED <<schedule, targets>>
    BY PublishFrame
  \* Whatever a busy worker writes or sends concerns the post it has taken.
  <1>2. ASSUME worker[w].pc # "idle",
               \A p \in Posts \ {worker[w].post} : posts'[p] = posts[p],
               \A p \in Posts \ {worker[w].post} : posted'[p] = posted[p],
               worker'[w].pc # "idle" => worker'[w].post = worker[w].post,
               \A x \in Workers \ {w} : worker'[x] = worker[x]
        PROVE  SentInv'
    <2>1. worker[w].post \in Posts /\ targets[worker[w].post] # {}
      BY <1>2, BusyWorker
    <2> QED
      BY <1>1, <1>2, <2>1
  <1>3. NextVariant(w).post = worker[w].post /\ IdleWorker.pc = "idle"
    BY DEF NextVariant, IdleWorker, TypeOK, RequestsTyped, WorkerState
  <1>4. ASSUME NEW p \in Posts, PublishLoad(w, p) PROVE SentInv'
    BY <1>1, <1>4 DEF PublishLoad, IdleWorker, TypeOK, RequestsTyped, tables, history
  <1>5. CASE PublishCheckMedia(w) \/ PublishLoadVariants(w)
    BY <1>2, <1>3, <1>5 DEF PublishCheckMedia, PublishLoadVariants, TypeOK,
                            RequestsTyped, WorkerState, tables, history
  <1>6. CASE PublishVirus(w) \/ PublishFinish(w)
    BY <1>2, <1>3, <1>6 DEF PublishVirus, PublishFinish, WriteBack, UpdatePost,
                            Report, TypeOK, TablesTyped, RequestsTyped
  <1>7. ASSUME NEW c \in Channels, NEW tokenValid \in BOOLEAN,
               PublishLoadChannel(w, c, tokenValid)
        PROVE  SentInv'
    BY <1>2, <1>7 DEF PublishLoadChannel, TypeOK, RequestsTyped, WorkerState,
                      tables, history
  <1>8. CASE PublishRefused(w) \/ PublishMarkPublished(w) \/ PublishMarkFailed(w)
             \/ PublishRecordFailure(w) \/ PublishDies(w)
    BY <1>2, <1>3, <1>8
       DEF PublishRefused, PublishMarkPublished, PublishMarkFailed,
           PublishRecordFailure, PublishDies, TypeOK, RequestsTyped, WorkerState,
           tables, history
  <1>9. CASE PublishResetFailures(w)
    <2>1. [NextVariant(w) EXCEPT !.done = NextVariant(w).done \cup {worker[w].chan}].post
             = worker[w].post
      BY <1>3 DEF NextVariant
    <2> QED
      BY <1>2, <1>9, <2>1 DEF PublishResetFailures, TypeOK, RequestsTyped
  <1>10. CASE PublishSend(w)
    <2>1. \A p \in Posts \ {worker[w].post} : posted'[p] = posted[p]
      BY <1>10 DEF PublishSend, TypeOK, HistoryTyped
    <2>2. worker'[w].post = worker[w].post
          /\ \A x \in Workers \ {w} : worker'[x] = worker[x]
      BY <1>3, <1>10 DEF PublishSend, TypeOK, RequestsTyped, WorkerState
    <2> QED
      BY <1>2, <1>10, <2>1, <2>2 DEF PublishSend, tables
  <1> QED
    BY <1>4, <1>5, <1>6, <1>7, <1>8, <1>9, <1>10 DEF PublishNext, PublishStep

LEMMA SentStep == TypeOK /\ SentInv /\ [Next]_vars => SentInv'
  <1> SUFFICES ASSUME TypeOK, SentInv, [Next]_vars PROVE SentInv'
    OBVIOUS
  <1>1. CASE UNCHANGED vars
    BY <1>1 DEF vars, SentInv, NothingSentBeforeASchedule
  <1>2. ASSUME NEW p \in Posts, Review(p) \/ Quarantine(p) PROVE SentInv'
    <2>1. UNCHANGED <<schedule, worker, targets, posted>>
      BY <1>2, EditorialFrame DEF requests, history
    <2>2. posts[p] \in PostRow
      BY DEF TypeOK, TablesTyped
    <2>3. \A q \in Posts : posts'[q].status = "scheduled" => posts[q].status = "scheduled"
      BY <1>2, <2>2, StoredStatus DEF Review, Quarantine, TypeOK, TablesTyped
    <2> QED
      BY <2>1, <2>3 DEF SentInv, NothingSentBeforeASchedule
  <1> QED
    BY <1>1, <1>2, SentSchedule, SentCancel, SentDisconnect, SentPublish DEF Next

\* For any number of goroutines, with crashes and failed writes: whatever variants
\* unfinished schedules have left, the platform is only called for a post of which
\* some schedule, perhaps on other channels, has been stored.
THEOREM SentWasScheduled == Spec => []NothingSentBeforeASchedule
  <1>1. SentInv => NothingSentBeforeASchedule
    BY DEF SentInv
  <1> QED
    BY <1>1, SentInit, SentStep, TypeCorrect, PTL DEF Spec
-------------------------------------------------------------------------------
(***************************************************************************)
(* The variants of a schedule.  Where they can be stored and no insertion  *)
(* fails, the post is stored after them, and no step removes a variant.    *)
(***************************************************************************)
VariantInv ==
    /\ SentInv
    /\ \A p \in Posts : \A c \in targets[p] : variants[p][c] # "none"
    /\ \A s \in Schedulers : schedule[s].pc = "variants" =>
          \A c \in schedule[s].chans \ schedule[s].todo :
             variants[schedule[s].post][c] # "none"

\* The writes to the variants: an insertion of SchedulePost and a mark of a worker.
LEMMA VariantWrites ==
    ASSUME [Next]_vars
    PROVE  \/ UNCHANGED variants
           \/ \E s \in Schedulers, c \in Channels : ScheduleCreateVariant(s, c)
           \/ \E w \in Workers, to \in {"failed", "published"} : MarkVariant(w, to)
  <1>1. ASSUME NEW s \in Schedulers, ScheduleNext(s)
        PROVE  UNCHANGED variants \/ \E d \in Channels : ScheduleCreateVariant(s, d)
    BY <1>1 DEF ScheduleNext, ScheduleStep, ScheduleLoad, ScheduleCheckMedia,
       ScheduleCheckChannel, ScheduleRefuse, ScheduleDate, ScheduleSave,
       ScheduleDies, tables
  <1>2. ASSUME NEW w \in Workers, PublishNext(w)
        PROVE  UNCHANGED variants \/ \E to \in {"failed", "published"} : MarkVariant(w, to)
    BY <1>2 DEF PublishNext, PublishStep, PublishLoad, PublishCheckMedia,
       PublishVirus, PublishLoadVariants, PublishLoadChannel, PublishRefused,
       PublishSend, PublishMarkPublished, PublishResetFailures, PublishMarkFailed,
       PublishRecordFailure, PublishFinish, PublishDies, tables
  <1> QED
    BY <1>1, <1>2, EditorialFrame, CancelFrame, DisconnectFrame DEF Next, vars

\* No step removes a variant.
LEMMA VariantsStay ==
    ASSUME TypeOK, [Next]_vars,
           NEW p \in Posts, NEW c \in Channels, variants[p][c] # "none"
    PROVE  variants'[p][c] # "none"
  <1>1. CASE UNCHANGED variants
    BY <1>1
  <1>2. ASSUME NEW s \in Schedulers, NEW d \in Channels, ScheduleCreateVariant(s, d)
        PROVE  variants'[p][c] # "none"
    BY <1>2 DEF ScheduleCreateVariant, TypeOK, TablesTyped
  <1>3. ASSUME NEW w \in Workers, NEW to \in {"failed", "published"},
               MarkVariant(w, to)
        PROVE  variants'[p][c] # "none"
    BY <1>3 DEF MarkVariant, TypeOK, TablesTyped
  <1> QED
    BY <1>1, <1>2, <1>3, VariantWrites

LEMMA VariantSchedule ==
    ASSUME TypeOK, VariantInv, VariantStorable, ~Faults,
           NEW s \in Schedulers, ScheduleNext(s)
    PROVE  /\ \A p \in Posts : \A c \in targets'[p] : variants'[p][c] # "none"
           /\ \A t \in Schedulers : schedule'[t].pc = "variants" =>
                 \A c \in schedule'[t].chans \ schedule'[t].todo :
                    variants'[schedule'[t].post][c] # "none"
  <1> DEFINE Goal == /\ \A p \in Posts : \A c \in targets'[p] : variants'[p][c] # "none"
                     /\ \A t \in Schedulers : schedule'[t].pc = "variants" =>
                           \A c \in schedule'[t].chans \ schedule'[t].todo :
                              variants'[schedule'[t].post][c] # "none"
  <1> USE DEF VariantInv
  <1>1. ASSUME UNCHANGED <<variants, targets>>,
               \A t \in Schedulers \ {s} : schedule'[t] = schedule[t],
               schedule'[s].pc = "variants" => schedule'[s].todo = schedule'[s].chans
        PROVE  Goal
    BY <1>1
  <1>2. ASSUME NEW p \in Posts, NEW chans \in (SUBSET Channels) \ {{}},
               ScheduleLoad(s, p, chans)
        PROVE  Goal
    BY <1>1, <1>2 DEF ScheduleLoad, TypeOK, RequestsTyped, tables, history
  <1>3. CASE ScheduleCheckMedia(s)
    BY <1>1, <1>3 DEF ScheduleCheckMedia, TypeOK, RequestsTyped, ScheduleState,
                      tables, history
  <1>4. ASSUME NEW c \in Channels, NEW tokenValid \in BOOLEAN,
               ScheduleCheckChannel(s, c, tokenValid)
        PROVE  Goal
    BY <1>1, <1>4 DEF ScheduleCheckChannel, TypeOK, RequestsTyped, ScheduleState,
                      tables, history
  <1>5. CASE ScheduleRefuse(s) \/ ScheduleDies(s)
    BY <1>1, <1>5 DEF ScheduleRefuse, ScheduleDies, IdleSchedule, TypeOK,
                      RequestsTyped, tables, history
  <1>6. CASE ScheduleDate(s)
    BY <1>1, <1>6 DEF ScheduleDate, TypeOK, RequestsTyped, ScheduleState,
                      tables, history
  <1>7. ASSUME NEW c \in Channels, ScheduleCreateVariant(s, c) PROVE Goal
    <2>1. \A p \in Posts, d \in Channels :
             variants[p][d] # "none" => variants'[p][d] # "none"
      BY <1>7 DEF ScheduleCreateVariant, TypeOK, TablesTyped
    <2>2. schedule[s].post \in Posts /\ variants'[schedule[s].post][c] # "none"
      <3>1. schedule[s].post \in Posts
        BY <1>7 DEF ScheduleCreateVariant, TypeOK, RequestsTyped, ScheduleState
      <3> QED
        BY <1>7, <3>1 DEF ScheduleCreateVariant, TypeOK, TablesTyped
    <2>3. \A p \in Posts : targets'[p] = targets[p] /\ targets[p] \subseteq Channels
      BY <1>7 DEF ScheduleCreateVariant, TypeOK, HistoryTyped, history
    <2>4. /\ \A t \in Schedulers \ {s} : schedule'[t] = schedule[t]
          /\ schedule'[s].post = schedule[s].post
          /\ schedule'[s].chans = schedule[s].chans
          /\ schedule'[s].todo = schedule[s].todo \ {c}
          /\ schedule[s].pc = "variants"
      BY <1>7 DEF ScheduleCreateVariant, TypeOK, RequestsTyped, ScheduleState
    <2>5. \A t \in Schedulers :
             /\ schedule[t].chans \subseteq Channels
             /\ schedule[t].pc = "variants" => schedule[t].post \in Posts
      BY DEF TypeOK, RequestsTyped, ScheduleState
    <2>6. \A p \in Posts : \A d \in targets'[p] : variants'[p][d] # "none"
      BY <2>1, <2>3
    <2>7. \A d \in schedule'[s].chans \ schedule'[s].todo :
             variants'[schedule'[s].post][d] # "none"
      <3> SUFFICES ASSUME NEW d \in schedule[s].chans,
                          d = c \/ d \notin schedule[s].todo
                   PROVE  variants'[schedule[s].post][d] # "none"
        BY <2>4
      <3>1. CASE d = c
        BY <2>2, <3>1
      <3>2. CASE d \notin schedule[s].todo
        <4>0. d \in schedule[s].chans \ schedule[s].todo
          BY <3>2
        <4>1. variants[schedule[s].post][d] # "none"
          BY <2>4, <4>0
        <4>2. d \in Channels /\ schedule[s].post \in Posts
          BY <2>2, <2>5
        <4> QED
          BY <2>1, <4>1, <4>2
      <3> QED
        BY <3>1, <3>2
    <2>8. ASSUME NEW t \in Schedulers \ {s}, schedule'[t].pc = "variants",
                 NEW d \in schedule'[t].chans \ schedule'[t].todo
          PROVE  variants'[schedule'[t].post][d] # "none"
      <3>1. schedule'[t] = schedule[t]
        BY <2>4
      <3>2. variants[schedule[t].post][d] # "none"
        <4>1. schedule[t].pc = "variants" /\ d \in schedule[t].chans \ schedule[t].todo
          BY <2>8, <3>1
        <4> QED
          BY <4>1
      <3>3. schedule[t].post \in Posts /\ d \in Channels
        BY <2>5, <2>8, <3>1
      <3> QED
        BY <2>1, <3>1, <3>2, <3>3
    <2> QED
      BY <2>6, <2>7, <2>8
  <1>8. CASE ScheduleSave(s)
    <2>1. UNCHANGED variants
      BY <1>8 DEF ScheduleSave
    <2>2. schedule[s].pc = "variants" /\ schedule[s].todo = {}
          /\ schedule[s].post \in Posts
      BY <1>8 DEF ScheduleSave, TypeOK, RequestsTyped, ScheduleState
    <2>3. \A c \in schedule[s].chans : variants[schedule[s].post][c] # "none"
      BY <2>2
    <2>4. \A p \in Posts : \A c \in targets'[p] : variants[p][c] # "none"
      BY <1>8, <2>2, <2>3 DEF ScheduleSave, TypeOK, HistoryTyped
    <2>5. /\ \A t \in Schedulers \ {s} : schedule'[t] = schedule[t]
          /\ schedule'[s].pc # "variants"
      BY <1>8 DEF ScheduleSave, IdleSchedule, TypeOK, RequestsTyped
    <2> QED
      BY <2>1, <2>4, <2>5
  <1> QED
    BY <1>2, <1>3, <1>4, <1>5, <1>6, <1>7, <1>8 DEF ScheduleNext, ScheduleStep

LEMMA VariantStep ==
    VariantStorable /\ ~Faults /\ TypeOK /\ VariantInv /\ [Next]_vars => VariantInv'
  <1> SUFFICES ASSUME VariantStorable, ~Faults, TypeOK, VariantInv, [Next]_vars
               PROVE  VariantInv'
    OBVIOUS
  <1>1. SentInv'
    BY SentStep DEF VariantInv
  <1>2. ASSUME UNCHANGED <<schedule, targets>> PROVE VariantInv'
    <2>1. \A p \in Posts : targets[p] \subseteq Channels
      BY DEF TypeOK, HistoryTyped
    <2>2. \A s \in Schedulers :
             /\ schedule[s].chans \subseteq Channels
             /\ schedule[s].pc = "variants" => schedule[s].post \in Posts
      BY DEF TypeOK, RequestsTyped, ScheduleState
    <2>3. \A p \in Posts, c \in Channels :
             variants[p][c] # "none" => variants'[p][c] # "none"
      BY VariantsStay
    <2> QED
      BY <1>1, <1>2, <2>1, <2>2, <2>3 DEF VariantInv
  <1>3. ASSUME NEW s \in Schedulers, ScheduleNext(s) PROVE VariantInv'
    BY <1>1, <1>3, VariantSchedule DEF VariantInv
  <1> QED
    BY <1>2, <1>3, EditorialFrame, CancelFrame, DisconnectFrame, PublishFrame
       DEF Next, vars, requests, history

LEMMA VariantInit == VariantStorable /\ Init => VariantInv
  <1> SUFFICES ASSUME VariantStorable, Init PROVE VariantInv
    OBVIOUS
  <1>1. targets \in [Posts -> SUBSET Channels]
        /\ variants = [p \in Posts |-> [c \in Channels |->
                         IF c \in targets[p] THEN "pending" ELSE "none"]]
    BY DEF Init
  <1>2. \A p \in Posts : \A c \in targets[p] : variants[p][c] = "pending"
    BY <1>1
  <1>3. \A s \in Schedulers : schedule[s].pc = "idle"
    BY DEF Init, IdleSchedule
  <1> QED
    BY <1>2, <1>3, SentInit DEF VariantInv

\* Where pending variants can be stored and no insertion fails, a post that reads
\* scheduled has a variant on every channel of the schedule stored last, whatever
\* schedules were cut short.
THEOREM ScheduledHasVariants ==
    ASSUME VariantStorable, ~Faults
    PROVE  Spec => []ScheduledPostHasItsVariants
  <1>1. VariantInv => ScheduledPostHasItsVariants
    BY DEF VariantInv, SentInv, ScheduledPostHasItsVariants
  <1>2. TypeOK /\ VariantInv /\ [Next]_vars => VariantInv'
    BY VariantStep
  <1> QED
    BY <1>1, <1>2, VariantInit, TypeCorrect, PTL DEF Spec
-------------------------------------------------------------------------------
(***************************************************************************)
(* A table that refuses the status pending.                                *)
(***************************************************************************)
NoVariantInv ==
    /\ NoVariantNothingSent
    /\ \A w \in Workers : worker[w].pc \in {"idle", "media", "virus", "load"}

\* chk_post_variants_status with publish.go, step 10: when the table takes no
\* variant that is pending there is never any variant, no execution of PublishPost
\* passes step 3, and the platform is never called.
THEOREM NoVariantNothingSentHolds ==
    ASSUME ~VariantStorable
    PROVE  Spec => []NoVariantNothingSent
  <1>1. Init => NoVariantInv
    BY DEF Init, NoVariantInv, NoVariantNothingSent, IdleWorker
  <1>2. ASSUME TypeOK, NoVariantInv, [Next]_vars PROVE NoVariantInv'
    <2> USE DEF NoVariantInv, NoVariantNothingSent
    <2>1. ASSUME UNCHANGED <<variants, posted>>,
                 \A w \in Workers : worker'[w].pc \in {"idle", "media", "virus", "load"}
          PROVE  NoVariantInv'
      BY <1>2, <2>1
    <2>2. CASE UNCHANGED vars
      BY <1>2, <2>1, <2>2 DEF vars
    <2>3. ASSUME NEW s \in Schedulers, ScheduleNext(s) PROVE NoVariantInv'
      <3>1. UNCHANGED variants
        BY <2>3 DEF ScheduleNext, ScheduleStep, ScheduleLoad, ScheduleCheckMedia,
           ScheduleCheckChannel, ScheduleRefuse, ScheduleDate, ScheduleCreateVariant,
           ScheduleSave, ScheduleDies, tables
      <3> QED
        BY <1>2, <2>1, <2>3, <3>1, ScheduleFrame
    <2>4. ASSUME NEW w \in Workers, PublishNext(w) PROVE NoVariantInv'
      <3>1. worker[w].pc \in {"idle", "media", "virus", "load"}
        BY <1>2
      <3>2. ASSUME worker'[w].pc \in {"idle", "media", "virus", "load"},
                   UNCHANGED <<variants, posted>>,
                   \A x \in Workers \ {w} : worker'[x] = worker[x]
            PROVE  NoVariantInv'
        BY <1>2, <2>1, <3>2
      <3>3. ASSUME NEW p \in Posts, PublishLoad(w, p) PROVE NoVariantInv'
        BY <1>2, <3>2, <3>3 DEF PublishLoad, IdleWorker, TypeOK, RequestsTyped, tables,
                                history
      <3>4. CASE PublishCheckMedia(w)
        BY <1>2, <3>2, <3>4 DEF PublishCheckMedia, TypeOK, RequestsTyped, WorkerState,
                                tables, history
      <3>5. CASE PublishVirus(w)
        BY <1>2, <3>2, <3>5 DEF PublishVirus, Report, IdleWorker, TypeOK, RequestsTyped
      <3>6. CASE PublishLoadVariants(w)
        <4>1. {c \in Channels : variants[worker[w].post][c] # "none"} = {}
          BY <1>2, <3>6, BusyWorker DEF PublishLoadVariants
        <4> QED
          BY <1>2, <3>2, <3>6, <4>1 DEF PublishLoadVariants, IdleWorker, TypeOK,
                                        RequestsTyped, tables, history
      <3>7. CASE PublishDies(w)
        BY <1>2, <3>2, <3>7 DEF PublishDies, IdleWorker, TypeOK, RequestsTyped, tables,
                                history
      <3> QED
        BY <2>4, <3>1, <3>3, <3>4, <3>5, <3>6, <3>7
           DEF PublishNext, PublishStep, PublishLoadChannel, PublishRefused, PublishSend,
               PublishMarkPublished, PublishResetFailures, PublishMarkFailed,
               PublishRecordFailure, PublishFinish
    <2> QED
      BY <1>2, <2>1, <2>2, <2>3, <2>4, EditorialFrame, CancelFrame, DisconnectFrame
         DEF Next, requests, history
  <1>3. NoVariantInv => NoVariantNothingSent
    BY DEF NoVariantInv
  <1> QED
    BY <1>1, <1>2, <1>3, TypeCorrect, PTL DEF Spec
--------------------------------------------------------------------------------
(***************************************************************************)
(* With the version column compared on every write, PostPublishing         *)
(* implements PostLifecycle; and, the transitions having incremented the   *)
(* version that is compared, no schedule is ever stored.                   *)
(***************************************************************************)

(***************************************************************************)
(* A row that a cancellation, a disconnection or a worker holds was read   *)
(* scheduled.  Every write adds one to the stored version, so the distance *)
(* between the stored version and the version of the row counts the writes *)
(* since it was read: the status is known when it is zero or one, and only *)
(* then can the write of the row still be accepted.                        *)
(***************************************************************************)
Follows(post, row) ==
    /\ row.status = "scheduled"
    /\ row.version <= post.version
    /\ post.version = row.version => post.status = "scheduled"
    /\ post.version = row.version + 1 => post.status \in {"scheduled", "draft"}

Tracks(p, row) == Follows(posts[p], row)

\* A post being scheduled stays as it was read: nothing else writes to a
\* validated post, and the schedule itself is refused.
Unmoved(req) == /\ posts[req.post] = req.read
                /\ req.read.status = "validated"

PgInv ==
    /\ \A s \in Schedulers : ~Free(schedule[s]) => Unmoved(schedule[s])
    /\ \A k \in Cancellers : cancel[k].pc = "save" =>
          Tracks(cancel[k].post, cancel[k].read)
    /\ \A d \in Disconnecters : disconnect[d].pc = "cancel" =>
          \A p \in disconnect[d].todo : Tracks(p, disconnect[d].read[p])
    /\ \A w \in Workers : worker[w].pc # "idle" =>
          Tracks(worker[w].post, worker[w].read)

\* What every write does to the post it changes.
Advances(p, row) ==
    /\ row.version = posts[p].version + 1
    /\ posts[p].status # "validated"
    /\ posts[p].status = "scheduled" => row.status \in {"scheduled", "draft"}
    /\ row.status = posts[p].status \/ CanTransitionTo(posts[p].status, row.status)

OneWrite == \/ UNCHANGED posts
            \/ \E p \in Posts, row \in PostRow :
                  Advances(p, row) /\ posts' = [posts EXCEPT ![p] = row]

\* An accepted cancellation.
LEMMA CancelAdvances ==
    ASSUME TypeOK, VersionRule = "postgres", NEW p \in Posts, NEW row \in PostRow,
           Tracks(p, row), Accepts(p, Cancel(row))
    PROVE  Advances(p, Stored(Cancel(row)))
  <1>1. posts[p].version = row.version + 1
    BY DEF Accepts, Cancel, MovedTo, PostRow
  <1>2. posts[p].status \in {"scheduled", "draft"}
    BY <1>1 DEF Tracks, Follows
  <1>3. /\ Stored(Cancel(row)).version = row.version + 2
        /\ Stored(Cancel(row)).status = "draft"
    BY DEF Stored, Cancel, MovedTo, PostRow
  <1>4. row.version \in Nat
    BY DEF PostRow
  <1> QED
    BY <1>1, <1>2, <1>3, <1>4 DEF Advances, CanTransitionTo, SM01

\* An accepted write of a worker, which changes nothing but the version.
LEMMA WriteBackAdvances ==
    ASSUME TypeOK, VersionRule = "postgres", NEW p \in Posts, NEW row \in PostRow,
           Tracks(p, row), Accepts(p, row)
    PROVE  Advances(p, Stored(row))
  <1>1. posts[p].version = row.version
    BY DEF Accepts
  <1>2. posts[p].status = "scheduled" /\ row.status = "scheduled"
    BY <1>1 DEF Tracks, Follows
  <1>3. Stored(row).version = row.version + 1 /\ Stored(row).status = row.status
    BY DEF Stored, PostRow
  <1> QED
    BY <1>1, <1>2, <1>3 DEF Advances

\* A schedule is refused: its row is one version ahead of the stored one.
LEMMA ScheduleIsRefused ==
    ASSUME TypeOK, VersionRule = "postgres", PgInv, NEW s \in Schedulers,
           ~Free(schedule[s])
    PROVE  ~Accepts(schedule[s].post, Schedule(schedule[s].read))
  <1>1. posts[schedule[s].post].version = schedule[s].read.version
    BY DEF PgInv, Unmoved
  <1>2. schedule[s].read.version \in Nat
    BY DEF TypeOK, RequestsTyped, ScheduleState, PostRow
  <1>3. Schedule(schedule[s].read).version = schedule[s].read.version + 1
    BY DEF Schedule, MovedTo
  <1> QED
    BY <1>1, <1>2, <1>3 DEF Accepts

LEMMA ScheduleWritesNothing ==
    ASSUME TypeOK, VersionRule = "postgres", PgInv, NEW s \in Schedulers,
           ScheduleNext(s)
    PROVE  UNCHANGED <<posts, targets>>
  <1>1. CASE ScheduleSave(s)
    <2>1. ~Free(schedule[s])
      BY <1>1 DEF ScheduleSave, Free
    <2> QED
      BY <1>1, <2>1, ScheduleIsRefused DEF ScheduleSave
  <1>2. CASE ~ScheduleSave(s)
    BY <1>2 DEF ScheduleNext, ScheduleStep, ScheduleLoad, ScheduleCheckMedia,
       ScheduleCheckChannel, ScheduleRefuse, ScheduleDate, ScheduleCreateVariant,
       ScheduleDies, tables, history
  <1> QED
    BY <1>1, <1>2

LEMMA EveryStepWritesOnce ==
    ASSUME TypeOK, VersionRule = "postgres", PgInv, [Next]_vars
    PROVE  OneWrite
  <1>1. ASSUME NEW p \in Posts, Review(p) PROVE OneWrite
    <2>1. posts[p] \in PostRow
      BY DEF TypeOK, TablesTyped
    <2>2. PICK row \in PostRow :
             /\ posts' = [posts EXCEPT ![p] = row]
             /\ \/ row = SubmitForValidation(posts[p]) /\ CanSubmit(posts[p])
                \/ row = Validate(posts[p]) /\ CanValidate(posts[p])
                \/ row = Reject(posts[p]) /\ CanReject(posts[p])
      BY <1>1, <2>1, PostTransitionTypes DEF Review
    <2>3. Advances(p, row)
      BY <2>1, <2>2 DEF Advances, SubmitForValidation, Validate, Reject, MovedTo,
         CanSubmit, CanValidate, CanReject, CanTransitionTo, SM01
    <2> QED
      BY <2>2, <2>3 DEF OneWrite
  <1>2. ASSUME NEW k \in Cancellers, CancelNext(k) PROVE OneWrite
    <2>1. CASE UNCHANGED posts
      BY <2>1 DEF OneWrite
    <2>2. CASE CancelSave(k) /\ posts' # posts
      <3>1. cancel[k].post \in Posts /\ cancel[k].read \in PostRow
        BY <2>2 DEF CancelSave, TypeOK, RequestsTyped, CancelState
      <3>2. Tracks(cancel[k].post, cancel[k].read)
        BY <2>2 DEF CancelSave, PgInv
      <3>3. /\ Accepts(cancel[k].post, Cancel(cancel[k].read))
            /\ UpdatePost(cancel[k].post, Cancel(cancel[k].read))
        BY <2>2 DEF CancelSave
      <3>4. Stored(Cancel(cancel[k].read)) \in PostRow
        BY <3>1, PostTransitionTypes
      <3> QED
        BY <3>1, <3>2, <3>3, <3>4, CancelAdvances DEF OneWrite, UpdatePost
    <2> QED
      BY <1>2, <2>1, <2>2 DEF CancelNext, CancelLoad, CancelDies, tables
  <1>3. ASSUME NEW d \in Disconnecters, DisconnectNext(d) PROVE OneWrite
    <2>1. CASE UNCHANGED posts
      BY <2>1 DEF OneWrite
    <2>2. ASSUME NEW p \in Posts, DisconnectCancelPost(d, p), posts' # posts
          PROVE  OneWrite
      <3>1. disconnect[d].read[p] \in PostRow
        BY DEF TypeOK, RequestsTyped, DisconnectState
      <3>2. Tracks(p, disconnect[d].read[p])
        BY <2>2 DEF DisconnectCancelPost, PgInv
      <3>3. /\ Accepts(p, Cancel(disconnect[d].read[p]))
            /\ UpdatePost(p, Cancel(disconnect[d].read[p]))
        BY <2>2 DEF DisconnectCancelPost
      <3>4. Stored(Cancel(disconnect[d].read[p])) \in PostRow
        BY <3>1, PostTransitionTypes
      <3> QED
        BY <3>1, <3>2, <3>3, <3>4, CancelAdvances DEF OneWrite, UpdatePost
    <2> QED
      BY <1>3, <2>1, <2>2 DEF DisconnectNext, DisconnectStep, DisconnectLoad,
         DisconnectList, DisconnectSave, DisconnectDies, tables
  <1>4. ASSUME NEW w \in Workers, PublishNext(w) PROVE OneWrite
    <2>1. CASE UNCHANGED posts
      BY <2>1 DEF OneWrite
    <2>2. CASE (PublishVirus(w) \/ PublishFinish(w)) /\ posts' # posts
      <3>1. worker[w].pc # "idle"
        BY <2>2 DEF PublishVirus, PublishFinish
      <3>2. worker[w].post \in Posts /\ worker[w].read \in PostRow
        BY <3>1, BusyWorker
      <3>3. Tracks(worker[w].post, worker[w].read)
        BY <3>1 DEF PgInv
      <3>4. /\ Accepts(worker[w].post, worker[w].read)
            /\ UpdatePost(worker[w].post, worker[w].read)
        BY <2>2 DEF PublishVirus, PublishFinish, WriteBack
      <3>5. Stored(worker[w].read) \in PostRow
        BY <3>2, PostTransitionTypes
      <3> QED
        BY <3>2, <3>3, <3>4, <3>5, WriteBackAdvances DEF OneWrite, UpdatePost
    <2> QED
      BY <1>4, <2>1, <2>2 DEF PublishNext, PublishStep, PublishLoad,
         PublishCheckMedia, PublishLoadVariants, PublishLoadChannel,
         PublishRefused, PublishSend, PublishMarkPublished, PublishResetFailures,
         PublishMarkFailed, PublishRecordFailure, PublishDies, tables
  <1>5. ASSUME NEW s \in Schedulers, ScheduleNext(s) PROVE OneWrite
    BY <1>5, ScheduleWritesNothing DEF OneWrite
  <1>6. CASE UNCHANGED vars
    BY <1>6 DEF vars, OneWrite
  <1>7. ASSUME NEW p \in Posts, Quarantine(p) PROVE OneWrite
    BY <1>7 DEF Quarantine, OneWrite
  <1> QED
    BY <1>1, <1>2, <1>3, <1>4, <1>5, <1>6, <1>7 DEF Next

\* What a row in flight says of the stored post survives any write.
LEMMA TracksStays ==
    ASSUME TypeOK, OneWrite, NEW p \in Posts, NEW row \in PostRow, Tracks(p, row)
    PROVE  Follows(posts'[p], row)
  <1>1. CASE UNCHANGED posts
    BY <1>1 DEF Tracks, Follows
  <1>2. ASSUME NEW q \in Posts, NEW new \in PostRow, Advances(q, new),
               posts' = [posts EXCEPT ![q] = new]
        PROVE  Follows(posts'[p], row)
    <2>1. CASE p # q
      BY <1>2, <2>1 DEF Tracks, Follows, TypeOK, TablesTyped
    <2>2. CASE p = q
      <3>1. posts'[p] = new
        BY <1>2, <2>2 DEF TypeOK, TablesTyped
      <3>2. posts[p].version \in Nat /\ row.version \in Nat
        BY DEF TypeOK, TablesTyped, PostRow
      <3> QED
        BY <1>2, <2>2, <3>1, <3>2 DEF Tracks, Follows, Advances
    <2> QED
      BY <2>1, <2>2
  <1> QED
    BY <1>1, <1>2 DEF OneWrite

LEMMA UnmovedStays ==
    ASSUME TypeOK, OneWrite, NEW s \in Schedulers, schedule[s].post \in Posts,
           Unmoved(schedule[s])
    PROVE  posts'[schedule[s].post] = schedule[s].read
  BY DEF OneWrite, Advances, Unmoved, TypeOK, TablesTyped

(***************************************************************************)
(* A row in flight is kept as it was, or has just been read.               *)
(***************************************************************************)
JustRead(p, row, status) ==
    UNCHANGED posts /\ p \in Posts /\ row = posts[p] /\ row.status = status

LEMMA ScheduleReads ==
    ASSUME TypeOK, [Next]_vars, NEW s \in Schedulers, ~Free(schedule'[s])
    PROVE  \/ /\ ~Free(schedule[s])
              /\ schedule'[s].post = schedule[s].post
              /\ schedule'[s].read = schedule[s].read
           \/ JustRead(schedule'[s].post, schedule'[s].read, "validated")
  <1> DEFINE Goal == \/ /\ ~Free(schedule[s])
                        /\ schedule'[s].post = schedule[s].post
                        /\ schedule'[s].read = schedule[s].read
                     \/ JustRead(schedule'[s].post, schedule'[s].read, "validated")
  <1>1. CASE schedule'[s] = schedule[s]
    BY <1>1
  <1>2. ASSUME ScheduleNext(s) PROVE Goal
    <2>1. ASSUME NEW p \in Posts, NEW chans \in (SUBSET Channels) \ {{}},
                 ScheduleLoad(s, p, chans)
          PROVE  Goal
      BY <2>1 DEF ScheduleLoad, JustRead, TypeOK, RequestsTyped, tables
    <2>2. CASE ScheduleCheckMedia(s) \/ ScheduleDate(s)
      BY <2>2 DEF ScheduleCheckMedia, ScheduleDate, Free, TypeOK, RequestsTyped,
                  ScheduleState
    <2>3. ASSUME NEW c \in Channels, NEW tokenValid \in BOOLEAN,
                 ScheduleCheckChannel(s, c, tokenValid)
          PROVE  Goal
      BY <2>3 DEF ScheduleCheckChannel, Free, TypeOK, RequestsTyped, ScheduleState
    <2>4. ASSUME NEW c \in Channels, ScheduleCreateVariant(s, c) PROVE Goal
      BY <2>4 DEF ScheduleCreateVariant, Free, TypeOK, RequestsTyped, ScheduleState
    <2>5. Free(IdleSchedule) /\ Free([IdleSchedule EXCEPT !.pc = "conflict"])
      BY DEF IdleSchedule, Free
    <2>6. CASE ScheduleRefuse(s) \/ ScheduleDies(s) \/ ScheduleSave(s)
      BY <2>5, <2>6 DEF ScheduleRefuse, ScheduleDies, ScheduleSave, TypeOK,
                        RequestsTyped
    <2> QED
      BY <1>2, <2>1, <2>2, <2>3, <2>4, <2>6 DEF ScheduleNext, ScheduleStep
  <1>3. ASSUME NEW t \in Schedulers, t # s, ScheduleNext(t)
        PROVE  schedule'[s] = schedule[s]
    BY <1>3 DEF ScheduleNext, ScheduleStep, ScheduleLoad, ScheduleCheckMedia,
       ScheduleCheckChannel, ScheduleRefuse, ScheduleDate, ScheduleCreateVariant,
       ScheduleSave, ScheduleDies, TypeOK, RequestsTyped
  <1>4. UNCHANGED schedule \/ \E t \in Schedulers : ScheduleNext(t)
    BY EditorialFrame, CancelFrame, DisconnectFrame, PublishFrame
       DEF Next, vars, requests
  <1> QED
    BY <1>1, <1>2, <1>3, <1>4

LEMMA CancelReads ==
    ASSUME TypeOK, [Next]_vars, NEW k \in Cancellers, cancel'[k].pc = "save"
    PROVE  \/ cancel'[k] = cancel[k]
           \/ JustRead(cancel'[k].post, cancel'[k].read, "scheduled")
  <1>1. ASSUME CancelNext(k)
        PROVE  JustRead(cancel'[k].post, cancel'[k].read, "scheduled")
    <2>1. ASSUME NEW p \in Posts, CancelLoad(k, p)
          PROVE  JustRead(cancel'[k].post, cancel'[k].read, "scheduled")
      BY <2>1 DEF CancelLoad, CanCancel, JustRead, TypeOK, RequestsTyped, tables
    <2>2. ~CancelSave(k) /\ ~CancelDies(k)
      BY DEF CancelSave, CancelDies, IdleCancel, TypeOK, RequestsTyped, CancelState
    <2> QED
      BY <1>1, <2>1, <2>2 DEF CancelNext
  <1>2. ASSUME NEW j \in Cancellers, j # k, CancelNext(j)
        PROVE  cancel'[k] = cancel[k]
    BY <1>2 DEF CancelNext, CancelLoad, CancelSave, CancelDies, TypeOK, RequestsTyped
  <1>3. UNCHANGED cancel \/ \E j \in Cancellers : CancelNext(j)
    BY EditorialFrame, ScheduleFrame, DisconnectFrame, PublishFrame
       DEF Next, vars, requests
  <1> QED
    BY <1>1, <1>2, <1>3

LEMMA DisconnectReads ==
    ASSUME TypeOK, [Next]_vars, NEW d \in Disconnecters,
           disconnect'[d].pc = "cancel", NEW p \in disconnect'[d].todo
    PROVE  \/ /\ disconnect[d].pc = "cancel"
              /\ p \in disconnect[d].todo
              /\ disconnect'[d].read[p] = disconnect[d].read[p]
           \/ JustRead(p, disconnect'[d].read[p], "scheduled")
  <1> DEFINE Goal == \/ /\ disconnect[d].pc = "cancel"
                        /\ p \in disconnect[d].todo
                        /\ disconnect'[d].read[p] = disconnect[d].read[p]
                     \/ JustRead(p, disconnect'[d].read[p], "scheduled")
  <1>1. ASSUME DisconnectNext(d) PROVE Goal
    <2>1. CASE DisconnectList(d)
      <3> DEFINE rows(listed) == [q \in Posts |-> IF q \in listed THEN posts[q]
                                                                ELSE NewPost]
      <3>1. PICK listed \in {{q \in Posts : posts[q].status = "scheduled"}}
                               \cup (IF Faults THEN {{}} ELSE {}) :
               disconnect' = [disconnect EXCEPT ![d].pc = "cancel",
                                                ![d].todo = listed,
                                                ![d].read = rows(listed)]
        BY <2>1 DEF DisconnectList
      <3>2. \A q \in listed : q \in Posts /\ posts[q].status = "scheduled"
        OBVIOUS
      <3>3. disconnect'[d].todo = listed /\ disconnect'[d].read = rows(listed)
        BY <3>1 DEF TypeOK, RequestsTyped, DisconnectState
      <3>4. p \in Posts /\ rows(listed)[p] = posts[p] /\ posts[p].status = "scheduled"
        BY <3>2, <3>3
      <3>5. UNCHANGED posts
        BY <2>1 DEF DisconnectList, tables
      <3> QED
        BY <3>3, <3>4, <3>5 DEF JustRead
    <2>2. ASSUME NEW q \in Posts, DisconnectCancelPost(d, q) PROVE Goal
      <3>1. /\ disconnect[d].pc = "cancel"
            /\ disconnect'[d].todo = disconnect[d].todo \ {q}
            /\ disconnect'[d].read = [disconnect[d].read EXCEPT ![q] = NewPost]
            /\ disconnect[d].read \in [Posts -> PostRow]
            /\ disconnect[d].todo \subseteq Posts
        BY <2>2 DEF DisconnectCancelPost, TypeOK, RequestsTyped, DisconnectState
      <3>2. p \in disconnect[d].todo /\ p # q
        BY <3>1
      <3> QED
        BY <3>1, <3>2
    <2>3. CASE DisconnectSave(d) \/ DisconnectDies(d)
      <3>1. disconnect'[d] = IdleDisconnect
        BY <2>3 DEF DisconnectSave, DisconnectDies, TypeOK, RequestsTyped
      <3> QED
        BY <3>1 DEF IdleDisconnect
    <2>4. ASSUME NEW c \in Channels, DisconnectLoad(d, c) PROVE Goal
      <3>1. disconnect'[d] = [IdleDisconnect EXCEPT
               !.pc = "list", !.chan = c, !.row = SetStatus(channels[c], "disconnected")]
        BY <2>4 DEF DisconnectLoad, TypeOK, RequestsTyped
      <3>2. disconnect'[d].pc = "list"
        BY <3>1 DEF IdleDisconnect
      <3> QED
        BY <3>2
    <2> QED
      BY <1>1, <2>1, <2>2, <2>3, <2>4 DEF DisconnectNext, DisconnectStep
  <1>2. ASSUME NEW e \in Disconnecters, e # d, DisconnectNext(e)
        PROVE  disconnect'[d] = disconnect[d]
    BY <1>2 DEF DisconnectNext, DisconnectStep, DisconnectLoad, DisconnectList,
       DisconnectCancelPost, DisconnectSave, DisconnectDies, TypeOK, RequestsTyped
  <1>3. UNCHANGED disconnect \/ \E e \in Disconnecters : DisconnectNext(e)
    BY EditorialFrame, ScheduleFrame, CancelFrame, PublishFrame
       DEF Next, vars, requests
  <1>4. ASSUME disconnect'[d] = disconnect[d] PROVE Goal
    BY <1>4
  <1> QED
    BY <1>1, <1>2, <1>3, <1>4

LEMMA PublishReads ==
    ASSUME TypeOK, [Next]_vars, NEW w \in Workers, worker'[w].pc # "idle"
    PROVE  \/ /\ worker[w].pc # "idle"
              /\ worker'[w].post = worker[w].post
              /\ worker'[w].read = worker[w].read
           \/ JustRead(worker'[w].post, worker'[w].read, "scheduled")
  <1> DEFINE Goal == \/ /\ worker[w].pc # "idle"
                        /\ worker'[w].post = worker[w].post
                        /\ worker'[w].read = worker[w].read
                     \/ JustRead(worker'[w].post, worker'[w].read, "scheduled")
  <1>1. ASSUME PublishNext(w) PROVE Goal
    <2>1. ASSUME NEW p \in Posts, PublishLoad(w, p) PROVE Goal
      BY <2>1 DEF PublishLoad, JustRead, IdleWorker, TypeOK, RequestsTyped, tables
    <2>2. /\ NextVariant(w).post = worker[w].post
          /\ NextVariant(w).read = worker[w].read
          /\ IdleWorker.pc = "idle"
      BY DEF NextVariant, IdleWorker, TypeOK, RequestsTyped, WorkerState
    <2>3. CASE PublishCheckMedia(w) \/ PublishLoadVariants(w) \/ PublishSend(w)
      BY <2>2, <2>3 DEF PublishCheckMedia, PublishLoadVariants, PublishSend,
                        TypeOK, RequestsTyped, WorkerState
    <2>4. CASE PublishVirus(w) \/ PublishFinish(w) \/ PublishDies(w)
      BY <2>2, <2>4 DEF PublishVirus, PublishFinish, PublishDies, Report,
                        TypeOK, RequestsTyped
    <2>5. ASSUME NEW c \in Channels, NEW tokenValid \in BOOLEAN,
                 PublishLoadChannel(w, c, tokenValid)
          PROVE  Goal
      BY <2>5 DEF PublishLoadChannel, TypeOK, RequestsTyped, WorkerState
    <2>6. CASE PublishRefused(w) \/ PublishMarkPublished(w) \/ PublishMarkFailed(w)
               \/ PublishRecordFailure(w)
      BY <2>2, <2>6 DEF PublishRefused, PublishMarkPublished, PublishMarkFailed,
                        PublishRecordFailure, TypeOK, RequestsTyped, WorkerState
    <2>7. CASE PublishResetFailures(w)
      BY <2>2, <2>7 DEF PublishResetFailures, NextVariant, TypeOK, RequestsTyped,
                        WorkerState
    <2> QED
      BY <1>1, <2>1, <2>3, <2>4, <2>5, <2>6, <2>7 DEF PublishNext, PublishStep
  <1>2. ASSUME NEW x \in Workers, x # w, PublishNext(x)
        PROVE  worker'[w] = worker[w]
    BY <1>2 DEF PublishNext, PublishStep, PublishLoad, PublishCheckMedia,
       PublishVirus, PublishLoadVariants, PublishLoadChannel, PublishRefused,
       PublishSend, PublishMarkPublished, PublishResetFailures, PublishMarkFailed,
       PublishRecordFailure, PublishFinish, PublishDies, Report, TypeOK, RequestsTyped
  <1>3. UNCHANGED worker \/ \E x \in Workers : PublishNext(x)
    BY EditorialFrame, ScheduleFrame, CancelFrame, DisconnectFrame
       DEF Next, vars, requests
  <1>4. ASSUME worker'[w] = worker[w] PROVE Goal
    BY <1>4
  <1> QED
    BY <1>1, <1>2, <1>3, <1>4

(***************************************************************************)
(* PgInv is inductive with TypeOK.                                         *)
(***************************************************************************)
LEMMA PgInvInit ==
    ASSUME Init
    PROVE  PgInv
  BY DEF Init, PgInv, Free, IdleSchedule, IdleCancel, IdleDisconnect, IdleWorker

\* A row that has just been read follows from the stored one.
LEMMA FreshTracks ==
    ASSUME TypeOK, NEW p, NEW row, JustRead(p, row, "scheduled")
    PROVE  Follows(posts'[p], row)
  BY DEF JustRead, Follows, TypeOK, TablesTyped, PostRow

LEMMA PgInvStep ==
    ASSUME TypeOK, TypeOK', VersionRule = "postgres", PgInv, [Next]_vars
    PROVE  PgInv'
  <1>1. OneWrite
    BY EveryStepWritesOnce
  <1>2. ASSUME NEW s \in Schedulers, ~Free(schedule'[s])
        PROVE  /\ posts'[schedule'[s].post] = schedule'[s].read
               /\ schedule'[s].read.status = "validated"
    <2>1. CASE JustRead(schedule'[s].post, schedule'[s].read, "validated")
      BY <2>1 DEF JustRead
    <2>2. CASE /\ ~Free(schedule[s])
               /\ schedule'[s].post = schedule[s].post
               /\ schedule'[s].read = schedule[s].read
      <3>1. schedule[s].post \in Posts
        BY <2>2 DEF TypeOK, RequestsTyped, ScheduleState, Free
      <3>2. Unmoved(schedule[s])
        BY <2>2 DEF PgInv
      <3>3. posts'[schedule[s].post] = schedule[s].read
        BY <1>1, <3>1, <3>2, UnmovedStays
      <3> QED
        BY <2>2, <3>2, <3>3 DEF Unmoved
    <2> QED
      BY <1>2, <2>1, <2>2, ScheduleReads
  <1>3. ASSUME NEW k \in Cancellers, cancel'[k].pc = "save"
        PROVE  Follows(posts'[cancel'[k].post], cancel'[k].read)
    <2>1. cancel'[k].post \in Posts /\ cancel'[k].read \in PostRow
      BY <1>3 DEF TypeOK, RequestsTyped, CancelState
    <2>2. CASE JustRead(cancel'[k].post, cancel'[k].read, "scheduled")
      BY <2>2, FreshTracks
    <2>3. CASE cancel'[k] = cancel[k]
      <3>1. Tracks(cancel[k].post, cancel[k].read)
        BY <1>3, <2>3 DEF PgInv
      <3> QED
        BY <1>1, <2>1, <2>3, <3>1, TracksStays
    <2> QED
      BY <1>3, <2>2, <2>3, CancelReads
  <1>4. ASSUME NEW d \in Disconnecters, disconnect'[d].pc = "cancel",
               NEW p \in disconnect'[d].todo
        PROVE  Follows(posts'[p], disconnect'[d].read[p])
    <2>1. p \in Posts /\ disconnect'[d].read[p] \in PostRow
      BY DEF TypeOK, RequestsTyped, DisconnectState
    <2>2. CASE JustRead(p, disconnect'[d].read[p], "scheduled")
      BY <2>2, FreshTracks
    <2>3. CASE /\ disconnect[d].pc = "cancel"
               /\ p \in disconnect[d].todo
               /\ disconnect'[d].read[p] = disconnect[d].read[p]
      <3>1. Tracks(p, disconnect[d].read[p])
        BY <2>3 DEF PgInv
      <3> QED
        BY <1>1, <2>1, <2>3, <3>1, TracksStays
    <2> QED
      BY <1>4, <2>2, <2>3, DisconnectReads
  <1>5. ASSUME NEW w \in Workers, worker'[w].pc # "idle"
        PROVE  Follows(posts'[worker'[w].post], worker'[w].read)
    <2>1. worker'[w].post \in Posts /\ worker'[w].read \in PostRow
      BY <1>5 DEF TypeOK, RequestsTyped, WorkerState
    <2>2. CASE JustRead(worker'[w].post, worker'[w].read, "scheduled")
      BY <2>2, FreshTracks
    <2>3. CASE /\ worker[w].pc # "idle"
               /\ worker'[w].post = worker[w].post
               /\ worker'[w].read = worker[w].read
      <3>1. Tracks(worker[w].post, worker[w].read)
        BY <2>3 DEF PgInv
      <3> QED
        BY <1>1, <2>1, <2>3, <3>1, TracksStays
    <2> QED
      BY <1>5, <2>2, <2>3, PublishReads
  <1> QED
    BY <1>2, <1>3, <1>4, <1>5 DEF PgInv, Tracks, Unmoved, Free

(***************************************************************************)
(* SM-01 holds of the stored posts: when the version is compared, whatever *)
(* stale rows the use cases hold, the writes PostgresPostRepo accepts move *)
(* a post along the arrows of post.go only.                                *)
(***************************************************************************)
THEOREM LifecycleImplemented ==
    ASSUME VersionRule = "postgres"
    PROVE  Spec => Lifecycle
  <1>1. Init => SM!Init
    <2> SUFFICES ASSUME Init PROVE SM!Init
      OBVIOUS
    <2>1. PICK start \in [Posts -> PostStarts] :
             posts = [p \in Posts |-> InitialPost(start[p])]
      BY DEF Init
    <2>2. \A p \in Posts : posts[p].status \in {"draft", "validated", "scheduled"}
      BY <2>1, ConstantsAssumption DEF InitialPost
    <2> QED
      BY <2>2 DEF SM!Init
  <1>2. ASSUME TypeOK, PgInv, [Next]_vars
        PROVE  [SM!Next]_([p \in Posts |-> posts[p].status])
    <2> DEFINE was == [p \in Posts |-> posts[p].status]
               now == [p \in Posts |-> posts'[p].status]
    <2>1. CASE UNCHANGED posts
      BY <2>1
    <2>2. ASSUME NEW q \in Posts, NEW row \in PostRow, Advances(q, row),
                 posts' = [posts EXCEPT ![q] = row]
          PROVE  SM!Next \/ now = was
      <3>1. now = [was EXCEPT ![q] = row.status]
        BY <1>2, <2>2 DEF TypeOK, TablesTyped
      <3>2. CASE row.status = posts[q].status
        BY <3>1, <3>2
      <3>3. CASE CanTransitionTo(posts[q].status, row.status)
        <4>1. row.status \in PostStatuses
          BY DEF PostRow
        <4>2. SM!Move(q, row.status)
          BY <3>1, <3>3, <2>2 DEF SM!Move, SM!CanTransitionTo, SM!SM01, CanTransitionTo, SM01
        <4> QED
          BY <4>1, <4>2 DEF SM!Next, SM!PostStatuses, PostStatuses
      <3> QED
        BY <2>2, <3>2, <3>3 DEF Advances
    <2> QED
      BY <1>2, <2>1, <2>2, EveryStepWritesOnce DEF OneWrite
  <1>3. Init /\ TypeOK => PgInv
    BY PgInvInit
  <1>4. TypeOK /\ TypeOK' /\ PgInv /\ [Next]_vars => PgInv'
    BY PgInvStep
  <1> QED
    BY <1>1, <1>2, <1>3, <1>4, TypeCorrect, PTL DEF Spec, Lifecycle, SM!Spec

(***************************************************************************)
(* No schedule is ever stored: SchedulePost reads a post, Schedule adds    *)
(* one to its version, and PostgresPostRepo.Update looks for a row of that *)
(* version.  Nothing else writes to the validated post it read, so the     *)
(* UPDATE always finds no row.                                             *)
(***************************************************************************)
THEOREM NoScheduleIsStored ==
    ASSUME VersionRule = "postgres"
    PROVE  Spec => [][targets' = targets]_vars
  <1>1. ASSUME TypeOK, PgInv, [Next]_vars
        PROVE  targets' = targets
    <2>1. ASSUME NEW s \in Schedulers, ScheduleNext(s) PROVE targets' = targets
      BY <1>1, <2>1, ScheduleWritesNothing
    <2>2. UNCHANGED targets \/ \E s \in Schedulers : ScheduleNext(s)
      BY <1>1, EditorialFrame, CancelFrame, DisconnectFrame, PublishFrame
         DEF Next, vars, history
    <2> QED
      BY <2>1, <2>2
  <1>2. Init => PgInv
    BY PgInvInit
  <1>3. TypeOK /\ TypeOK' /\ PgInv /\ [Next]_vars => PgInv'
    BY PgInvStep
  <1> QED
    BY <1>1, <1>2, <1>3, TypeCorrect, PTL DEF Spec
-------------------------------------------------------------------------------
(***************************************************************************)
(* No post is ever stored as published or failed: the worker writes back   *)
(* the row it read, which was scheduled, and no other write goes beyond.   *)
(***************************************************************************)
StoredInv ==
    /\ NothingStoredBeyondTheSchedule
    /\ \A w \in Workers : worker[w].pc # "idle" => worker[w].read.status = "scheduled"

\* The statuses a write may leave a post in.
Written == {"draft", "pending_validation", "validated", "rejected", "scheduled"}

LEMMA StoredMoves ==
    ASSUME TypeOK, StoredInv, [Next]_vars, NEW p \in Posts
    PROVE  posts'[p].status \in {posts[p].status} \cup Written
  <1> DEFINE Goal == posts'[p].status \in {posts[p].status} \cup Written
  <1>1. ASSUME NEW q \in Posts, NEW row \in PostRow, row.status \in Written,
               UpdatePost(q, row)
        PROVE  Goal
    BY <1>1, StoredStatus DEF UpdatePost, TypeOK, TablesTyped
  <1>2. CASE UNCHANGED posts
    BY <1>2
  <1>3. ASSUME NEW q \in Posts, Review(q) PROVE Goal
    <2>1. posts[q] \in PostRow
      BY DEF TypeOK, TablesTyped
    <2> QED
      BY <1>3, <2>1, StoredStatus DEF Review, Written, TypeOK, TablesTyped
  <1>4. ASSUME NEW s \in Schedulers, ScheduleSave(s) PROVE Goal
    <2>1. schedule[s].post \in Posts /\ schedule[s].read \in PostRow
      BY <1>4 DEF ScheduleSave, TypeOK, RequestsTyped, ScheduleState
    <2>2. Schedule(schedule[s].read) \in PostRow
          /\ Schedule(schedule[s].read).status = "scheduled"
      BY <2>1, PostTransitionTypes DEF Schedule, MovedTo
    <2> QED
      BY <1>1, <1>2, <1>4, <2>1, <2>2 DEF ScheduleSave, Written
  <1>5. ASSUME NEW k \in Cancellers, CancelSave(k) PROVE Goal
    <2>1. cancel[k].post \in Posts /\ cancel[k].read \in PostRow
      BY <1>5 DEF CancelSave, TypeOK, RequestsTyped, CancelState
    <2>2. Cancel(cancel[k].read) \in PostRow /\ Cancel(cancel[k].read).status = "draft"
      BY <2>1, PostTransitionTypes DEF Cancel, MovedTo
    <2> QED
      BY <1>1, <1>2, <1>5, <2>1, <2>2 DEF CancelSave, Written
  <1>6. ASSUME NEW d \in Disconnecters, NEW q \in Posts, DisconnectCancelPost(d, q)
        PROVE  Goal
    <2>1. disconnect[d].read[q] \in PostRow
      BY DEF TypeOK, RequestsTyped, DisconnectState
    <2>2. /\ Cancel(disconnect[d].read[q]) \in PostRow
          /\ Cancel(disconnect[d].read[q]).status = "draft"
      BY <2>1, PostTransitionTypes DEF Cancel, MovedTo
    <2> QED
      BY <1>1, <1>2, <1>6, <2>2 DEF DisconnectCancelPost, Written
  <1>7. ASSUME NEW w \in Workers, PublishVirus(w) \/ PublishFinish(w) PROVE Goal
    <2>1. worker[w].pc # "idle" /\ WriteBack(w)
      BY <1>7 DEF PublishVirus, PublishFinish
    <2>2. /\ worker[w].post \in Posts /\ worker[w].read \in PostRow
          /\ worker[w].read.status = "scheduled"
      BY <2>1, BusyWorker DEF StoredInv
    <2> QED
      BY <1>1, <1>2, <2>1, <2>2 DEF WriteBack, Written
  <1>8. \/ UNCHANGED posts
        \/ \E q \in Posts : Review(q)
        \/ \E s \in Schedulers : ScheduleSave(s)
        \/ \E k \in Cancellers : CancelSave(k)
        \/ \E d \in Disconnecters, q \in Posts : DisconnectCancelPost(d, q)
        \/ \E w \in Workers : PublishVirus(w) \/ PublishFinish(w)
    BY DEF Next, vars, tables, Quarantine, ScheduleNext, ScheduleStep,
       ScheduleLoad, ScheduleCheckMedia, ScheduleCheckChannel, ScheduleRefuse,
       ScheduleDate, ScheduleCreateVariant, ScheduleDies, CancelNext, CancelLoad,
       CancelDies, DisconnectNext, DisconnectStep, DisconnectLoad, DisconnectList,
       DisconnectSave, DisconnectDies, PublishNext, PublishStep, PublishLoad,
       PublishCheckMedia, PublishLoadVariants, PublishLoadChannel, PublishRefused,
       PublishSend, PublishMarkPublished, PublishResetFailures, PublishMarkFailed,
       PublishRecordFailure, PublishDies
  <1> QED
    BY <1>2, <1>3, <1>4, <1>5, <1>6, <1>7, <1>8

\* Whatever the store compares and whatever fails, what PublishPost reports as
\* published or failed is never what it stores: ReportedStatusIsStored and
\* VirusFailsThePost are kept only by an execution that reports neither.
THEOREM NothingStoredBeyondHolds == Spec => []NothingStoredBeyondTheSchedule
  <1>1. Init => StoredInv
    <2> SUFFICES ASSUME Init PROVE StoredInv
      OBVIOUS
    <2>1. \A p \in Posts : posts[p].status \in {"draft", "validated", "scheduled"}
      <3>1. PICK start \in [Posts -> PostStarts] :
               posts = [p \in Posts |-> InitialPost(start[p])]
        BY DEF Init
      <3>2. \A p \in Posts : start[p] \in {"draft", "validated", "scheduled"}
        BY ConstantsAssumption DEF ConstantsAssumption
      <3> QED
        BY <3>1, <3>2 DEF InitialPost
    <2>2. \A w \in Workers : worker[w].pc = "idle"
      BY DEF Init, IdleWorker
    <2> QED
      BY <2>1, <2>2 DEF StoredInv, NothingStoredBeyondTheSchedule
  <1>2. TypeOK /\ StoredInv /\ [Next]_vars => StoredInv'
    <2> SUFFICES ASSUME TypeOK, StoredInv, [Next]_vars PROVE StoredInv'
      OBVIOUS
    <2>1. NothingStoredBeyondTheSchedule'
      BY StoredMoves DEF StoredInv, NothingStoredBeyondTheSchedule, Written
    <2>2. ASSUME NEW w \in Workers, worker'[w].pc # "idle"
          PROVE  worker'[w].read.status = "scheduled"
      BY <2>2, PublishReads DEF JustRead, StoredInv
    <2> QED
      BY <2>1, <2>2 DEF StoredInv
  <1>3. StoredInv => NothingStoredBeyondTheSchedule
    BY DEF StoredInv
  <1> QED
    BY <1>1, <1>2, <1>3, TypeCorrect, PTL DEF Spec
-------------------------------------------------------------------------------
(***************************************************************************)
(* A disconnection carries the row it read with its new status from its    *)
(* first step to its last.                                                 *)
(***************************************************************************)
RowLeavesService ==
    \A d \in Disconnecters : disconnect[d].pc # "idle" =>
        disconnect[d].row.status = "disconnected"

\* When none is cut short no disconnection ends otherwise, however many of its
\* cancellations were refused or failed: what DisconnectionIsStored needs besides
\* progress.
THEOREM DisconnectionEndsStoredHolds ==
    ASSUME ~Crashes
    PROVE  Spec => DisconnectionEndsStored
  <1>1. Init => RowLeavesService
    BY DEF Init, RowLeavesService, IdleDisconnect
  <1>2. ASSUME TypeOK, RowLeavesService, [Next]_vars
        PROVE  /\ RowLeavesService'
               /\ \A d \in Disconnecters, c \in Channels :
                     /\ disconnect[d].pc # "idle"
                     /\ disconnect'[d].pc = "idle"
                     /\ disconnect[d].chan = c
                     => channels'[c].status = "disconnected"
    <2> DEFINE Goal == /\ RowLeavesService'
                       /\ \A d \in Disconnecters, c \in Channels :
                             /\ disconnect[d].pc # "idle"
                             /\ disconnect'[d].pc = "idle"
                             /\ disconnect[d].chan = c
                             => channels'[c].status = "disconnected"
    <2> USE <1>2
    <2>1. CASE UNCHANGED disconnect
      BY <2>1 DEF RowLeavesService
    \* Steps of a request that keep its row and its channel.
    <2>2. ASSUME NEW d \in Disconnecters, NEW r,
                 disconnect' = [disconnect EXCEPT ![d] = r],
                 r.pc # "idle", r.row.status = "disconnected"
          PROVE  Goal
      <3>1. \A e \in Disconnecters :
               disconnect'[e] = IF e = d THEN r ELSE disconnect[e]
        BY <2>2 DEF TypeOK, RequestsTyped
      <3> QED
        BY <2>2, <3>1 DEF RowLeavesService
    <2>3. ASSUME NEW d \in Disconnecters, NEW c \in Channels, DisconnectLoad(d, c)
          PROVE  Goal
      <3> DEFINE r == [IdleDisconnect EXCEPT !.pc = "list", !.chan = c,
                                 !.row = SetStatus(channels[c], "disconnected")]
      <3>1. r.pc = "list" /\ r.row = SetStatus(channels[c], "disconnected")
        BY DEF IdleDisconnect
      <3>2. r.row.status = "disconnected"
        BY <3>1 DEF SetStatus, TypeOK, TablesTyped, ChannelRow
      <3> HIDE DEF r
      <3> QED
        BY <2>2, <2>3, <3>1, <3>2 DEF DisconnectLoad, r
    <2>4. ASSUME NEW d \in Disconnecters, disconnect[d].pc # "idle",
                 disconnect'[d].pc # "idle", disconnect'[d].row = disconnect[d].row,
                 \A e \in Disconnecters \ {d} : disconnect'[e] = disconnect[e]
          PROVE  Goal
      BY <2>4 DEF RowLeavesService
    <2>5. ASSUME NEW d \in Disconnecters, DisconnectList(d) PROVE Goal
      <3>1. PICK listed, read :
               disconnect' = [disconnect EXCEPT ![d].pc = "cancel",
                                                ![d].todo = listed, ![d].read = read]
        BY <2>5 DEF DisconnectList
      <3>2. disconnect[d].pc = "list"
        BY <2>5 DEF DisconnectList
      <3>3. /\ disconnect'[d].pc = "cancel"
            /\ disconnect'[d].row = disconnect[d].row
            /\ \A e \in Disconnecters \ {d} : disconnect'[e] = disconnect[e]
        BY <3>1 DEF TypeOK, RequestsTyped, DisconnectState
      <3> QED
        BY <2>4, <3>2, <3>3
    <2>6. ASSUME NEW d \in Disconnecters, NEW p \in Posts, DisconnectCancelPost(d, p)
          PROVE  Goal
      <3>1. /\ disconnect[d].pc = "cancel"
            /\ disconnect'[d].pc = disconnect[d].pc
            /\ disconnect'[d].row = disconnect[d].row
            /\ \A e \in Disconnecters \ {d} : disconnect'[e] = disconnect[e]
        BY <2>6 DEF DisconnectCancelPost, TypeOK, RequestsTyped, DisconnectState
      <3> QED
        BY <2>4, <3>1
    <2>7. ASSUME NEW d \in Disconnecters, DisconnectSave(d) PROVE Goal
      <3>1. disconnect[d].pc # "idle" /\ disconnect[d].row.status = "disconnected"
        BY <2>7 DEF DisconnectSave, RowLeavesService
      <3>2. disconnect' = [disconnect EXCEPT ![d] = IdleDisconnect]
            /\ IdleDisconnect.pc = "idle"
        BY <2>7 DEF DisconnectSave, IdleDisconnect
      <3>3. \A e \in Disconnecters \ {d} : disconnect'[e] = disconnect[e]
        BY <3>2 DEF TypeOK, RequestsTyped
      <3>4. disconnect[d].chan \in Channels
            /\ channels'[disconnect[d].chan] = disconnect[d].row
        BY <2>7, <3>1 DEF DisconnectSave, TypeOK, TablesTyped, RequestsTyped,
                          DisconnectState
      <3>5. disconnect'[d].pc = "idle"
        BY <3>2 DEF TypeOK, RequestsTyped
      <3> QED
        BY <3>1, <3>3, <3>4, <3>5 DEF RowLeavesService
    <2>8. UNCHANGED disconnect \/ \E d \in Disconnecters : DisconnectNext(d)
      BY EditorialFrame, ScheduleFrame, CancelFrame, PublishFrame
         DEF Next, vars, requests
    <2>9. \A d \in Disconnecters : ~DisconnectDies(d)
      BY DEF DisconnectDies
    <2> QED
      BY <2>1, <2>3, <2>5, <2>6, <2>7, <2>8, <2>9 DEF DisconnectNext, DisconnectStep
  <1> QED
    BY <1>1, <1>2, TypeCorrect, PTL DEF Spec, DisconnectionEndsStored
-------------------------------------------------------------------------------
(***************************************************************************)
(* The turns of the loop of PublishPost.  A busy worker either stays where *)
(* it is, has just taken a post, or goes from one point of the loop to the *)
(* next with the same post.                                                *)
(***************************************************************************)
Looping == {"next", "refused", "send", "sent", "reset", "failed", "record"}
Settled == {"failed", "published"}

\* r is what the worker held before the step and s what it holds after it.
Stays(r, s) == s.post = r.post /\ s.todo = r.todo /\ s.done = r.done
Sticks(r, s) == Stays(r, s) /\ s.chan = r.chan
Turns(r, s) == s.post = r.post /\ s.pc = "next" /\ s.todo = r.todo \ {r.chan}

Found(p) == {c \in Channels : variants[p][c] # "none"}

WorkerMove(w, r, s) ==
    \/ s = r
    \/ s.pc = "media" /\ s.done = {}
    \/ r.pc = "media" /\ s.pc \in {"virus", "load"} /\ Stays(r, s)
    \/ r.pc = "load" /\ s.pc = "next" /\ s.post = r.post /\ s.done = r.done
         /\ s.todo = Found(r.post)
    \/ r.pc = "next" /\ s.pc \in {"refused", "send"} /\ Stays(r, s)
    \/ r.pc \in {"refused", "record"} /\ Turns(r, s) /\ s.done = r.done
         /\ (r.pc = "refused" => MarkVariant(w, "failed"))
    \/ r.pc = "send" /\ s.pc = "sent" /\ Sticks(r, s) /\ posted'[r.post][r.chan] > 0
    \/ r.pc = "send" /\ s.pc = "failed" /\ Sticks(r, s)
    \/ r.pc = "send" /\ Turns(r, s) /\ s.done = r.done /\ posted'[r.post][r.chan] > 0
    \/ r.pc = "sent" /\ s.pc = "reset" /\ Sticks(r, s) /\ MarkVariant(w, "published")
    \/ r.pc = "reset" /\ Turns(r, s) /\ s.done = r.done \cup {r.chan}
    \/ r.pc = "failed" /\ s.pc = "record" /\ Sticks(r, s) /\ MarkVariant(w, "failed")

LEMMA NextVariantTurns ==
    ASSUME TypeOK, NEW w \in Workers
    PROVE  /\ Turns(worker[w], NextVariant(w))
           /\ NextVariant(w).done = worker[w].done
  BY DEF NextVariant, Turns, TypeOK, RequestsTyped, WorkerState

\* What is sent stays counted.
LEMMA PostedGrows ==
    ASSUME TypeOK, [Next]_vars,
           NEW p \in Posts, NEW c \in Channels, posted[p][c] > 0
    PROVE  posted'[p][c] > 0
  <1>1. CASE UNCHANGED posted
    BY <1>1
  <1>2. ASSUME NEW w \in Workers, PublishSend(w) PROVE posted'[p][c] > 0
    <2>1. \A n \in 0..MaxPosted : n > 0 => CountedPost(n) > 0
      BY ConstantsAssumption DEF ConstantsAssumption, CountedPost
    <2>2. posted[p][c] \in 0..MaxPosted
      BY DEF TypeOK, HistoryTyped
    <2> QED
      BY <1>2, <2>1, <2>2 DEF PublishSend, TypeOK, HistoryTyped
  <1>3. ASSUME NEW w \in Workers, PublishNext(w)
        PROVE  UNCHANGED posted \/ PublishSend(w)
    BY <1>3 DEF PublishNext, PublishStep, PublishLoad, PublishCheckMedia,
       PublishVirus, PublishLoadVariants, PublishLoadChannel, PublishRefused,
       PublishMarkPublished, PublishResetFailures, PublishMarkFailed,
       PublishRecordFailure, PublishFinish, PublishDies, tables, history
  <1> QED
    BY <1>1, <1>2, <1>3, EditorialFrame, ScheduleFrame, CancelFrame, DisconnectFrame
       DEF Next, vars, history

LEMMA WorkerMoves ==
    ASSUME TypeOK, [Next]_vars, NEW w \in Workers, worker'[w].pc # "idle"
    PROVE  WorkerMove(w, worker[w], worker'[w])
  <1> DEFINE r == worker[w]
             s == worker'[w]
             Goal == WorkerMove(w, r, s)
  <1> USE DEF WorkerMove, Stays, Sticks
  <1>1. IdleWorker.pc = "idle" /\ IdleWorker.done = {}
    BY DEF IdleWorker
  <1>2. Turns(r, NextVariant(w)) /\ NextVariant(w).done = r.done
    BY NextVariantTurns
  <1>3. ASSUME PublishNext(w) PROVE Goal
    <2>1. ASSUME NEW p \in Posts, PublishLoad(w, p) PROVE Goal
      BY <2>1 DEF PublishLoad, IdleWorker, TypeOK, RequestsTyped
    <2>2. CASE PublishCheckMedia(w)
      BY <2>2 DEF PublishCheckMedia, TypeOK, RequestsTyped, WorkerState
    <2>3. CASE PublishLoadVariants(w)
      BY <1>1, <2>3 DEF PublishLoadVariants, Found, TypeOK, RequestsTyped, WorkerState
    <2>4. ASSUME NEW c \in Channels, NEW tokenValid \in BOOLEAN,
                 PublishLoadChannel(w, c, tokenValid)
          PROVE  Goal
      BY <2>4 DEF PublishLoadChannel, TypeOK, RequestsTyped, WorkerState
    <2>5. CASE PublishRefused(w) \/ PublishRecordFailure(w)
      BY <1>2, <2>5 DEF PublishRefused, PublishRecordFailure, TypeOK, RequestsTyped
    <2>6. CASE PublishSend(w)
      <3>1. r.pc = "send" /\ r.post \in Posts /\ r.chan \in Channels
        BY <2>6, BusyWorker DEF PublishSend
      <3>2. ASSUME posted' = [posted EXCEPT ![r.post][r.chan] = CountedPost(@)]
            PROVE  posted'[r.post][r.chan] > 0
        <4>1. posted[r.post][r.chan] \in 0..MaxPosted
          BY <3>1 DEF TypeOK, HistoryTyped
        <4>2. \A n \in 0..MaxPosted : CountedPost(n) > 0
          BY ConstantsAssumption DEF ConstantsAssumption, CountedPost
        <4> QED
          BY <3>1, <3>2, <4>1, <4>2 DEF TypeOK, HistoryTyped
      <3>3. \A pc \in {"sent", "failed"} : Sticks(r, [r EXCEPT !.pc = pc])
                                          /\ [r EXCEPT !.pc = pc].pc = pc
        BY DEF TypeOK, RequestsTyped, WorkerState
      <3>4. \/ /\ posted' = [posted EXCEPT ![r.post][r.chan] = CountedPost(@)]
               /\ s = [r EXCEPT !.pc = "sent"] \/ s = NextVariant(w)
            \/ s = [r EXCEPT !.pc = "failed"]
        BY <2>6 DEF PublishSend, TypeOK, RequestsTyped
      <3>5. CASE posted'[r.post][r.chan] > 0 /\ s = [r EXCEPT !.pc = "sent"]
        BY <3>1, <3>3, <3>5
      <3>6. CASE posted'[r.post][r.chan] > 0 /\ s = NextVariant(w)
        BY <1>2, <3>1, <3>6
      <3>7. CASE s = [r EXCEPT !.pc = "failed"]
        BY <3>1, <3>3, <3>7
      <3> QED
        BY <3>2, <3>4, <3>5, <3>6, <3>7
    <2>7. CASE PublishMarkPublished(w) \/ PublishMarkFailed(w)
      BY <2>7 DEF PublishMarkPublished, PublishMarkFailed, TypeOK, RequestsTyped,
                  WorkerState
    <2>8. CASE PublishResetFailures(w)
      <3>1. r.pc = "reset"
            /\ s = [NextVariant(w) EXCEPT !.done = @ \cup {r.chan}]
        BY <2>8 DEF PublishResetFailures, TypeOK, RequestsTyped
      <3>2. Turns(r, s) /\ s.done = r.done \cup {r.chan}
        BY <3>1 DEF NextVariant, Turns, TypeOK, RequestsTyped, WorkerState
      <3> QED
        BY <3>1, <3>2
    <2>9. ~PublishVirus(w) /\ ~PublishFinish(w) /\ ~PublishDies(w)
      BY <1>1 DEF PublishVirus, PublishFinish, PublishDies, Report, TypeOK,
                  RequestsTyped
    <2> QED
      BY <1>3, <2>1, <2>2, <2>3, <2>4, <2>5, <2>6, <2>7, <2>8, <2>9
         DEF PublishNext, PublishStep
  <1>4. ASSUME NEW x \in Workers, x # w, PublishNext(x) PROVE s = r
    BY <1>4 DEF PublishNext, PublishStep, PublishLoad, PublishCheckMedia,
       PublishVirus, PublishLoadVariants, PublishLoadChannel, PublishRefused,
       PublishSend, PublishMarkPublished, PublishResetFailures, PublishMarkFailed,
       PublishRecordFailure, PublishFinish, PublishDies, Report, TypeOK,
       RequestsTyped
  <1>5. UNCHANGED worker \/ \E x \in Workers : PublishNext(x)
    BY EditorialFrame, ScheduleFrame, CancelFrame, DisconnectFrame
       DEF Next, vars, requests
  <1> QED
    BY <1>3, <1>4, <1>5

(***************************************************************************)
(* The channels a worker counts as published have all been sent to.        *)
(***************************************************************************)
ReportInv ==
    /\ ReportedPublishedWasSent
    /\ \A w \in Workers : worker[w].pc \in {"sent", "reset"} =>
          posted[worker[w].post][worker[w].chan] > 0
    /\ \A w \in Workers : worker[w].pc # "idle" =>
          \A c \in worker[w].done : posted[worker[w].post][c] > 0

\* With crashes, failed writes and any number of workers: a post is never
\* reported published before the platform was called for one of its channels.
THEOREM ReportedPublishedWasSentHolds == Spec => []ReportedPublishedWasSent
  <1>1. Init => ReportInv
    BY DEF Init, ReportInv, ReportedPublishedWasSent, IdleWorker
  <1>2. TypeOK /\ ReportInv /\ [Next]_vars => ReportInv'
    <2> SUFFICES ASSUME TypeOK, ReportInv, [Next]_vars PROVE ReportInv'
      OBVIOUS
    <2>1. \A p \in Posts, c \in Channels : posted[p][c] > 0 => posted'[p][c] > 0
      BY PostedGrows
    <2>2. ASSUME NEW w \in Workers, worker'[w].pc # "idle"
          PROVE  /\ worker'[w].pc \in {"sent", "reset"} =>
                       posted'[worker'[w].post][worker'[w].chan] > 0
                 /\ \A c \in worker'[w].done : posted'[worker'[w].post][c] > 0
      <3> DEFINE r == worker[w]
                 s == worker'[w]
      <3>1. WorkerMove(w, r, s)
        BY <2>2, WorkerMoves
      <3>2. /\ r.pc # "idle" => r.post \in Posts /\ r.done \subseteq Channels
            /\ r.pc \in {"send", "sent", "reset"} => r.chan \in Channels
        BY BusyWorker
      <3>3. /\ r.pc \in {"sent", "reset"} => posted[r.post][r.chan] > 0
            /\ r.pc # "idle" => \A c \in r.done : posted[r.post][c] > 0
        BY DEF ReportInv
      <3> HIDE DEF r, s
      <3>4. s.pc \in {"sent", "reset"} => posted'[s.post][s.chan] > 0
        BY <2>1, <3>1, <3>2, <3>3 DEF WorkerMove, Stays, Sticks, Turns
      <3>5. r.pc # "idle" => \A c \in r.done : posted'[r.post][c] > 0
        BY <2>1, <3>2, <3>3
      <3>6. r.pc = "reset" => posted'[r.post][r.chan] > 0
        BY <2>1, <3>2, <3>3
      <3>7. s.pc # "idle"
        BY <2>2 DEF s
      <3>8. \A c \in s.done : posted'[s.post][c] > 0
        BY <3>1, <3>5, <3>6, <3>7 DEF WorkerMove, Stays, Sticks, Turns
      <3> QED
        BY <3>4, <3>8 DEF s
    <2>3. ReportedPublishedWasSent'
      <3>1. ASSUME NEW w \in Workers, Report(w, "published"), PublishFinish(w)
            PROVE  ReportedPublishedWasSent'
        <4>1. worker[w].pc # "idle" /\ worker[w].done # {}
          BY <3>1 DEF PublishFinish, Report, TypeOK, HistoryTyped, RequestsTyped,
                      WorkerState
        <4>2. /\ worker[w].post \in Posts
              /\ \E c \in worker[w].done : c \in Channels /\ posted[worker[w].post][c] > 0
          BY <4>1, BusyWorker DEF ReportInv
        <4> QED
          BY <2>1, <3>1, <4>2 DEF Report, ReportInv, ReportedPublishedWasSent, TypeOK,
                                  HistoryTyped
      <3>2. ASSUME NEW w \in Workers, NEW to \in {"virus", "failed"}, Report(w, to)
            PROVE  ReportedPublishedWasSent'
        BY <2>1, <3>2 DEF Report, ReportInv, ReportedPublishedWasSent, TypeOK,
                          HistoryTyped
      <3>3. CASE UNCHANGED reported
        BY <2>1, <3>3 DEF ReportInv, ReportedPublishedWasSent
      <3>4. ASSUME NEW w \in Workers, PublishNext(w)
            PROVE  UNCHANGED reported \/ PublishVirus(w) \/ PublishFinish(w)
        BY <3>4 DEF PublishNext, PublishStep, PublishLoad, PublishCheckMedia,
           PublishLoadVariants, PublishLoadChannel, PublishRefused, PublishSend,
           PublishMarkPublished, PublishResetFailures, PublishMarkFailed,
           PublishRecordFailure, PublishDies, tables, history
      <3>5. ASSUME NEW w \in Workers, PublishVirus(w) \/ PublishFinish(w)
            PROVE  \/ Report(w, "published") /\ PublishFinish(w)
                   \/ Report(w, "virus") \/ Report(w, "failed")
        BY <3>5 DEF PublishVirus, PublishFinish
      <3> QED
        BY <3>1, <3>2, <3>3, <3>4, <3>5, EditorialFrame, ScheduleFrame, CancelFrame,
           DisconnectFrame DEF Next, vars, history
    <2> QED
      BY <2>2, <2>3 DEF ReportInv
  <1>3. ReportInv => ReportedPublishedWasSent
    BY DEF ReportInv
  <1> QED
    BY <1>1, <1>2, <1>3, TypeCorrect, PTL DEF Spec

(***************************************************************************)
(* A channel of the schedule leaves the list of a worker only when its     *)
(* variant has been marked or it has been sent to, and no step undoes that.*)
(***************************************************************************)
Attempted(p, c) == variants[p][c] \in Settled \/ posted[p][c] > 0

AttemptedInv ==
    \A w \in Workers :
        /\ worker[w].pc \in Looping =>
              \A c \in targets[worker[w].post] :
                 c \in worker[w].todo \/ Attempted(worker[w].post, c)
        /\ worker[w].pc \in {"reset", "record"} =>
              Attempted(worker[w].post, worker[w].chan)

LEMMA SettledStays ==
    ASSUME TypeOK, [Next]_vars,
           NEW p \in Posts, NEW c \in Channels, variants[p][c] \in Settled
    PROVE  variants'[p][c] \in Settled
  <1> USE DEF Settled
  <1>1. CASE UNCHANGED variants
    BY <1>1
  <1>2. ASSUME NEW s \in Schedulers, NEW d \in Channels, ScheduleCreateVariant(s, d)
        PROVE  variants'[p][c] \in Settled
    BY <1>2 DEF ScheduleCreateVariant, TypeOK, TablesTyped
  <1>3. ASSUME NEW w \in Workers, NEW to \in Settled, MarkVariant(w, to)
        PROVE  variants'[p][c] \in Settled
    BY <1>3 DEF MarkVariant, TypeOK, TablesTyped
  <1> QED
    BY <1>1, <1>2, <1>3, VariantWrites

LEMMA AttemptedStays ==
    ASSUME TypeOK, [Next]_vars,
           NEW p \in Posts, NEW c \in Channels, Attempted(p, c)
    PROVE  Attempted(p, c)'
  BY SettledStays, PostedGrows DEF Attempted

LEMMA AttemptedStep ==
    ASSUME ~Faults, VariantStorable, TypeOK, TypeOK', VariantInv, AttemptedInv, [Next]_vars,
           \A p \in Posts : targets'[p] # targets[p] =>
              \A w \in Workers : worker[w].pc = "idle" \/ worker[w].post # p
    PROVE  AttemptedInv'
  <1> DEFINE After(q, c) == variants'[q][c] \in Settled \/ posted'[q][c] > 0
  <1> SUFFICES ASSUME NEW w \in Workers, worker'[w].pc \in Looping
               PROVE  /\ \A c \in targets'[worker'[w].post] :
                            c \in worker'[w].todo \/ After(worker'[w].post, c)
                      /\ worker'[w].pc \in {"reset", "record"} =>
                            After(worker'[w].post, worker'[w].chan)
    BY DEF AttemptedInv, Looping, Attempted
  <1> DEFINE r == worker[w]
             s == worker'[w]
             p == r.post
             Goal == /\ \A c \in targets'[p] : c \in s.todo \/ After(p, c)
                     /\ s.pc \in {"reset", "record"} => After(p, s.chan)
  <1>1. WorkerMove(w, r, s)
    BY WorkerMoves DEF Looping
  <1>2. s.pc \in Looping /\ s.pc # "media" /\ s.pc # "idle"
    BY DEF Looping
  <1>3. /\ r.pc # "idle" /\ p \in Posts /\ s.post = p
        /\ r.pc \notin {"media", "virus", "load", "next"} => r.chan \in Channels
    <2>1. r.pc # "idle" /\ s.post = p
      BY <1>1, <1>2 DEF WorkerMove, Stays, Sticks, Turns
    <2> QED
      BY <2>1, BusyWorker
  <1>4. targets'[p] = targets[p] /\ targets[p] \subseteq Channels
    BY <1>3 DEF TypeOK, HistoryTyped
  <1>5. \A c \in Channels : Attempted(p, c) => After(p, c)
    BY <1>3, AttemptedStays DEF Attempted
  <1>6. /\ r.pc \in Looping =>
             \A c \in targets[p] : c \in r.todo \/ Attempted(p, c)
        /\ r.pc \in {"reset", "record"} => Attempted(p, r.chan)
    BY DEF AttemptedInv
  <1>7. \A to \in Settled : r.chan \in Channels /\ MarkVariant(w, to) =>
           After(p, r.chan)
    BY <1>3 DEF MarkVariant, TypeOK, TablesTyped
  <1>8. \A c \in targets[p] : c \in Found(p)
    BY <1>3, <1>4 DEF VariantInv, Found
  <1> SUFFICES Goal
    BY <1>3
  <1> HIDE DEF r, s, p, After
  <1>9. CASE s = r
    BY <1>2, <1>3, <1>4, <1>5, <1>6, <1>9 DEF Looping
  <1>10. CASE r.pc = "load" /\ s.todo = Found(p) /\ s.pc = "next"
    BY <1>3, <1>4, <1>8, <1>10
  <1>11. ASSUME Turns(r, s), r.pc \in Looping, r.chan \in Channels,
                After(p, r.chan)
         PROVE  \A c \in targets'[p] : c \in s.todo \/ After(p, c)
    BY <1>4, <1>5, <1>6, <1>11 DEF Turns
  <1>12. ASSUME s.todo = r.todo, r.pc \in Looping
         PROVE  \A c \in targets'[p] : c \in s.todo \/ After(p, c)
    BY <1>4, <1>5, <1>6, <1>12
  <1>13. CASE r.pc \in {"refused", "record", "reset"} /\ Turns(r, s)
    <2>1. r.pc \in Looping /\ r.chan \in Channels /\ s.pc = "next"
      BY <1>3, <1>13 DEF Looping, Turns
    <2>2. r.pc = "refused" => MarkVariant(w, "failed")
      BY <1>1, <1>2, <2>1 DEF WorkerMove, Stays, Sticks
    <2>3. After(p, r.chan)
      BY <1>5, <1>6, <1>7, <1>13, <2>1, <2>2 DEF Settled
    <2> QED
      BY <1>3, <1>11, <1>13, <2>1, <2>3
  <1>14. CASE r.pc \in {"sent", "failed"} /\ Sticks(r, s)
              /\ \E to \in Settled : MarkVariant(w, to)
    BY <1>3, <1>7, <1>12, <1>14 DEF Sticks, Stays, Looping
  <1>15. CASE r.pc \in {"next", "send"} /\ Stays(r, s)
              /\ s.pc \in {"refused", "send", "sent", "failed"}
    BY <1>3, <1>12, <1>15 DEF Stays, Looping
  <1>16. CASE r.pc = "send" /\ Turns(r, s) /\ posted'[p][r.chan] > 0
    <2>1. r.pc \in Looping /\ r.chan \in Channels /\ s.pc = "next"
      BY <1>3, <1>16 DEF Looping, Turns
    <2>2. After(p, r.chan)
      BY <1>16 DEF After
    <2> QED
      BY <1>3, <1>11, <1>16, <2>1, <2>2
  <1>17. \/ s = r
         \/ r.pc = "load" /\ s.todo = Found(p) /\ s.pc = "next"
         \/ r.pc \in {"refused", "record", "reset"} /\ Turns(r, s)
         \/ r.pc = "send" /\ Turns(r, s) /\ posted'[p][r.chan] > 0
         \/ r.pc \in {"sent", "failed"} /\ Sticks(r, s)
              /\ \E to \in Settled : MarkVariant(w, to)
         \/ r.pc \in {"next", "send"} /\ Stays(r, s)
              /\ s.pc \in {"refused", "send", "sent", "failed"}
    BY <1>1, <1>2 DEF WorkerMove, Sticks, Settled, Looping, p
  <1> QED
    BY <1>9, <1>10, <1>13, <1>14, <1>15, <1>16, <1>17

\* Where pending variants can be stored and no insertion or mark fails, a loop that
\* no schedule of its post disturbed has settled every channel of the schedule, or
\* sent to it, when it ends, whichever of them failed, and however many workers
\* took the post and died on it.
THEOREM TargetsAreAttemptedApart ==
    ASSUME ~Faults, VariantStorable
    PROVE  Spec /\ ScheduledApart => []TargetsAreAttempted
  <1>1. Init => VariantInv /\ AttemptedInv
    <2>1. Init => \A w \in Workers : worker[w].pc = "idle"
      BY DEF Init, IdleWorker
    <2> QED
      BY <2>1, VariantInit DEF AttemptedInv, Looping
  <1>2. AttemptedInv => TargetsAreAttempted
    BY DEF AttemptedInv, TargetsAreAttempted, Looping, Attempted, Settled
  <1>3. TypeOK /\ VariantInv /\ [Next]_vars => VariantInv'
    BY VariantStep
  <1>4. ASSUME TypeOK, TypeOK', VariantInv, AttemptedInv, [Next]_vars,
               [\A p \in Posts : targets'[p] # targets[p] =>
                   \A w \in Workers : worker[w].pc = "idle" \/ worker[w].post # p]_vars
        PROVE  AttemptedInv'
    <2>1. CASE UNCHANGED vars
      BY <1>4, <2>1 DEF vars, AttemptedInv, Attempted
    <2> QED
      BY <1>4, <2>1, AttemptedStep
  <1> QED
    BY <1>1, <1>2, <1>3, <1>4, TypeCorrect, PTL DEF Spec, ScheduledApart

\* The version column keeps the schedules apart from the workers.
COROLLARY TargetsAreAttemptedHolds ==
    ASSUME ~Faults, VariantStorable, VersionRule = "postgres"
    PROVE  Spec => []TargetsAreAttempted
  <1>1. ASSUME [targets' = targets]_vars
        PROVE  [\A p \in Posts : targets'[p] # targets[p] =>
                   \A w \in Workers : worker[w].pc = "idle" \/ worker[w].post # p]_vars
    BY <1>1
  <1>2. Spec => ScheduledApart
    BY <1>1, NoScheduleIsStored, PTL DEF ScheduledApart
  <1> QED
    BY <1>2, TargetsAreAttemptedApart, PTL
================================================================================
