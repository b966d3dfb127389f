--------------------------- MODULE ChannelConnection ---------------------------
(***************************************************************************)
(* ConnectChannel, with the rows DisconnectChannel stores: the tables      *)
(* channels and channel_credentials under concurrent connections.  A       *)
(* connection reads four times and writes twice, and nothing but the       *)
(* unique index of the first write sees what other requests do meanwhile.  *)
(* The posts a disconnection cancels are in PostPublishing; who may run a  *)
(* use case is in Permissions.                                             *)
(***************************************************************************)
EXTENDS ChannelDomain, FiniteSets

CONSTANTS
    Brands,          \* brands of one workspace
    Archivable,      \* those that may be archived meanwhile
    Platforms,       \* channel types
    Accounts,        \* external identifiers of accounts on the platforms
    Channels,        \* identifiers of channels, each drawn once
    Connecters,      \* goroutines serving ConnectChannel
    Disconnecters,   \* goroutines serving DisconnectChannel
    None,
    ChannelLimit,    \* max_channels of the workspace's plan
    CredentialStore, \* "port" or "stub": see CredentialsWith
    PlanChecker,     \* "port" or "stub": see WithinLimit
    Faults           \* may repository calls fail and processes crash?

ASSUME ConnectionAssumption ==
    /\ Archivable \subseteq Brands
    /\ None \notin Brands \cup Platforms \cup Accounts \cup Channels
    /\ IsFiniteSet(Channels)
    /\ IsFiniteSet(Connecters)
    /\ ChannelLimit \in Nat \ {0}
    /\ CredentialStore \in {"port", "stub"}
    /\ PlanChecker \in {"port", "stub"}
    /\ Faults \in BOOLEAN

VARIABLES
    channels,      \* table channels
    credentials,   \* table channel_credentials: the channels that have a row
    archived,      \* brands that have been archived
    connect,       \* running ConnectChannel requests
    disconnect     \* running DisconnectChannel requests

\* History: read by the properties only.
VARIABLES
    answered,      \* channels whose connection was answered with success
    harmed,        \* accounts for which a call failed or a process died
    raced          \* accounts two connections of which were past the lookup at once

tables == <<channels, credentials, archived>>
history == <<answered, harmed, raced>>
vars == <<channels, credentials, archived, connect, disconnect,
          answered, harmed, raced>>

NoRow == [brand |-> None, platform |-> None, account |-> None, status |-> "none"]
Row == [brand : Brands, platform : Platforms, account : Accounts,
        status : ChannelStatuses]

IdleConnect == [pc |-> "idle", brand |-> None, platform |-> None,
                account |-> None, channel |-> None]
IdleDisconnect == [pc |-> "idle", channel |-> None]

\* Only a connection whose first write is done has a channel.
ConnectState ==
    {IdleConnect}
    \cup [pc : {"lookup", "quota", "insert"}, brand : Brands, platform : Platforms,
          account : Accounts, channel : {None}]
    \cup [pc : {"credentials"}, brand : Brands, platform : Platforms,
          account : Accounts, channel : Channels]
DisconnectState == {IdleDisconnect} \cup [pc : {"save"}, channel : Channels]

\* Every variable holds a value of its kind.
TypeOK ==
    /\ channels \in [Channels -> Row \cup {NoRow}]
    /\ credentials \subseteq Channels
    /\ archived \subseteq Archivable
    /\ connect \in [Connecters -> ConnectState]
    /\ disconnect \in [Disconnecters -> DisconnectState]
    /\ answered \subseteq Channels
    /\ harmed \subseteq Accounts
    /\ raced \subseteq Accounts

Init ==
    /\ channels = [c \in Channels |-> NoRow]
    /\ credentials = {}
    /\ archived = {}
    /\ connect = [p \in Connecters |-> IdleConnect]
    /\ disconnect = [d \in Disconnecters |-> IdleDisconnect]
    /\ answered = {}
    /\ harmed = {}
    /\ raced = {}

\* Rows are never removed: nothing calls SoftDelete.
Stored == {c \in Channels : channels[c] # NoRow}
RowsOf(a) == {c \in Stored : channels[c].account = a}

ArchiveBrand(b) ==
    /\ b \in Archivable \ archived
    /\ archived' = archived \cup {b}
    /\ UNCHANGED <<channels, credentials, connect, disconnect, history>>
--------------------------------------------------------------------------------
(* ConnectChannel *)

\* Steps 1 to 4: the brand is loaded and not archived, the actor may connect.
ConnectLoad(p, b, t, a) ==
    /\ connect[p] = IdleConnect
    /\ b \notin archived
    /\ connect' = [connect EXCEPT ![p] =
          [pc |-> "lookup", brand |-> b, platform |-> t, account |-> a,
           channel |-> None]]
    /\ UNCHANGED <<tables, disconnect, history>>

\* Mutant: the account is looked for among the channels of the brand only.
MutantFound(r) == \E c \in RowsOf(r.account) : channels[c].brand = r.brand

\* GetByPlatformAccountID: over all brands and platforms, whatever the status.
Found(r) == RowsOf(r.account) # {}

\* Step 5; an error of the lookup counts as an account not found.
ConnectLookup(p) ==
    LET a == connect[p].account
        others == {q \in Connecters \ {p} :
                     connect[q].account = a /\ connect[q].pc # "lookup"}
    IN
    /\ connect[p].pc = "lookup"
    /\ \/ /\ Found(connect[p])
          /\ connect' = [connect EXCEPT ![p] = IdleConnect]
          /\ UNCHANGED <<harmed, raced>>
       \/ /\ ~Found(connect[p])
          /\ connect' = [connect EXCEPT ![p].pc = "quota"]
          /\ raced' = IF others = {} THEN raced ELSE raced \cup {a}
          /\ UNCHANGED harmed
       \/ /\ Faults
          /\ connect' = [connect EXCEPT ![p].pc = "quota"]
          /\ harmed' = harmed \cup {a}
          /\ UNCHANGED raced
    /\ UNCHANGED <<tables, disconnect, answered>>

\* Mutant: one channel too many.
MutantWithinLimit == PlanChecker = "stub" \/ Cardinality(Stored) <= ChannelLimit

\* CheckChannelLimit.  "stub": the only implementation, which accepts everything.
\* "port": what the answer MAX_CHANNELS_REACHED says of it, that it counts the
\* rows of the workspace.
WithinLimit == PlanChecker = "stub" \/ Cardinality(Stored) < ChannelLimit

\* Steps 6 to 8: the plan allows one more; the tokens are encrypted in memory.
ConnectQuota(p) ==
    /\ connect[p].pc = "quota"
    /\ connect' = [connect EXCEPT ![p] =
          IF WithinLimit THEN [@ EXCEPT !.pc = "insert"] ELSE IdleConnect]
    /\ UNCHANGED <<tables, disconnect, history>>

\* uq_channels_external, on brand, type and account.
Unique(r) ==
    \A c \in Stored : <<channels[c].brand, channels[c].platform, channels[c].account>>
                         # <<r.brand, r.platform, r.account>>

\* Mutant: the status of SM-07 in the comments, which is none of the statuses.
MutantNewConnectedChannel(r) ==
    [brand |-> r.brand, platform |-> r.platform, account |-> r.account,
     status |-> "connected"]

\* The connection starts pending review, and nothing moves it on.
NewConnectedChannel(r) ==
    [brand |-> r.brand, platform |-> r.platform, account |-> r.account,
     status |-> "pending_review"]

\* An identifier that has not been drawn: which one makes no difference.
FreshId == CHOOSE c \in Channels : channels[c] = NoRow

\* Step 9, first write.
ConnectInsert(p) ==
    LET c == FreshId IN
    /\ connect[p].pc = "insert"
    /\ Stored # Channels
    /\ Unique(connect[p])
    /\ channels' = [channels EXCEPT ![c] = NewConnectedChannel(connect[p])]
    /\ connect' = [connect EXCEPT ![p] =
          [@ EXCEPT !.pc = "credentials", !.channel = c]]
    /\ UNCHANGED <<credentials, archived, disconnect, history>>

\* Mutant: the refused request takes the row of its brand, platform and account
\* back, which is that of the request that came first.
MutantConnectRefused(p) ==
    /\ connect[p].pc = "insert"
    /\ ~Unique(connect[p])
    /\ channels' = [c \in Channels |->
          IF <<channels[c].brand, channels[c].platform, channels[c].account>>
                = <<connect[p].brand, connect[p].platform, connect[p].account>>
          THEN NoRow ELSE channels[c]]
    /\ connect' = [connect EXCEPT ![p] = IdleConnect]
    /\ UNCHANGED <<credentials, archived, disconnect, history>>

\* The index refuses the row: answered as a failure one may retry.
ConnectRefused(p) ==
    /\ connect[p].pc = "insert"
    /\ ~Unique(connect[p])
    /\ connect' = [connect EXCEPT ![p] = IdleConnect]
    /\ UNCHANGED <<tables, disconnect, history>>

\* channelCredRepo.Create.  "port": the row is stored, as the port says.  "stub":
\* the only implementation, which answers nil and stores nothing.
CredentialsWith(c) ==
    IF CredentialStore = "port" THEN credentials \cup {c} ELSE credentials

\* Mutant: the error of the second write is dropped.
MutantConnectCredentials(p) ==
    LET c == connect[p].channel IN
    /\ connect[p].pc = "credentials"
    /\ \/ credentials' = CredentialsWith(c)
       \/ Faults /\ UNCHANGED credentials
    /\ answered' = answered \cup {c}
    /\ connect' = [connect EXCEPT ![p] = IdleConnect]
    /\ UNCHANGED <<channels, archived, disconnect, harmed, raced>>

\* Step 9, second write, and the answer.
ConnectCredentials(p) ==
    LET c == connect[p].channel IN
    /\ connect[p].pc = "credentials"
    /\ credentials' = CredentialsWith(c)
    /\ answered' = answered \cup {c}
    /\ connect' = [connect EXCEPT ![p] = IdleConnect]
    /\ UNCHANGED <<channels, archived, disconnect, harmed, raced>>

\* A process dies, or a call or the encryption fails, which ends the request.
ConnectDies(p) ==
    /\ Faults
    /\ connect[p] # IdleConnect
    /\ harmed' = harmed \cup {connect[p].account}
    /\ connect' = [connect EXCEPT ![p] = IdleConnect]
    /\ UNCHANGED <<tables, disconnect, answered, raced>>
--------------------------------------------------------------------------------
(* DisconnectChannel.  Nothing else writes a channel pending review: CanPublish *)
(* refuses it, so no worker gets as far as its counter.                         *)

\* Steps 2 to 7; a channel that is already disconnected ends the request.
DisconnectLoad(d, c) ==
    /\ disconnect[d] = IdleDisconnect
    /\ c \in Stored
    /\ channels[c].status # "disconnected"
    /\ disconnect' = [disconnect EXCEPT ![d] = [pc |-> "save", channel |-> c]]
    /\ UNCHANGED <<tables, connect, history>>

\* Step 9: Update, which leaves the credentials alone.
DisconnectSave(d) ==
    LET c == disconnect[d].channel IN
    /\ disconnect[d].pc = "save"
    /\ \/ channels' = [channels EXCEPT ![c] = SetStatus(@, "disconnected")]
       \/ Faults /\ UNCHANGED channels
    /\ disconnect' = [disconnect EXCEPT ![d] = IdleDisconnect]
    /\ UNCHANGED <<credentials, archived, connect, history>>
--------------------------------------------------------------------------------
ConnectStep(p) ==
    \/ ConnectLookup(p)
    \/ ConnectQuota(p)
    \/ ConnectInsert(p)
    \/ ConnectRefused(p)
    \/ ConnectCredentials(p)

ConnectNext(p) ==
    \/ \E b \in Brands, t \in Platforms, a \in Accounts : ConnectLoad(p, b, t, a)
    \/ ConnectStep(p)
    \/ ConnectDies(p)

DisconnectNext(d) == (\E c \in Channels : DisconnectLoad(d, c)) \/ DisconnectSave(d)

Next ==
    \/ \E b \in Brands : ArchiveBrand(b)
    \/ \E p \in Connecters : ConnectNext(p)
    \/ \E d \in Disconnecters : DisconnectNext(d)

Spec == Init /\ [][Next]_vars

\* A request that has started runs to its end, unless it dies.
FairSpec == Spec /\ \A p \in Connecters : WF_vars(ConnectStep(p))
--------------------------------------------------------------------------------
Writing(c) == \E p \in Connecters : connect[p].pc = "credentials" /\ connect[p].channel = c

\* connect.go, step 9, "deux writes atomiques": what the order of the two writes
\* keeps of it when the second one stores what it is given (CredentialStore =
\* "port").  A channel is answered as connected only with its credentials, and
\* one without is being written or belongs to an account that met a failure.
AnsweredIsComplete == answered \subseteq Stored \cap credentials

HalfWrittenMeansHarm ==
    \A c \in Stored \ credentials : Writing(c) \/ channels[c].account \in harmed

\* connect.go, step 6: the check of the plan and the insertion are three calls
\* apart; a limit that is counted (PlanChecker = "port") is overrun by no more
\* than the connections running at once.
LimitOverrun ==
    Cardinality(Stored) < ChannelLimit + Cardinality(Connecters)

\* connect.go, step 5, C-5: an account is connected once, over all brands and
\* platforms, as long as no two connections of it run at once.
ConnectedOnceUnlessRaced ==
    \A a \in Accounts \ (harmed \cup raced) : Cardinality(RowsOf(a)) <= 1

Complete(a) == RowsOf(a) \cap credentials # {}

\* connect.go: when connections of one account race, one of them wins: once a
\* request has passed its checks the account ends up with a channel and its
\* credentials (CredentialStore = "port"), whoever wrote them, unless a failure
\* hit a request for it.
CheckedIsConnected ==
    \A p \in Connecters, a \in Accounts :
        (connect[p].pc = "insert" /\ connect[p].account = a)
            ~> (Complete(a) \/ a \in harmed)
--------------------------------------------------------------------------------
\* connect.go, step 5: "un meme compte externe ne peut etre connecte deux fois".
ConnectedOnce == \A a \in Accounts : Cardinality(RowsOf(a)) <= 1

\* connect.go, step 10: the answer gives the channel the status active.
AnsweredIsActive ==
    \A c \in answered : channels[c].status \in {"active", "disconnected"}

\* connect.go, step 9: a failed write is answered as one to be retried, so no
\* account stays without credentials while nobody is connecting it.
FailureCanBeRetried ==
    \A c \in Stored \ credentials : Writing(c)

\* channel.go, C-1: "le channel est deconnecte, reconnectez-le": a connection of
\* an account whose channels are all disconnected is not refused.
DisconnectedCanReconnect ==
    [][\A p \in Connecters :
          /\ connect[p].pc \in {"lookup", "insert"}
          /\ RowsOf(connect[p].account) # {}
          /\ \A c \in RowsOf(connect[p].account) : channels[c].status = "disconnected"
          => connect'[p] # IdleConnect]_vars

\* connect.go, step 2: no channel is added to an archived brand.
ArchivedBlocksConnection ==
    [][\A c \in Channels :
          channels[c] = NoRow /\ channels'[c] # NoRow =>
             channels'[c].brand \notin archived]_vars

\* notimpl.go, NoOpChannelCredentialRepo: as main.go wires it, no channel ever
\* has credentials, those answered as connected included.
NoCredentialsKept == credentials = {}

\* No two connections of one account are past the lookup at the same time.
ConnectedApart ==
    \A p, q \in Connecters :
        /\ connect[p].pc \in {"quota", "insert", "credentials"}
        /\ connect[q].pc \in {"quota", "insert", "credentials"}
        /\ connect[p].account = connect[q].account
        => p = q

\* The steps behind CheckedIsConnected: a request that has passed its checks ends
\* only when its account has a channel whose credentials are stored
\* (CredentialStore = "port") or being written, or has met a failure.
CheckedEndsWritten ==
    [][\A p \in Connecters, a \in Accounts :
          /\ connect[p].pc \in {"insert", "credentials"}
          /\ connect[p].account = a
          /\ connect'[p] = IdleConnect
          => \/ \E c \in RowsOf(a)' : (c \in credentials \/ Writing(c))'
             \/ a \in harmed']_vars
================================================================================
