------------------------ MODULE ChannelConnectionProofs ------------------------
(***************************************************************************)
(* Proofs about ChannelConnection.  The library's theorems on finite sets  *)
(* count the rows and the requests past the check of the plan.             *)
(***************************************************************************)
EXTENDS ChannelConnection, FiniteSetTheorems, TLAPS

LEMMA NoneIsNot ==
    /\ None \notin Brands
    /\ None \notin Platforms
    /\ None \notin Accounts
    /\ None \notin Channels
    /\ NoRow \notin Row
  BY ConnectionAssumption DEF NoRow, Row

LEMMA FreshIsNew ==
    ASSUME Stored # Channels
    PROVE  FreshId \in Channels /\ channels[FreshId] = NoRow
  <1>1. \E c \in Channels : channels[c] = NoRow
    BY DEF Stored
  <1> QED
    BY <1>1 DEF FreshId

\* What a running request holds.
LEMMA Holds ==
    ASSUME TypeOK
    PROVE  /\ \A p \in Connecters :
                 connect[p] # IdleConnect =>
                    /\ connect[p].brand \in Brands
                    /\ connect[p].platform \in Platforms
                    /\ connect[p].account \in Accounts
           /\ \A p \in Connecters :
                 /\ connect[p].pc = "credentials" => connect[p].channel \in Channels
                 /\ connect[p].pc \in {"idle", "lookup", "quota", "insert", "credentials"}
                 /\ connect[p].pc = "idle" <=> connect[p] = IdleConnect
           /\ \A d \in Disconnecters :
                 disconnect[d].pc = "save" => disconnect[d].channel \in Channels
  BY DEF TypeOK, ConnectState, IdleConnect, DisconnectState, IdleDisconnect

(***************************************************************************)
(* TypeOK is not inductive alone: a disconnection writes a status into the *)
(* row it has read, which is still there because no row is ever removed;   *)
(* the same goes for the channel whose credentials are to be written.      *)
(***************************************************************************)
HeldIsStored ==
    /\ \A p \in Connecters : connect[p].pc = "credentials" => connect[p].channel \in Stored
    /\ \A d \in Disconnecters : disconnect[d].pc = "save" => disconnect[d].channel \in Stored

IInv == TypeOK /\ HeldIsStored

LEMMA InitHolds == Init => IInv
  BY NoneIsNot DEF Init, IInv, TypeOK, HeldIsStored, ConnectState, IdleConnect,
     DisconnectState, IdleDisconnect
--------------------------------------------------------------------------------
(***************************************************************************)
(* The table changes in two ways: a connection adds a row, a disconnection *)
(* writes the status of one.                                               *)
(***************************************************************************)
Adds(p) ==
    /\ ConnectInsert(p)
    /\ FreshId \in Channels
    /\ channels[FreshId] = NoRow
    /\ channels' = [channels EXCEPT ![FreshId] = NewConnectedChannel(connect[p])]
    /\ NewConnectedChannel(connect[p]) \in Row

LEMMA InsertAdds ==
    ASSUME TypeOK, NEW p \in Connecters, ConnectInsert(p)
    PROVE  Adds(p)
  <1>1. Stored # Channels /\ connect[p].pc = "insert"
    BY DEF ConnectInsert
  <1>2. connect[p] # IdleConnect
    BY <1>1 DEF IdleConnect
  <1>3. NewConnectedChannel(connect[p]) \in Row
    BY <1>2, Holds DEF NewConnectedChannel, Row, ChannelStatuses
  <1> QED
    BY <1>1, <1>3, FreshIsNew DEF Adds, ConnectInsert

LEMMA StatusKeepsRow ==
    ASSUME NEW row \in Row
    PROVE  /\ SetStatus(row, "disconnected") \in Row
           /\ SetStatus(row, "disconnected").account = row.account
  BY DEF SetStatus, Row, ChannelStatuses

LEMMA TableSteps ==
    ASSUME IInv, [Next]_vars
    PROVE  \/ UNCHANGED channels
           \/ \E p \in Connecters : Adds(p)
           \/ \E d \in Disconnecters :
                 /\ disconnect[d].channel \in Stored
                 /\ channels' = [channels EXCEPT ![disconnect[d].channel] =
                                     SetStatus(@, "disconnected")]
                 /\ UNCHANGED <<credentials, connect, history>>
  <1>1. ASSUME NEW p \in Connecters, ConnectInsert(p) PROVE Adds(p)
    BY <1>1, InsertAdds DEF IInv
  <1>2. ASSUME NEW p \in Connecters, ConnectNext(p), ~ConnectInsert(p)
        PROVE  UNCHANGED channels
    BY <1>2 DEF ConnectNext, ConnectStep, ConnectLoad, ConnectLookup, ConnectQuota,
       ConnectRefused, ConnectCredentials, ConnectDies, tables
  <1>3. ASSUME NEW d \in Disconnecters, DisconnectSave(d)
        PROVE  \/ UNCHANGED channels
               \/ /\ disconnect[d].channel \in Stored
                  /\ channels' = [channels EXCEPT ![disconnect[d].channel] =
                                      SetStatus(@, "disconnected")]
                  /\ UNCHANGED <<credentials, connect, history>>
    BY <1>3 DEF DisconnectSave, IInv, HeldIsStored
  <1>4. ASSUME NEW d \in Disconnecters, NEW c \in Channels, DisconnectLoad(d, c)
        PROVE  UNCHANGED channels
    BY <1>4 DEF DisconnectLoad, tables
  <1> QED
    BY <1>1, <1>2, <1>3, <1>4 DEF Next, DisconnectNext, ArchiveBrand, vars

\* A row, once there, stays and keeps its account; one row at most is added.
LEMMA RowsStay ==
    ASSUME IInv, [Next]_vars
    PROVE  /\ channels' \in [Channels -> Row \cup {NoRow}]
           /\ Stored \subseteq Stored'
           /\ \A c \in Stored : channels'[c].account = channels[c].account
           /\ \A c \in Stored' \ Stored : \E p \in Connecters : Adds(p) /\ c = FreshId
  <1> USE DEF IInv, TypeOK, Stored
  <1> DEFINE Goal ==
          /\ channels' \in [Channels -> Row \cup {NoRow}]
          /\ Stored \subseteq Stored'
          /\ \A c \in Stored : channels'[c].account = channels[c].account
          /\ \A c \in Stored' \ Stored : \E p \in Connecters : Adds(p) /\ c = FreshId
  <1>1. CASE UNCHANGED channels
    BY <1>1
  <1>2. ASSUME NEW p \in Connecters, Adds(p) PROVE Goal
    BY <1>2, NoneIsNot DEF Adds
  <1>3. ASSUME NEW d \in Disconnecters, disconnect[d].channel \in Stored,
               channels' = [channels EXCEPT ![disconnect[d].channel] =
                                SetStatus(@, "disconnected")]
        PROVE  Goal
    <2>1. channels[disconnect[d].channel] \in Row
      BY <1>3
    <2>2. /\ SetStatus(channels[disconnect[d].channel], "disconnected") \in Row
          /\ SetStatus(channels[disconnect[d].channel], "disconnected").account
                = channels[disconnect[d].channel].account
      BY <2>1, StatusKeepsRow
    <2> QED
      BY <1>3, <2>2, NoneIsNot
  <1> QED
    BY <1>1, <1>2, <1>3, TableSteps
--------------------------------------------------------------------------------
LEMMA InsertedType ==
    ASSUME NEW c \in Channels,
           NEW r \in [pc : {"lookup", "quota", "insert"}, brand : Brands,
                     platform : Platforms, account : Accounts, channel : {None}]
    PROVE  /\ [r EXCEPT !.pc = "credentials", !.channel = c] \in
                 [pc : {"credentials"}, brand : Brands, platform : Platforms,
                  account : Accounts, channel : Channels]
           /\ [r EXCEPT !.pc = "credentials", !.channel = c].channel = c
  OBVIOUS

LEMMA ConnectTypes ==
    ASSUME IInv, NEW p \in Connecters, ConnectNext(p)
    PROVE  /\ connect' \in [Connecters -> ConnectState]
           /\ harmed' \subseteq Accounts
           /\ raced' \subseteq Accounts
           /\ answered' \subseteq Channels
           /\ credentials' \subseteq Channels
           /\ UNCHANGED <<archived, disconnect>>
           /\ \A q \in Connecters \ {p} : connect'[q] = connect[q]
           /\ connect'[p].pc = "credentials" =>
                 connect'[p].channel \in Stored'
  <1> USE DEF IInv, TypeOK
  <1> DEFINE Goal == /\ connect' \in [Connecters -> ConnectState]
                     /\ harmed' \subseteq Accounts
                     /\ raced' \subseteq Accounts
                     /\ answered' \subseteq Channels
                     /\ credentials' \subseteq Channels
                     /\ UNCHANGED <<archived, disconnect>>
                     /\ \A q \in Connecters \ {p} : connect'[q] = connect[q]
                     /\ connect'[p].pc = "credentials" =>
                           connect'[p].channel \in Stored'
  <1>1. IdleConnect \in ConnectState /\ IdleConnect.pc = "idle"
    BY DEF ConnectState, IdleConnect
  <1>2. ASSUME NEW b \in Brands, NEW t \in Platforms, NEW a \in Accounts,
               ConnectLoad(p, b, t, a)
        PROVE  Goal
    <2>1. [pc |-> "lookup", brand |-> b, platform |-> t, account |-> a,
           channel |-> None] \in ConnectState
      BY DEF ConnectState
    <2> QED
      BY <1>2, <2>1 DEF ConnectLoad, tables, history
  <1>3. CASE ConnectLookup(p)
    <2>1. connect[p] # IdleConnect
      BY <1>3 DEF ConnectLookup, IdleConnect
    <2>2. connect[p].account \in Accounts
      BY <2>1, Holds
    <2>3. [connect[p] EXCEPT !.pc = "quota"] \in ConnectState
          /\ [connect[p] EXCEPT !.pc = "quota"].pc = "quota"
      BY <1>3 DEF ConnectLookup, ConnectState, IdleConnect
    <2>4. \/ connect' = [connect EXCEPT ![p] = IdleConnect]
          \/ connect' = [connect EXCEPT ![p] = [connect[p] EXCEPT !.pc = "quota"]]
      BY <1>3 DEF ConnectLookup
    <2>5. connect' \in [Connecters -> ConnectState]
          /\ (\A q \in Connecters \ {p} : connect'[q] = connect[q])
          /\ connect'[p].pc # "credentials"
      BY <1>1, <2>3, <2>4
    <2> QED
      BY <1>3, <2>2, <2>5 DEF ConnectLookup, tables
  <1>4. CASE ConnectQuota(p)
    <2>1. [connect[p] EXCEPT !.pc = "insert"] \in ConnectState
          /\ [connect[p] EXCEPT !.pc = "insert"].pc = "insert"
      BY <1>4 DEF ConnectQuota, ConnectState, IdleConnect
    <2>2. \/ connect' = [connect EXCEPT ![p] = IdleConnect]
          \/ connect' = [connect EXCEPT ![p] = [connect[p] EXCEPT !.pc = "insert"]]
      BY <1>4 DEF ConnectQuota
    <2> QED
      BY <1>1, <1>4, <2>1, <2>2 DEF ConnectQuota, tables, history
  <1>5. CASE ConnectInsert(p)
    <2>1. Adds(p)
      BY <1>5, InsertAdds
    <2>2. [connect[p] EXCEPT !.pc = "credentials", !.channel = FreshId] \in ConnectState
          /\ [connect[p] EXCEPT !.pc = "credentials",
                                !.channel = FreshId].channel = FreshId
      <3>1. connect[p] \in [pc : {"lookup", "quota", "insert"}, brand : Brands,
                            platform : Platforms, account : Accounts, channel : {None}]
        BY <1>5 DEF ConnectInsert, ConnectState, IdleConnect
      <3> QED
        BY <2>1, <3>1, InsertedType DEF Adds, ConnectState
    <2>3. connect' = [connect EXCEPT ![p] =
              [connect[p] EXCEPT !.pc = "credentials", !.channel = FreshId]]
      BY <1>5 DEF ConnectInsert
    <2>4. FreshId \in Stored'
      BY <2>1, NoneIsNot DEF Adds, Stored
    <2>5. connect' \in [Connecters -> ConnectState]
          /\ (\A q \in Connecters \ {p} : connect'[q] = connect[q])
          /\ connect'[p].channel = FreshId
      BY <2>2, <2>3
    <2> QED
      BY <1>5, <2>4, <2>5 DEF ConnectInsert, history
  <1>6. CASE ConnectRefused(p)
    BY <1>1, <1>6 DEF ConnectRefused, tables, history
  <1>7. CASE ConnectCredentials(p)
    <2>1. connect[p].channel \in Channels
      BY <1>7, Holds DEF ConnectCredentials
    <2> QED
      BY <1>1, <1>7, <2>1 DEF ConnectCredentials, CredentialsWith
  <1>8. CASE ConnectDies(p)
    <2>1. connect[p].account \in Accounts
      BY <1>8, Holds DEF ConnectDies
    <2> QED
      BY <1>1, <1>8, <2>1 DEF ConnectDies, tables
  <1> QED
    BY <1>2, <1>3, <1>4, <1>5, <1>6, <1>7, <1>8 DEF ConnectNext, ConnectStep

LEMMA DisconnectTypes ==
    ASSUME IInv, NEW d \in Disconnecters, DisconnectNext(d)
    PROVE  /\ disconnect' \in [Disconnecters -> DisconnectState]
           /\ \A x \in Disconnecters \ {d} : disconnect'[x] = disconnect[x]
           /\ disconnect'[d].pc = "save" => disconnect'[d].channel \in Stored
           /\ UNCHANGED <<credentials, archived, connect, history>>
  <1> USE DEF IInv, TypeOK
  <1>1. IdleDisconnect \in DisconnectState /\ IdleDisconnect.pc = "idle"
    BY DEF DisconnectState, IdleDisconnect
  <1>2. ASSUME NEW c \in Channels
        PROVE  [pc |-> "save", channel |-> c] \in DisconnectState
    BY DEF DisconnectState
  <1> QED
    BY <1>1, <1>2 DEF DisconnectNext, DisconnectLoad, DisconnectSave, tables

LEMMA InvStep ==
    ASSUME IInv, [Next]_vars
    PROVE  IInv'
  <1>1. ASSUME NEW p \in Connecters, ConnectNext(p) PROVE IInv'
    <2>1. TypeOK'
      BY <1>1, ConnectTypes, RowsStay DEF IInv, TypeOK
    <2>2. HeldIsStored'
      BY <1>1, ConnectTypes, RowsStay DEF IInv, HeldIsStored
    <2> QED
      BY <2>1, <2>2 DEF IInv
  <1>2. ASSUME NEW d \in Disconnecters, DisconnectNext(d) PROVE IInv'
    <2>1. TypeOK'
      BY <1>2, DisconnectTypes, RowsStay DEF IInv, TypeOK, history
    <2>2. HeldIsStored'
      BY <1>2, DisconnectTypes, RowsStay DEF IInv, HeldIsStored
    <2> QED
      BY <2>1, <2>2 DEF IInv
  <1>3. CASE \E b \in Brands : ArchiveBrand(b)
    BY <1>3 DEF ArchiveBrand, IInv, TypeOK, HeldIsStored, Stored, history
  <1>4. CASE UNCHANGED vars
    BY <1>4 DEF vars, IInv, TypeOK, HeldIsStored, Stored
  <1> QED
    BY <1>1, <1>2, <1>3, <1>4 DEF Next

(***************************************************************************)
(* Every variable holds a value of its kind: the tables hold whole rows,   *)
(* and what a request means to write, it holds.                            *)
(***************************************************************************)
THEOREM TypeCorrect == Spec => []TypeOK
  <1>1. IInv => TypeOK
    BY DEF IInv
  <1>2. IInv /\ [Next]_vars => IInv'
    BY InvStep
  <1> QED
    BY <1>1, <1>2, InitHolds, PTL DEF Spec
--------------------------------------------------------------------------------
\* What the other conjuncts follow a connection by: the request that steps.
LEMMA OneConnects ==
    ASSUME [Next]_vars
    PROVE  \/ \E p \in Connecters : ConnectNext(p)
           \/ UNCHANGED <<connect, credentials, history>>
  BY DEF Next, DisconnectNext, DisconnectLoad, DisconnectSave, ArchiveBrand, vars,
     tables, history

(***************************************************************************)
(* A success is answered by the second write, over the row of the first,   *)
(* and neither row is ever removed: this is what a store of credentials    *)
(* that keeps them would give.                                             *)
(***************************************************************************)
THEOREM AnsweredIsCompleteHolds ==
    ASSUME CredentialStore = "port"
    PROVE  Spec => []AnsweredIsComplete
  <1>1. Init => AnsweredIsComplete
    BY DEF Init, AnsweredIsComplete
  <1>2. ASSUME IInv, AnsweredIsComplete, [Next]_vars PROVE AnsweredIsComplete'
    <2>1. Stored \subseteq Stored'
      BY <1>2, RowsStay
    <2>2. CASE UNCHANGED <<answered, credentials>>
      BY <1>2, <2>1, <2>2 DEF AnsweredIsComplete
    <2>3. ASSUME NEW p \in Connecters, ConnectCredentials(p)
          PROVE  AnsweredIsComplete'
      BY <1>2, <2>1, <2>3 DEF ConnectCredentials, CredentialsWith, AnsweredIsComplete,
         IInv, HeldIsStored
    <2>4. ASSUME NEW p \in Connecters, ConnectNext(p), ~ConnectCredentials(p)
          PROVE  UNCHANGED <<answered, credentials>>
      BY <2>4 DEF ConnectNext, ConnectStep, ConnectLoad, ConnectLookup, ConnectQuota,
         ConnectInsert, ConnectRefused, ConnectDies, tables, history
    <2> QED
      BY <1>2, <2>2, <2>3, <2>4, OneConnects DEF history
  <1>3. IInv /\ [Next]_vars => IInv'
    BY InvStep
  <1> QED
    BY <1>1, <1>2, <1>3, InitHolds, PTL DEF Spec

\* An inserting request keeps its account and goes on to the credentials.
LEMMA InsertKeeps ==
    ASSUME IInv, NEW p \in Connecters, ConnectInsert(p)
    PROVE  connect'[p].account = connect[p].account /\ connect'[p].pc = "credentials"
  <1>1. connect' = [connect EXCEPT ![p] =
            [connect[p] EXCEPT !.pc = "credentials", !.channel = FreshId]]
    BY DEF ConnectInsert
  <1>2. connect[p] \in [pc : {"lookup", "quota", "insert"}, brand : Brands,
                   platform : Platforms, account : Accounts, channel : {None}]
    BY DEF ConnectInsert, ConnectState, IdleConnect, IInv, TypeOK
  <1>3. /\ [connect[p] EXCEPT !.pc = "credentials", !.channel = FreshId].account
              = connect[p].account
        /\ [connect[p] EXCEPT !.pc = "credentials", !.channel = FreshId].pc
              = "credentials"
    BY <1>2
  <1> QED
    BY <1>1, <1>3 DEF IInv, TypeOK

(***************************************************************************)
(* The window between the two writes: a row without credentials is that of *)
(* a request still running, or the account has met a failure.  A request   *)
(* between its writes holds a row of its own account.                      *)
(***************************************************************************)
WritesItsOwn ==
    \A p \in Connecters :
        connect[p].pc = "credentials" =>
            connect[p].account = channels[connect[p].channel].account

LEMMA HalfWritten ==
    ASSUME CredentialStore = "port"
    PROVE  Spec => [](WritesItsOwn /\ HalfWrittenMeansHarm)
  <1> DEFINE Writes(p, c) == connect[p].pc = "credentials" /\ connect[p].channel = c
             J == WritesItsOwn /\ HalfWrittenMeansHarm
  <1>1. Init => J
    BY NoneIsNot DEF Init, WritesItsOwn, HalfWrittenMeansHarm, IdleConnect, Stored
  <1>2. ASSUME IInv, IInv', J, [Next]_vars PROVE J'
    <2> USE <1>2
    <2>1. WritesItsOwn'
      <3> SUFFICES ASSUME NEW p \in Connecters, connect'[p].pc = "credentials"
                   PROVE  connect'[p].account = channels'[connect'[p].channel].account
        BY DEF WritesItsOwn
      <3>1. CASE connect'[p] = connect[p]
        BY <3>1, RowsStay DEF IInv, HeldIsStored, WritesItsOwn
      <3>2. CASE ConnectInsert(p)
        <4>1. Adds(p)
          BY <3>2, InsertAdds DEF IInv
        <4>2. connect' = [connect EXCEPT ![p] =
                  [connect[p] EXCEPT !.pc = "credentials", !.channel = FreshId]]
          BY <3>2 DEF ConnectInsert
        <4>3. connect[p] \in [pc : {"lookup", "quota", "insert"}, brand : Brands,
                         platform : Platforms, account : Accounts, channel : {None}]
          BY <3>2 DEF ConnectInsert, ConnectState, IdleConnect, IInv, TypeOK
        <4>4. [connect[p] EXCEPT !.pc = "credentials", !.channel = FreshId].account
                 = connect[p].account
              /\ [connect[p] EXCEPT !.pc = "credentials", !.channel = FreshId].channel
                 = FreshId
          BY <4>3
        <4>5. channels'[FreshId].account = connect[p].account
          BY <4>1 DEF Adds, NewConnectedChannel, IInv, TypeOK
        <4> QED
          BY <4>2, <4>4, <4>5 DEF IInv, TypeOK
      <3>3. CASE ConnectNext(p) /\ ~ConnectInsert(p)
        BY <3>3 DEF ConnectNext, ConnectStep, ConnectLoad, ConnectLookup, ConnectQuota,
           ConnectRefused, ConnectCredentials, ConnectDies, IdleConnect, IInv, TypeOK,
           ConnectState
      <3>4. ASSUME NEW q \in Connecters, q # p, ConnectNext(q)
            PROVE  connect'[p] = connect[p]
        BY <3>4, ConnectTypes
      <3> QED
        BY <3>1, <3>2, <3>3, <3>4, OneConnects
    <2>2. HalfWrittenMeansHarm'
      <3> SUFFICES ASSUME NEW c \in Stored', c \notin credentials'
                   PROVE  Writing(c)' \/ channels'[c].account \in harmed'
        BY DEF HalfWrittenMeansHarm
      <3>1. credentials \subseteq credentials' /\ harmed \subseteq harmed'
        BY OneConnects DEF ConnectNext, ConnectStep, ConnectLoad, ConnectLookup,
           ConnectQuota, ConnectInsert, ConnectRefused, ConnectCredentials,
           CredentialsWith, ConnectDies, tables, history
      <3>2. ASSUME c \notin Stored PROVE Writing(c)'
        <4>1. PICK p \in Connecters : Adds(p) /\ c = FreshId
          BY <3>2, RowsStay
        <4>2. connect' = [connect EXCEPT ![p] =
                  [connect[p] EXCEPT !.pc = "credentials", !.channel = FreshId]]
          BY <4>1 DEF Adds, ConnectInsert
        <4>3. connect[p] \in [pc : {"lookup", "quota", "insert"}, brand : Brands,
                         platform : Platforms, account : Accounts, channel : {None}]
          BY <4>1 DEF Adds, ConnectInsert, ConnectState, IdleConnect, IInv, TypeOK
        <4>4. FreshId \in Channels
          BY <4>1 DEF Adds
        <4>5. /\ [connect[p] EXCEPT !.pc = "credentials", !.channel = FreshId].channel
                    = FreshId
              /\ [connect[p] EXCEPT !.pc = "credentials", !.channel = FreshId].pc
                    = "credentials"
          BY <4>3, <4>4, InsertedType
        <4> QED
          BY <4>1, <4>2, <4>5 DEF Writing, IInv, TypeOK
      <3>3. ASSUME c \in Stored, channels[c].account \in harmed
            PROVE  channels'[c].account \in harmed'
        BY <3>1, <3>3, RowsStay
      <3>4. ASSUME c \in Stored, NEW p \in Connecters, Writes(p, c)
            PROVE  Writing(c)' \/ channels'[c].account \in harmed'
        <4>1. CASE connect'[p] = connect[p]
          BY <3>4, <4>1 DEF Writing
        <4>2. CASE ConnectNext(p)
          <5>1. ~ConnectCredentials(p)
            BY <3>4 DEF ConnectCredentials, CredentialsWith
          <5>2. ConnectDies(p)
            BY <3>4, <4>2, <5>1 DEF ConnectNext, ConnectStep, ConnectLoad,
               ConnectLookup, ConnectQuota, ConnectInsert, ConnectRefused, IdleConnect
          <5>3. connect[p].account = channels[c].account
            BY <3>4 DEF WritesItsOwn
          <5> QED
            BY <3>4, <5>2, <5>3, RowsStay DEF ConnectDies
        <4>3. ASSUME NEW q \in Connecters, q # p, ConnectNext(q)
              PROVE  connect'[p] = connect[p]
          BY <4>3, ConnectTypes
        <4> QED
          BY <4>1, <4>2, <4>3, OneConnects
      <3> QED
        BY <3>1, <3>2, <3>3, <3>4 DEF HalfWrittenMeansHarm, Writing
    <2> QED
      BY <2>1, <2>2
  <1>3. IInv /\ [Next]_vars => IInv'
    BY InvStep
  <1> QED
    BY <1>1, <1>2, <1>3, InitHolds, PTL DEF Spec

\* connect.go, step 9, with a store that keeps credentials: a stored channel
\* without them is being written, or its account met a failure between the two
\* writes.
THEOREM HalfWrittenMeansHarmHolds ==
    ASSUME CredentialStore = "port"
    PROVE  Spec => []HalfWrittenMeansHarm
  BY HalfWritten, PTL

(***************************************************************************)
(* The retry the answer asks for can succeed as long as no call fails and  *)
(* no process dies: nobody leaves a channel without its credentials.       *)
(***************************************************************************)
LEMMA NobodyHarmed ==
    ASSUME ~Faults
    PROVE  Spec => [](harmed = {})
  <1>1. Init => harmed = {}
    BY DEF Init
  <1>2. harmed = {} /\ [Next]_vars => (harmed = {})'
    BY DEF Next, ConnectNext, ConnectStep, ConnectLoad, ConnectLookup, ConnectQuota,
       ConnectInsert, ConnectRefused, ConnectCredentials, ConnectDies, DisconnectNext,
       DisconnectLoad, DisconnectSave, ArchiveBrand, vars, tables, history
  <1> QED
    BY <1>1, <1>2, PTL DEF Spec

\* connect.go, step 9, without faults and with a store that keeps credentials: a
\* channel lacks them only while a connection is about to store them.
THEOREM FailureCanBeRetriedHolds ==
    ASSUME ~Faults, CredentialStore = "port"
    PROVE  Spec => []FailureCanBeRetried
  <1>1. harmed = {} /\ HalfWrittenMeansHarm => FailureCanBeRetried
    BY DEF HalfWrittenMeansHarm, FailureCanBeRetried
  <1> QED
    BY <1>1, NobodyHarmed, HalfWritten, PTL

(***************************************************************************)
(* Where a request that has passed its checks may end: at a refusal of the *)
(* index, which a row of the account causes, at its second write, or by a  *)
(* failure that is remembered.  The store keeps credentials here.          *)
(***************************************************************************)
THEOREM CheckedEndsWrittenHolds ==
    ASSUME CredentialStore = "port"
    PROVE  Spec => CheckedEndsWritten
  <1> DEFINE Written(a) == \E c \in RowsOf(a) : c \in credentials \/ Writing(c)
  <1>1. ASSUME IInv, WritesItsOwn, HalfWrittenMeansHarm, [Next]_vars,
               NEW p \in Connecters, NEW a \in Accounts,
               connect[p].pc \in {"insert", "credentials"}, connect[p].account = a,
               connect'[p] = IdleConnect
        PROVE  Written(a)' \/ a \in harmed'
    <2>1. connect'[p] # connect[p]
      BY <1>1 DEF IdleConnect
    <2>2. ConnectNext(p)
      <3>1. ASSUME NEW q \in Connecters, q # p, ConnectNext(q)
            PROVE  connect'[p] = connect[p]
        BY <1>1, <3>1, ConnectTypes
      <3> QED
        BY <1>1, <2>1, <3>1, OneConnects
    <2>3. CASE ConnectRefused(p)
      <3>1. PICK c \in Stored : channels[c].account = a
        BY <1>1, <2>3 DEF ConnectRefused, Unique
      <3>2. UNCHANGED <<channels, credentials, harmed>>
        BY <2>3 DEF ConnectRefused, tables, history
      <3>3. c \in RowsOf(a)'
        BY <3>1, <3>2 DEF RowsOf, Stored
      <3>4. c \in credentials \/ Writing(c) \/ a \in harmed
        BY <1>1, <3>1 DEF HalfWrittenMeansHarm
      <3>5. Writing(c) => Writing(c)'
        BY <1>1, <2>3 DEF ConnectRefused, Writing, IInv, TypeOK
      <3> QED
        BY <3>2, <3>3, <3>4, <3>5
    <2>4. CASE ConnectCredentials(p)
      <3> DEFINE c == connect[p].channel
      <3>1. c \in Stored /\ channels[c].account = a /\ c \in credentials'
        BY <1>1, <2>4 DEF ConnectCredentials, CredentialsWith, IInv, HeldIsStored,
           WritesItsOwn
      <3>2. UNCHANGED channels
        BY <2>4 DEF ConnectCredentials
      <3> HIDE DEF c
      <3>3. c \in RowsOf(a)'
        BY <3>1, <3>2 DEF RowsOf, Stored
      <3> QED
        BY <3>1, <3>3
    <2>5. CASE ConnectDies(p)
      BY <1>1, <2>5 DEF ConnectDies
    <2>6. ~ConnectInsert(p)
      BY <1>1, InsertKeeps DEF IdleConnect
    <2>7. \A b \in Brands, t \in Platforms, e \in Accounts : ~ConnectLoad(p, b, t, e)
      BY <1>1 DEF ConnectLoad, IdleConnect
    <2>8. ~ConnectLookup(p) /\ ~ConnectQuota(p)
      BY <1>1 DEF ConnectLookup, ConnectQuota
    <2> QED
      BY <2>2, <2>3, <2>4, <2>5, <2>6, <2>7, <2>8 DEF ConnectNext, ConnectStep
  <1>2. IInv /\ [Next]_vars => IInv'
    BY InvStep
  <1>3. ASSUME IInv, WritesItsOwn, HalfWrittenMeansHarm, [Next]_vars
        PROVE  \A p \in Connecters, a \in Accounts :
                  /\ connect[p].pc \in {"insert", "credentials"}
                  /\ connect[p].account = a
                  /\ connect'[p] = IdleConnect
                  => \/ \E c \in RowsOf(a)' : (c \in credentials \/ Writing(c))'
                     \/ a \in harmed'
    BY <1>1, <1>3
  <1> QED
    BY <1>2, <1>3, InitHolds, HalfWritten, PTL DEF Spec, CheckedEndsWritten

(***************************************************************************)
(* The program as it is wired: the second write stores nothing, so what is *)
(* answered as connected has no credentials either.  The three theorems    *)
(* above say what a repository behind the port would change.               *)
(***************************************************************************)
THEOREM NoCredentialsKeptHolds ==
    ASSUME CredentialStore = "stub"
    PROVE  Spec => []NoCredentialsKept
  <1>1. Init => NoCredentialsKept
    BY DEF Init, NoCredentialsKept
  <1>2. NoCredentialsKept /\ [Next]_vars => NoCredentialsKept'
    BY DEF NoCredentialsKept, Next, ConnectNext, ConnectStep, ConnectLoad,
       ConnectLookup, ConnectQuota, ConnectInsert, ConnectRefused,
       ConnectCredentials, CredentialsWith, ConnectDies, DisconnectNext,
       DisconnectLoad, DisconnectSave, ArchiveBrand, vars, tables, history
  <1> QED
    BY <1>1, <1>2, PTL DEF Spec
--------------------------------------------------------------------------------
\* The rows of the table after a step.
LEMMA StoredSteps ==
    ASSUME IInv, [Next]_vars
    PROVE  \/ Stored' = Stored
           \/ \E p \in Connecters : /\ Adds(p)
                                    /\ FreshId \notin Stored
                                    /\ Stored' = Stored \cup {FreshId}
  <1>1. ASSUME NEW p \in Connecters, Adds(p)
        PROVE  FreshId \notin Stored /\ Stored' = Stored \cup {FreshId}
    BY <1>1, NoneIsNot DEF Adds, Stored, IInv, TypeOK
  <1> QED
    BY <1>1, RowsStay

Inserting == {p \in Connecters : connect[p].pc = "insert"}

LEMMA Counted ==
    ASSUME NEW S \in SUBSET Channels, NEW P \in SUBSET Connecters
    PROVE  /\ IsFiniteSet(S) /\ Cardinality(S) \in Nat
           /\ IsFiniteSet(P) /\ Cardinality(P) \in Nat
           /\ Cardinality(Connecters) \in Nat
           /\ Cardinality(P) <= Cardinality(Connecters)
  BY ConnectionAssumption, FS_Subset, FS_CardinalityType

(***************************************************************************)
(* A request that passes the check of the plan adds one row at most.  What *)
(* is bounded is therefore the rows together with the requests between the *)
(* check and the insertion: the check holds the rows below the limit, and  *)
(* the requests past it are no more than all of them.  The plan is counted *)
(* here (PlanChecker = "port").                                            *)
(***************************************************************************)
THEOREM LimitOverrunHolds ==
    ASSUME PlanChecker = "port"
    PROVE  Spec => []LimitOverrun
  <1> DEFINE Bound == Cardinality(Stored) + Cardinality(Inserting)
                         < ChannelLimit + Cardinality(Connecters)
  <1>1. Init => Bound
    <2> SUFFICES ASSUME Init PROVE Bound
      OBVIOUS
    <2>1. Stored = {} /\ Inserting = {}
      BY DEF Init, Stored, Inserting, IdleConnect
    <2>2. Cardinality(Stored) = 0 /\ Cardinality(Inserting) = 0
      BY <2>1, FS_EmptySet
    <2>3. Cardinality(Connecters) \in Nat /\ ChannelLimit \in Nat \ {0}
      BY ConnectionAssumption, Counted
    <2> QED
      BY <2>2, <2>3
  <1>2. ASSUME IInv, Bound, [Next]_vars PROVE Bound'
    <2> USE <1>2
    <2> DEFINE n == Cardinality(Stored)
               i == Cardinality(Inserting)
               N == Cardinality(Connecters)
    <2>0. /\ n \in Nat /\ i \in Nat /\ N \in Nat /\ ChannelLimit \in Nat \ {0}
          /\ IsFiniteSet(Stored) /\ IsFiniteSet(Inserting)
          /\ Inserting \in SUBSET Connecters
          /\ Cardinality(Inserting') \in Nat /\ Cardinality(Inserting') <= N
      <3>1. Stored \in SUBSET Channels /\ Inserting \in SUBSET Connecters
            /\ Inserting' \in SUBSET Connecters
        BY DEF Stored, Inserting
      <3> QED
        BY <3>1, Counted, ConnectionAssumption
    <2>1. ASSUME NEW p \in Connecters, Adds(p) PROVE Bound'
      <3>1. Stored' = Stored \cup {FreshId} /\ FreshId \notin Stored
        BY <2>1, NoneIsNot DEF Adds, Stored, IInv, TypeOK
      <3>2. p \in Inserting /\ connect'[p].pc # "insert"
        <4>1. connect[p].pc = "insert"
          BY <2>1 DEF Adds, ConnectInsert
        <4>2. connect' = [connect EXCEPT ![p] =
                  [connect[p] EXCEPT !.pc = "credentials", !.channel = FreshId]]
          BY <2>1 DEF Adds, ConnectInsert
        <4>3. connect[p] \in [pc : {"lookup", "quota", "insert"}, brand : Brands,
                         platform : Platforms, account : Accounts, channel : {None}]
          BY <4>1 DEF ConnectState, IdleConnect, IInv, TypeOK
        <4>4. [connect[p] EXCEPT !.pc = "credentials", !.channel = FreshId].pc
                 = "credentials"
          BY <2>1, <4>3, InsertedType DEF Adds
        <4> QED
          BY <4>1, <4>2, <4>4 DEF Inserting, IInv, TypeOK
      <3>3. \A q \in Connecters \ {p} : connect'[q] = connect[q]
        BY <2>1, ConnectTypes DEF Adds, ConnectNext, ConnectStep
      <3>4. Inserting' = Inserting \ {p}
        BY <3>2, <3>3 DEF Inserting
      <3>5. Cardinality(Stored') = n + 1
        BY <2>0, <3>1, FS_AddElement
      <3>6. Cardinality(Inserting') = i - 1
        BY <2>0, <3>2, <3>4, FS_RemoveElement
      <3> QED
        BY <2>0, <3>5, <3>6
    <2>2. ASSUME NEW p \in Connecters, ConnectQuota(p), Stored' = Stored PROVE Bound'
      <3>1. CASE WithinLimit
        BY <2>0, <2>2, <3>1 DEF WithinLimit
      <3>2. CASE ~WithinLimit
        <4>1. Inserting' \in SUBSET Inserting
          BY <2>2, <3>2 DEF ConnectQuota, Inserting, IdleConnect, IInv, TypeOK
        <4>2. Cardinality(Inserting') <= i
          BY <2>0, <4>1, FS_Subset
        <4> QED
          BY <2>0, <2>2, <4>2
      <3> QED
        BY <3>1, <3>2
    <2>3. ASSUME Stored' = Stored, Inserting' \in SUBSET Inserting PROVE Bound'
      <3>1. Cardinality(Inserting') <= i
        BY <2>0, <2>3, FS_Subset
      <3> QED
        BY <2>0, <2>3, <3>1
    <2>4. ASSUME NEW p \in Connecters, ConnectNext(p), ~ConnectQuota(p), ~ConnectInsert(p)
          PROVE  Inserting' \in SUBSET Inserting
      BY <2>4 DEF ConnectNext, ConnectStep, ConnectLoad, ConnectLookup, ConnectRefused,
         ConnectCredentials, ConnectDies, IdleConnect, Inserting, IInv, TypeOK,
         ConnectState
    <2>5. ASSUME UNCHANGED connect PROVE Inserting' \in SUBSET Inserting
      BY <2>5 DEF Inserting
    <2>6. ASSUME NEW p \in Connecters, ConnectInsert(p) PROVE Adds(p)
      BY <2>6, InsertAdds DEF IInv
    <2> QED
      BY <2>1, <2>2, <2>3, <2>4, <2>5, <2>6, StoredSteps, OneConnects
  <1>3. ASSUME Bound PROVE LimitOverrun
    <2>1. Stored \in SUBSET Channels /\ Inserting \in SUBSET Connecters
      BY DEF Stored, Inserting
    <2>2. Cardinality(Stored) \in Nat /\ Cardinality(Inserting) \in Nat
          /\ Cardinality(Connecters) \in Nat /\ ChannelLimit \in Nat
      BY <2>1, Counted, ConnectionAssumption
    <2> QED
      BY <1>3, <2>2 DEF LimitOverrun
  <1>4. IInv /\ [Next]_vars => IInv'
    BY InvStep
  <1> QED
    BY <1>1, <1>2, <1>3, <1>4, InitHolds, PTL DEF Spec
--------------------------------------------------------------------------------
(***************************************************************************)
(* As long as an account is neither raced nor harmed, one request for it   *)
(* at most is past the lookup, and while that one has not inserted yet the *)
(* account has no row: the row it adds is the first.                       *)
(***************************************************************************)
Past(a) == {p \in Connecters : connect[p].account = a /\ connect[p].pc # "lookup"}
Before(p) == connect[p].pc \in {"quota", "insert"}

Alone(a) ==
    /\ \A c, d \in RowsOf(a) : c = d
    /\ \A p, q \in Past(a) : p = q
    /\ \A p \in Past(a) : Before(p) => RowsOf(a) = {}

LEMMA RowsSteps ==
    ASSUME IInv, [Next]_vars, NEW a \in Accounts
    PROVE  \/ RowsOf(a)' = RowsOf(a)
           \/ \E p \in Connecters : /\ ConnectInsert(p)
                                    /\ connect[p].account = a
                                    /\ RowsOf(a)' = RowsOf(a) \cup {FreshId}
  <1>1. CASE Stored' = Stored
    BY <1>1, RowsStay DEF RowsOf
  <1>2. ASSUME NEW p \in Connecters, Adds(p), FreshId \notin Stored,
               Stored' = Stored \cup {FreshId}
        PROVE  \/ RowsOf(a)' = RowsOf(a)
               \/ /\ connect[p].account = a
                  /\ RowsOf(a)' = RowsOf(a) \cup {FreshId}
    <2>1. channels'[FreshId].account = connect[p].account
      BY <1>2 DEF Adds, NewConnectedChannel, IInv, TypeOK
    <2>2. \A c \in Stored : channels'[c].account = channels[c].account
      BY RowsStay
    <2> QED
      BY <1>2, <2>1, <2>2 DEF RowsOf
  <1> QED
    BY <1>1, <1>2, StoredSteps DEF Adds

\* A request gets past the lookup of an account at its lookup only, and that
\* race, or that failure, is remembered.
LEMMA PastSteps ==
    ASSUME IInv, NEW p \in Connecters, ConnectNext(p), NEW a \in Accounts,
           a \notin harmed', a \notin raced'
    PROVE  \/ /\ p \in Past(a)' => p \in Past(a)
              /\ p \in Past(a)' /\ Before(p)' => Before(p)
           \/ /\ ConnectLookup(p)
              /\ connect[p].account = a
              /\ RowsOf(a) = {}
              /\ Past(a) \subseteq {p}
  <1> USE DEF IInv, TypeOK
  <1> DEFINE Goal == \/ /\ p \in Past(a)' => p \in Past(a)
                        /\ p \in Past(a)' /\ Before(p)' => Before(p)
                     \/ /\ ConnectLookup(p)
                        /\ connect[p].account = a
                        /\ RowsOf(a) = {}
                        /\ Past(a) \subseteq {p}
  <1>1. IdleConnect.account # a
    BY NoneIsNot DEF IdleConnect
  <1>2. CASE connect'[p] = IdleConnect
    BY <1>1, <1>2 DEF Past
  <1>3. ASSUME NEW b \in Brands, NEW t \in Platforms, NEW e \in Accounts,
               ConnectLoad(p, b, t, e)
        PROVE  Goal
    BY <1>3 DEF ConnectLoad, Past
  <1>4. CASE ConnectLookup(p) /\ connect'[p] # IdleConnect
    <2>1. connect[p] \in [pc : {"lookup", "quota", "insert"}, brand : Brands,
                     platform : Platforms, account : Accounts, channel : {None}]
      BY <1>4 DEF ConnectLookup, ConnectState, IdleConnect
    <2>2. connect'[p] = [connect[p] EXCEPT !.pc = "quota"]
      BY <1>4 DEF ConnectLookup
    <2>3. connect'[p].account = connect[p].account
      BY <2>1, <2>2
    <2>4. CASE connect[p].account # a
      BY <2>3, <2>4 DEF Past
    <2>5. CASE connect[p].account = a
      <3>1. ~Found(connect[p])
            /\ {q \in Connecters \ {p} :
                   connect[q].account = a /\ connect[q].pc # "lookup"} = {}
        BY <1>4, <2>5 DEF ConnectLookup
      <3> QED
        BY <1>4, <2>5, <3>1 DEF Found, Past
    <2> QED
      BY <2>4, <2>5
  <1>5. CASE ConnectQuota(p) /\ connect'[p] # IdleConnect
    <2>1. connect'[p] = [connect[p] EXCEPT !.pc = "insert"]
      BY <1>5 DEF ConnectQuota
    <2>2. connect'[p].account = connect[p].account
      BY <1>5, <2>1 DEF ConnectQuota, ConnectState, IdleConnect
    <2> QED
      BY <1>5, <2>2 DEF ConnectQuota, Past, Before
  <1>6. CASE ConnectInsert(p)
    BY <1>6, InsertKeeps DEF ConnectInsert, Past, Before
  <1> QED
    BY <1>2, <1>3, <1>4, <1>5, <1>6 DEF ConnectNext, ConnectStep, ConnectRefused,
       ConnectCredentials, ConnectDies

(***************************************************************************)
(* An account is connected once, over all brands and platforms, as long as *)
(* no two connections of it are past the lookup at once and no call failed *)
(* for it: the unique index, which is on the brand too, plays no part.     *)
(***************************************************************************)
THEOREM ConnectedOnceUnlessRacedHolds == Spec => []ConnectedOnceUnlessRaced
  <1> DEFINE J == \A a \in Accounts \ (harmed \cup raced) : Alone(a)
  <1>1. Init => J
    BY NoneIsNot DEF Init, Alone, Past, RowsOf, Stored, IdleConnect
  <1>2. ASSUME IInv, J, [Next]_vars PROVE J'
    <2> USE <1>2
    <2> SUFFICES ASSUME NEW a \in Accounts, a \notin harmed', a \notin raced'
                 PROVE  Alone(a)'
      OBVIOUS
    <2>1. harmed \subseteq harmed' /\ raced \subseteq raced'
      BY OneConnects DEF ConnectNext, ConnectStep, ConnectLoad, ConnectLookup,
         ConnectQuota, ConnectInsert, ConnectRefused, ConnectCredentials,
         ConnectDies, tables, history
    <2>2. Alone(a)
      BY <2>1
    <2>3. ASSUME UNCHANGED connect PROVE Alone(a)'
      <3>1. RowsOf(a)' = RowsOf(a)
        <4>1. ASSUME NEW p \in Connecters, ConnectInsert(p) PROVE FALSE
          BY <2>3, <4>1, InsertKeeps DEF ConnectInsert
        <4> QED
          BY <4>1, RowsSteps
      <3> QED
        BY <2>2, <2>3, <3>1 DEF Alone, Past, Before
    <2>4. ASSUME NEW p \in Connecters, ConnectNext(p) PROVE Alone(a)'
      <3>1. \A q \in Connecters \ {p} : connect'[q] = connect[q]
        BY <2>4, ConnectTypes
      <3>2. \A q \in Connecters \ {p} :
               /\ q \in Past(a)' <=> q \in Past(a)
               /\ Before(q)' <=> Before(q)
        BY <3>1 DEF Past, Before
      <3>3. Past(a) \subseteq Connecters /\ Past(a)' \subseteq Connecters
        BY DEF Past
      <3>4. CASE RowsOf(a)' = RowsOf(a)
        BY <2>2, <2>4, <3>2, <3>3, <3>4, PastSteps DEF Alone
      <3>5. CASE RowsOf(a)' # RowsOf(a)
        <4>1. PICK q \in Connecters : /\ ConnectInsert(q)
                                      /\ connect[q].account = a
                                      /\ RowsOf(a)' = RowsOf(a) \cup {FreshId}
          BY <3>5, RowsSteps
        <4>2. q \in Past(a) /\ Before(q)
          BY <4>1 DEF ConnectInsert, Past, Before
        <4>3. RowsOf(a) = {} /\ Past(a) = {q}
          BY <2>2, <4>2 DEF Alone
        <4>4. connect'[q] # connect[q]
          BY <4>1, InsertKeeps DEF ConnectInsert
        <4>5. q = p
          BY <3>1, <4>4
        <4>6. ~Before(q)' /\ ~ConnectLookup(p)
          BY <4>1, <4>5, InsertKeeps DEF Before, ConnectInsert, ConnectLookup
        <4> QED
          BY <2>4, <3>2, <3>3, <4>1, <4>3, <4>5, <4>6, PastSteps DEF Alone
      <3> QED
        BY <3>4, <3>5
    <2> QED
      BY <2>3, <2>4, OneConnects
  <1>3. ASSUME J PROVE ConnectedOnceUnlessRaced
    <2> SUFFICES ASSUME NEW a \in Accounts \ (harmed \cup raced)
                 PROVE  Cardinality(RowsOf(a)) <= 1
      BY DEF ConnectedOnceUnlessRaced
    <2>1. RowsOf(a) = {} \/ \E c : RowsOf(a) = {c}
      BY <1>3 DEF Alone
    <2>2. Cardinality({}) = 0 /\ \A c : Cardinality({c}) = 1
      BY FS_EmptySet, FS_Singleton
    <2> QED
      BY <2>1, <2>2
  <1>4. IInv /\ [Next]_vars => IInv'
    BY InvStep
  <1> QED
    BY <1>1, <1>2, <1>3, <1>4, InitHolds, PTL DEF Spec

(***************************************************************************)
(* C-5 as the comment states it, over all brands and platforms, when no    *)
(* call fails and no two connections of an account are past the lookup at  *)
(* the same time: nothing is then raced or harmed.                         *)
(***************************************************************************)
THEOREM ConnectedOnceHolds ==
    ASSUME ~Faults
    PROVE  Spec /\ []ConnectedApart => []ConnectedOnce
  <1>1. Init => raced = {}
    BY DEF Init
  <1>2. ASSUME IInv, IInv', raced = {}, ConnectedApart', [Next]_vars PROVE (raced = {})'
    <2>1. ASSUME NEW p \in Connecters, ConnectLookup(p), raced' # raced PROVE FALSE
      <3> DEFINE a == connect[p].account
      <3>1. PICK q \in Connecters \ {p} : connect[q].account = a /\ connect[q].pc # "lookup"
        BY <2>1 DEF ConnectLookup
      <3>2. connect[p] \in [pc : {"lookup", "quota", "insert"}, brand : Brands,
                       platform : Platforms, account : Accounts, channel : {None}]
        BY <1>2, <2>1 DEF ConnectLookup, ConnectState, IdleConnect, IInv, TypeOK
      <3>3. connect' = [connect EXCEPT ![p] = [connect[p] EXCEPT !.pc = "quota"]]
        BY <2>1 DEF ConnectLookup
      <3>4. /\ [connect[p] EXCEPT !.pc = "quota"].account = a
            /\ [connect[p] EXCEPT !.pc = "quota"].pc = "quota"
            /\ a \in Accounts
        BY <3>2
      <3>5. connect'[p].account = a /\ connect'[p].pc = "quota" /\ connect'[q] = connect[q]
        BY <1>2, <3>3, <3>4 DEF IInv, TypeOK
      <3>6. connect[q].pc \in {"quota", "insert", "credentials"}
        BY <1>2, <3>1, <3>4, Holds, NoneIsNot DEF IInv, IdleConnect
      <3> QED
        BY <1>2, <3>1, <3>5, <3>6 DEF ConnectedApart
    <2>2. ASSUME NEW p \in Connecters, ConnectNext(p), ~ConnectLookup(p)
          PROVE  UNCHANGED raced
      BY <2>2 DEF ConnectNext, ConnectStep, ConnectLoad, ConnectQuota, ConnectInsert,
         ConnectRefused, ConnectCredentials, ConnectDies, tables, history
    <2> QED
      BY <1>2, <2>1, <2>2, OneConnects DEF history
  <1>3. harmed = {} /\ raced = {} /\ ConnectedOnceUnlessRaced => ConnectedOnce
    BY DEF ConnectedOnceUnlessRaced, ConnectedOnce
  <1>4. IInv /\ [Next]_vars => IInv'
    BY InvStep
  <1> QED
    BY <1>1, <1>2, <1>3, <1>4, InitHolds, NobodyHarmed, ConnectedOnceUnlessRacedHolds, PTL
    DEF Spec
================================================================================
