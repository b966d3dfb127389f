----------------------------- MODULE ChannelDomain -----------------------------
(***************************************************************************)
(* The Channel aggregate of internal/domain/channel.go: a connected social *)
(* account, its status and the count of consecutive publication failures   *)
(* that decides when it leaves service.                                    *)
(***************************************************************************)
EXTENDS Naturals

ChannelStatuses == {"active", "token_expiring", "token_expired", "disconnected",
                    "error", "revoked", "pending_review"}

ChannelErrorThreshold == 3

ChannelRow == [status : ChannelStatuses, failures : Nat]

\* Channel.CanPublish: the checks C-1b, C-1c, C-1, C-2 in the order of the code.
\* tokenValid is recomputed from token_expires_at whenever a row is loaded.
CanPublish(channel, tokenValid) ==
    /\ channel.status # "revoked"
    /\ channel.status # "error"
    /\ channel.status # "disconnected"
    /\ tokenValid
    /\ channel.status # "token_expired"
    /\ channel.status # "pending_review"

\* Mutant: the caller drops the report and leaves the status alone.
RecordWithoutSetStatus(channel) == [channel EXCEPT !.failures = @ + 1]

\* Mutant: the threshold must be exceeded instead of reached.
RecordBeyondThreshold(channel) ==
    [failures |-> channel.failures + 1,
     status |-> IF channel.failures + 1 > ChannelErrorThreshold
                THEN "error" ELSE channel.status]

\* RecordPublicationFailure, and the SetStatus(error) its caller owes it when it
\* reports that the threshold is reached.
RecordPublicationFailure(channel) ==
    [failures |-> channel.failures + 1,
     status |-> IF channel.failures + 1 >= ChannelErrorThreshold
                THEN "error" ELSE channel.status]

ResetFailureCount(channel) == [channel EXCEPT !.failures = 0]

SetStatus(channel, to) == [channel EXCEPT !.status = to]
===============================================================================
