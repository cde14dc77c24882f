----------------------------- MODULE Retention ------------------------------
(***************************************************************************)
(* The hourly retention job (runRetention in retention-service.ts) over    *)
(* the message tables of module Delivery.  One action per statement; the   *)
(* job works with the time and with the list of expired messages it read   *)
(* when it started, while requests go on around it.  Its last two          *)
(* statements, over rate-limit buckets and nonces, are in RequestGate.     *)
(***************************************************************************)
EXTENDS Delivery

CONSTANTS EventRetention   \* EVENT_RETENTION_DAYS, in clock units

ASSUME RetentionAssumption == EventRetention \in Nat

VARIABLE cron

CronPc == {"idle", "mark", "purge", "purge_responses", "purge_event", "drop", "trim"}
CronType == [pc : CronPc, at : Nat, expired : SUBSET Message, cur : Message \cup {NoMessage}]
CronIdle == [pc |-> "idle", at |-> 0, expired |-> {}, cur |-> NoMessage]

RetentionInit == cron = CronIdle

\* createdAt is before the 14-day cutoff of a job started at time t.
BeyondQueue(m, t) == Submission[m].createdAt + QueueRetention < t

\* Rows that reference the envelope of m.
HasChildren(m) ==
    \/ wraps[m] # {}
    \/ \E x \in responses : x.msg = m
    \/ \E e \in events : e.msg = m

\* Mutant: age alone selects the messages whose rows are deleted.
SelectOld ==
    /\ cron.pc = "idle"
    /\ cron' = [CronIdle EXCEPT
                    !.pc = "mark", !.at = clock,
                    !.expired = {m \in Message : Stored(m) /\ BeyondQueue(m, clock)}]
    /\ UNCHANGED deliveryVars

SelectExpired ==
    /\ cron.pc = "idle"
    /\ cron' = [CronIdle EXCEPT
                    !.pc = "mark", !.at = clock,
                    !.expired = {m \in Message : Stored(m) /\ PastDeadline(m) /\ BeyondQueue(m, clock)}]
    /\ UNCHANGED deliveryVars

\* Mutant: a request that was fetched stays open.
MarkUnfetched ==
    /\ cron.pc = "mark"
    /\ envelope' = [m \in Message |->
          IF Submission[m].expiresAt < cron.at /\ envelope[m] = "accepted"
          THEN "expired" ELSE envelope[m]]
    /\ cron' = [cron EXCEPT !.pc = "purge"]
    /\ UNCHANGED <<clock, wraps, confirmed, responses, events, revoked, home, req, crashes>>

\* UPDATE ... SET state = 'expired' for what nobody fetched or answered in time.
MarkExpired ==
    /\ cron.pc = "mark"
    /\ envelope' = [m \in Message |->
          IF /\ Submission[m].expiresAt < cron.at
             /\ \/ envelope[m] = "accepted"
                \/ envelope[m] = "delivered" /\ Submission[m].mode # "notify"
          THEN "expired" ELSE envelope[m]]
    /\ cron' = [cron EXCEPT !.pc = "purge"]
    /\ UNCHANGED <<clock, wraps, confirmed, responses, events, revoked, home, req, crashes>>

\* The loop over the list read at the start: three statements per message.
DeleteWraps(m) ==
    /\ cron.pc = "purge"
    /\ m \in cron.expired
    /\ wraps' = [wraps EXCEPT ![m] = {}]
    /\ confirmed' = [confirmed EXCEPT ![m] = {}]
    /\ cron' = [cron EXCEPT !.pc = "purge_responses", !.cur = m]
    /\ UNCHANGED <<clock, envelope, responses, events, revoked, home, req, crashes>>

DeleteResponses ==
    /\ cron.pc = "purge_responses"
    /\ responses' = {x \in responses : x.msg # cron.cur}
    /\ cron' = [cron EXCEPT !.pc = "purge_event"]
    /\ UNCHANGED <<clock, envelope, wraps, confirmed, events, revoked, home, req, crashes>>

\* Only this job deletes envelopes, so the event's message is still there.
AddExpiredEvent ==
    /\ cron.pc = "purge_event"
    /\ events' = WithEvent(cron.cur, "expired")
    /\ cron' = [cron EXCEPT !.pc = "purge", !.expired = @ \ {cron.cur}, !.cur = NoMessage]
    /\ UNCHANGED <<clock, envelope, wraps, confirmed, responses, revoked, home, req, crashes>>

LoopEnds ==
    /\ cron.pc = "purge" /\ cron.expired = {}
    /\ cron' = [cron EXCEPT !.pc = "drop"]
    /\ UNCHANGED deliveryVars

\* Mutant: only envelopes that expired are deleted.
DropExpired ==
    /\ cron.pc = "drop"
    /\ envelope' = [m \in Message |->
          IF envelope[m] = "expired" /\ BeyondQueue(m, cron.at) THEN "none" ELSE envelope[m]]
    /\ cron' = [cron EXCEPT !.pc = "trim"]
    /\ UNCHANGED <<clock, wraps, confirmed, responses, events, revoked, home, req, crashes>>

\* One DELETE for all envelopes beyond the queue retention.  A row that still
\* references one of them fails the statement, and the job with it.
DropEnvelopes ==
    /\ cron.pc = "drop"
    /\ LET old == {m \in Message : Stored(m) /\ BeyondQueue(m, cron.at)}
       IN  IF FKEnforced /\ \E m \in old : HasChildren(m)
           THEN cron' = CronIdle /\ UNCHANGED envelope
           ELSE /\ envelope' = [m \in Message |-> IF m \in old THEN "none" ELSE envelope[m]]
                /\ cron' = [cron EXCEPT !.pc = "trim"]
    /\ UNCHANGED <<clock, wraps, confirmed, responses, events, revoked, home, req, crashes>>

TrimEvents ==
    /\ cron.pc = "trim"
    /\ events' = {e \in events : e.at + EventRetention >= cron.at}
    /\ cron' = CronIdle
    /\ UNCHANGED <<clock, envelope, wraps, confirmed, responses, revoked, home, req, crashes>>

\* The scheduled run is cut off between two statements; the next one starts over.
CronCrash ==
    /\ cron.pc # "idle"
    /\ crashes < MaxCrashes
    /\ crashes' = crashes + 1
    /\ cron' = CronIdle
    /\ UNCHANGED <<clock, tables, revoked, home, req>>

CronStep ==
    \/ SelectExpired
    \/ MarkExpired
    \/ \E m \in Message : DeleteWraps(m)
    \/ DeleteResponses
    \/ AddExpiredEvent
    \/ LoopEnds
    \/ DropEnvelopes
    \/ TrimEvents

CronTypeOK == cron \in CronType /\ cron.at <= clock
=============================================================================
