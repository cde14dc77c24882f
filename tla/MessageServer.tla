---------------------------- MODULE MessageServer ---------------------------
(***************************************************************************)
(* The message half of the server: the request handlers of module Delivery *)
(* and the retention job of module Retention, interleaved statement by     *)
(* statement over the same tables.                                         *)
(***************************************************************************)
EXTENDS Retention

vars == <<deliveryVars, cron>>

Init == DeliveryInit /\ RetentionInit

Next ==
    \/ DeliveryNext /\ UNCHANGED cron
    \/ CronStep
    \/ CronCrash

(***************************************************************************)
(* Time goes on, the platform starts the job every hour and its statements *)
(* end.  Nothing is assumed of senders, devices or requests.               *)
(***************************************************************************)
Spec == Init /\ [][Next]_vars
FairSpec == Spec /\ WF_vars(Tick /\ UNCHANGED cron) /\ WF_vars(CronStep)

\* Type correctness of the tables, the requests and the retention job.
ServerTypeOK == TypeOK /\ CronTypeOK

-----------------------------------------------------------------------------
(***************************************************************************)
(* Safety.  Beyond the queue retention the envelope itself is deleted; if  *)
(* the deadline is over too, the job first takes the message apart row by  *)
(* row.  The promises below end there.                                     *)
(***************************************************************************)
Outdated(m) == BeyondQueue(m, clock)
Retired(m) == PastDeadline(m) /\ Outdated(m)

ResponsesTo(m) == {x \in responses : x.msg = m}
HasEvent(m, name) == \E e \in events : e.msg = m /\ e.event = name

\* A sender that sees `responded` can fetch a response: submitResponse stores
\* the row before it sets the state, and a request cut off in between leaves
\* the state alone (message-service.ts:145-159).
RespondedHasResponse ==
    \A m \in Message : envelope[m] = "responded" => Retired(m) \/ ResponsesTo(m) # {}

\* A stored response answers a request of its own kind and comes from a device
\* the sender wrapped the key for (message-service.ts:120-141), although the
\* message, the wrap and the device are read by three separate statements.
ResponsesFitTheirMessage ==
    \A x \in responses :
        /\ KindFits(Submission[x.msg].mode, x.kind)
        /\ Retired(x.msg) \/ x.device \in wraps[x.msg]

\* `delivered` means that a target device has confirmed: markDelivered stamps
\* the wrap before it advances the state (device-service.ts:164-172).
DeliveredWasConfirmed ==
    \A m \in Message : envelope[m] = "delivered" => Retired(m) \/ confirmed[m] # {}

\* An accepted event promises a stored message that some device can fetch,
\* wherever a request is cut off (message-service.ts:43-66).
AcceptedIsDeliverable ==
    \A m \in Message : HasEvent(m, "accepted") =>
        Outdated(m) \/ (Stored(m) /\ wraps[m] # {})

\* A confirmed wrap is not listed again, so the confirmation must reach the
\* state: as long as no request is cut off, an accepted message with a confirmed
\* wrap is about to advance, also when the wrap and the state are written by
\* different requests and the job runs in between (device-service.ts:164-172).
ConfirmedAdvances ==
    \A m \in Message :
        envelope[m] = "accepted" /\ confirmed[m] # {} =>
            \/ Outdated(m) \/ crashes > 0
            \/ \E r \in Request : req[r].pc = "advance" /\ req[r].msg = m

\* The retention job deletes no envelope within the queue retention, and takes
\* no key wrap and no response of a message whose deadline is still ahead,
\* whatever happens between its statements (retention-service.ts:25-59).
OnlyRetiredAreDeleted ==
    [][\A m \in Message :
          /\ Stored(m) /\ envelope'[m] = "none" => Outdated(m)
          /\ \/ Retired(m)
             \/ wraps[m] \subseteq wraps'[m] /\ ResponsesTo(m) \subseteq ResponsesTo(m)']_vars

(***************************************************************************)
(* The status a sender polls behaves as module SenderView says.            *)
(***************************************************************************)
View == INSTANCE SenderView WITH
    now <- clock,
    status <- envelope,
    Answerable <- {m \in Message : Submission[m].mode # "notify"},
    ExpiresAt <- [m \in Message |-> Submission[m].expiresAt],
    ForgetAt <- [m \in Message |-> Submission[m].createdAt + QueueRetention]

\* messageStatus answers from the states SenderView allows, in its order.
SenderSeesView == View!ViewSpec

-----------------------------------------------------------------------------
(* Liveness *)

Unsettled(m) ==
    \/ envelope[m] = "accepted"
    \/ envelope[m] = "delivered" /\ Submission[m].mode # "notify"

\* A message nobody fetches, or a request nobody answers, does not stay open:
\* the job marks it expired (retention-service.ts:31-44) even while its later
\* statements keep failing.
OpenMessagesSettle == \A m \in Message : Unsettled(m) ~> ~Unsettled(m)

\* An envelope beyond the queue retention is deleted (retention-service.ts:59).
QueueIsDeleted == \A m \in Message : (Stored(m) /\ Outdated(m)) ~> ~Stored(m)

=============================================================================
