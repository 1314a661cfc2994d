------------------------------- MODULE Notify -------------------------------
(***************************************************************************)
(* internal/notify/delivery.go and its callers for the notify test         *)
(* command (workflow/notify_command.go) and for updates                    *)
(* (workflow/update_notify.go).  Health commands, the third caller, are in *)
(* Health.                                                                 *)
(*                                                                         *)
(* A notification goes to the configured providers one after the other.    *)
(* Each attempt reads its token from the secrets file and makes one HTTP   *)
(* request with a timeout; nothing is tried twice.  A request may reach    *)
(* the receiver although the sender sees it fail.                          *)
(*                                                                         *)
(* Left out: the JSON document, headers, host names and event ids.         *)
(***************************************************************************)
EXTENDS Naturals

CONSTANT Policies  \* the notification settings of a storage entry

Provider == {"webhook", "ntfy"}

\* Destinations are providers, and no policy asks for the status "healthy":
\* HealthConfig.Validate takes no other value for notify_on (Settings).
ASSUME PoliciesAssumption ==
  \A p \in Policies : p.destinations \subseteq Provider /\ "healthy" \notin p.notifyOn

\* notificationProviders: the webhook is tried before ntfy.
First(providers) == IF "webhook" \in providers THEN "webhook" ELSE "ntfy"

UpdateStatus == {"failed", "succeeded", "current", "reinstall-requested"}

VARIABLES
  policy,     \* the settings in force
  sender,     \* the command whose notification is on its way, or "none"
  queue,      \* the providers still to be tried
  tolerant,   \* a token that cannot be read is taken for none
  delivered,  \* the providers whose answer said so
  failed,     \* the providers whose attempt failed
  inbox,      \* the receivers that got the message
  outcome     \* what the last test or update notification reported

notifyVars == <<policy, sender, queue, tolerant, delivered, failed, inbox, outcome>>

NotifyTypeOK ==
  /\ policy \in Policies
  /\ sender \in {"none", "health", "test", "update"}
  /\ queue \subseteq Provider
  /\ tolerant \in BOOLEAN
  /\ delivered \subseteq Provider /\ failed \subseteq Provider /\ inbox \subseteq Provider
  /\ outcome \in {"none", "success", "failed", "preview"}

-----------------------------------------------------------------------------
(* Who is told: destinations and policy. *)

\* The destinations of a request for one provider or for "all"; none is an
\* error, an unknown provider too.
Destinations(provider) == {p \in policy.destinations : provider \in {p, "all"}}

\* shouldSendConfiguredNotification and shouldSendNotification.
Wanted(source, status, attended) ==
  /\ policy.destinations # {}
  /\ attended => policy.interactive
  /\ source \in policy.sendFor
  /\ status \in policy.notifyOn

\* shouldSendUpdateNotification: the same without commands.
UpdateWanted(status, attended) ==
  /\ policy.destinations # {}
  /\ attended => policy.interactive
  /\ status \in policy.notifyOn

-----------------------------------------------------------------------------
(* What they are told. *)

\* buildHealthNotificationPayload; "none" means no message.
HealthEvent(checkType, failedRevisions, freshness, status) ==
  IF checkType = "verify" /\ failedRevisions # {} THEN "verify_failed_revisions"
  ELSE IF freshness = "fail"                      THEN "freshness_failed"
  ELSE IF status = "degraded"                     THEN "health_degraded"
  ELSE IF status = "unhealthy"                    THEN "health_unhealthy"
  ELSE "none"

-----------------------------------------------------------------------------
(* Delivery. *)

NotifyInit ==
  /\ policy \in Policies
  /\ sender = "none" /\ queue = {} /\ tolerant = FALSE
  /\ delivered = {} /\ failed = {} /\ inbox = {}
  /\ outcome = "none"

\* SendConfiguredDetailedWithOptions: the destinations are worked off in order.
Begin(who, destinations, lenient) ==
  /\ sender' = who
  /\ queue' = destinations
  /\ tolerant' = lenient
  /\ delivered' = {} /\ failed' = {} /\ inbox' = {}

\* Mutant: the first failure ends the delivery.
AttemptOrStop(token, answer) ==
  /\ queue # {}
  /\ LET d       == First(queue)
         refused == token = "invalid" \/ (token = "unreadable" /\ ~tolerant)
         good    == ~refused /\ answer = "accepted"
     IN  /\ queue' = IF good THEN queue \ {d} ELSE {}
         /\ inbox' = IF ~refused /\ answer \in {"accepted", "lost"} THEN inbox \cup {d} ELSE inbox
         /\ delivered' = IF good THEN delivered \cup {d} ELSE delivered
         /\ failed' = IF good THEN failed ELSE failed \cup {d}
  /\ UNCHANGED <<policy, sender, tolerant, outcome>>

\* sendToProvider for the next provider: a token that cannot be loaded ends
\* the attempt, unless the caller tolerates an unreadable file.  The request
\* is accepted; refused with another status; lost on the way; or received
\* while its answer is lost or late.
Attempt(token, answer) ==
  /\ queue # {}
  /\ LET d       == First(queue)
         refused == token = "invalid" \/ (token = "unreadable" /\ ~tolerant)
         good    == ~refused /\ answer = "accepted"
     IN  /\ queue' = queue \ {d}
         /\ inbox' = IF ~refused /\ answer \in {"accepted", "lost"} THEN inbox \cup {d} ELSE inbox
         /\ delivered' = IF good THEN delivered \cup {d} ELSE delivered
         /\ failed' = IF good THEN failed ELSE failed \cup {d}
  /\ UNCHANGED <<policy, sender, tolerant, outcome>>

Token  == {"none", "read", "unreadable", "invalid"}
Answer == {"accepted", "rejected", "unreachable", "lost"}

\* An update has no secrets file, so it has no token either.
TokenFor(who) == IF who = "update" THEN {"none"} ELSE Token

-----------------------------------------------------------------------------
(* The notify test command and update notifications. *)

\* handleNotifyTest and handleUpdateNotifyTest.
StartTest(provider, dryRun) ==
  /\ sender = "none"
  /\ LET ds == Destinations(provider)
     IN  IF ds = {} \/ dryRun
         THEN /\ outcome' = IF ds = {} THEN "failed" ELSE "preview"
              /\ Begin("none", {}, FALSE)
         ELSE /\ Begin("test", ds, TRUE)
              /\ outcome' = "none"
  /\ UNCHANGED policy

\* MaybeSendUpdateFailureNotification and MaybeSendUpdateSuccessNotification.
StartUpdateNotice(status, attended) ==
  /\ sender = "none"
  /\ UpdateWanted(status, attended)
  /\ Begin("update", Destinations("all"), FALSE)
  /\ outcome' = "none"
  /\ UNCHANGED policy

\* The error of any destination is the error of the command.
FinishNotice ==
  /\ sender \in {"test", "update"} /\ queue = {}
  /\ outcome' = IF failed = {} THEN "success" ELSE "failed"
  /\ sender' = "none" /\ delivered' = {} /\ failed' = {} /\ inbox' = {}
  /\ UNCHANGED <<policy, queue, tolerant>>

NotifyNext ==
  \/ \E provider \in Provider \cup {"all"}, dryRun \in BOOLEAN : StartTest(provider, dryRun)
  \/ \E status \in UpdateStatus, attended \in BOOLEAN : StartUpdateNotice(status, attended)
  \/ \E token \in TokenFor(sender), answer \in Answer : Attempt(token, answer)
  \/ FinishNotice
=============================================================================
