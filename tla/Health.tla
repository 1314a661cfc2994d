------------------------------- MODULE Health -------------------------------
(***************************************************************************)
(* internal/health: the commands health status, doctor and verify.         *)
(*                                                                         *)
(* A health command takes no lock and has no signal handler.  It lists the *)
(* revisions, and verify checks them with a second duplicacy command while *)
(* backups, prunes and damage go on in the storage.  What it finds goes    *)
(* into a report; the report decides the exit code and, through Notify,    *)
(* who hears of it.                                                        *)
(*                                                                         *)
(* A report keeps the severities of its issues, the verify failure codes   *)
(* and the two rows that are looked up later.  A time in the state file    *)
(* (RunState) is one of any age.  Left out: the wording, the counts, the   *)
(* advice, the progress display and the JSON text.                         *)
(***************************************************************************)
EXTENDS Notify

CONSTANTS
  MaxRevision,  \* bound: revisions are numbered from 1 to this
  MaxAge,       \* bound: ages of revisions, in hours
  WarnAfter,    \* freshness_warn_hours, 0 for none
  FailAfter     \* freshness_fail_hours, 0 for none

ASSUME BoundsAssumption ==
  /\ MaxRevision \in Nat \ {0} /\ MaxAge \in Nat
  /\ WarnAfter \in Nat /\ FailAfter \in Nat

Command  == {"status", "doctor", "verify"}
Kind     == {"local", "remote"}  \* remote: object storage or a mounted one
Revision == 1..MaxRevision
Code     == {"no_revisions_found", "integrity_check_failed", "integrity_result_missing",
             "verify_access_failed", "verify_listing_failed"}

VARIABLES
  kind,       \* where the repository is
  root,       \* the command runs as root
  attended,   \* on a terminal
  stored,     \* the revisions in the storage
  damaged,    \* those with missing chunks
  latest,     \* the last revision number given out
  pc,         \* where the command is in run()
  cmd,        \* which one it is
  listed,     \* the revisions it has listed
  results,    \* what the check said of each revision
  issues,     \* severities in the report
  code,       \* FailureCode, the first verify failure code
  codes,      \* FailureCodes
  freshness,  \* the row "Backup freshness"
  integrity,  \* the row "Integrity check"
  status,     \* of the report
  early,      \* the command has given up before its checks
  notified    \* NotificationSent

storageVars == <<stored, damaged, latest>>
contextVars == <<kind, root, attended>>
codeVars    == <<code, codes>>
foundVars   == <<listed, results, freshness, integrity>>
finalVars   == <<status, early, notified>>
reportVars  == <<issues, codeVars, foundVars, finalVars>>
\* What no check changes.
outsideVars == <<notifyVars, storageVars, contextVars, cmd>>
vars        == <<notifyVars, storageVars, contextVars, reportVars, pc, cmd>>

TypeOK ==
  /\ NotifyTypeOK
  /\ kind \in Kind /\ root \in BOOLEAN /\ attended \in BOOLEAN
  /\ damaged \subseteq stored /\ stored \subseteq 1..latest /\ latest \in Revision
  /\ cmd \in Command
  /\ pc \in {"idle", "prepare", "state", "setup", "status", "doctor", "verify",
             "record", "conclude", "deliver", "done"}
  /\ listed \subseteq Revision
  /\ DOMAIN results \subseteq Revision /\ \A r \in DOMAIN results : results[r] \in {"pass", "fail"}
  /\ issues \subseteq {"warning", "error"}
  /\ code \in Code \cup {"none"} /\ codes \subseteq Code
  /\ freshness \in {"none", "pass", "warn", "fail"} /\ integrity \in {"none", "pass", "fail"}
  /\ status \in {"healthy", "degraded", "unhealthy"}
  /\ early \in BOOLEAN /\ notified \in BOOLEAN

-----------------------------------------------------------------------------
(* The report. *)

\* The issues that rows with these results bring.
Severity(rows) ==
  (IF "fail" \in rows THEN {"error"} ELSE {}) \cup (IF "warn" \in rows THEN {"warning"} ELSE {})

\* AddCheck: adds rows.
Add(rows) == issues' = issues \cup Severity(rows)

\* Mutant: one error among warnings is lost.
StatusIgnoringMix(found) ==
  IF "warning" \in found THEN "degraded" ELSE IF "error" \in found THEN "unhealthy" ELSE "healthy"

\* Finalize.  The exit code is 0, 1 or 2 for the three.
StatusOf(found) ==
  IF "error" \in found THEN "unhealthy" ELSE IF "warning" \in found THEN "degraded" ELSE "healthy"

\* AddVerifyFailureCode for the codes of one step, the first of them given;
\* the other commands have no codes.
AddCodes(new, first) ==
  IF cmd # "verify" \/ new = {}
  THEN UNCHANGED codeVars
  ELSE /\ codes' = codes \cup new
       /\ code' = IF code = "none" THEN first ELSE code

Bad(ok) == IF ok THEN "pass" ELSE "fail"
Poor(ok) == IF ok THEN "pass" ELSE "warn"

\* A report that says nothing yet.
Blank ==
  /\ issues' = {} /\ code' = "none" /\ codes' = {}
  /\ listed' = {} /\ results' = [r \in {} |-> "pass"] /\ freshness' = "none" /\ integrity' = "none"
  /\ status' = "healthy" /\ early' = FALSE /\ notified' = FALSE

-----------------------------------------------------------------------------
(* Parts of the checks. *)

\* localRepositoryRequiresSudo.
RequiresSudo == kind = "local" /\ ~root

\* evaluateFreshness.
Freshness(age) ==
  IF FailAfter > 0 /\ age > FailAfter THEN "fail"
  ELSE IF WarnAfter > 0 /\ age > WarnAfter THEN "warn" ELSE "pass"

\* parseRevisionCheckResults over the lines of each revision: "pass" for all
\* chunks exist, "fail" for some are missing, "chunk" for one that is missing.
Parsed(lines) ==
  [r \in {q \in DOMAIN lines : lines[q] # {}} |-> IF lines[r] \cap {"fail", "chunk"} # {} THEN "fail" ELSE "pass"]

\* What duplicacy prints of the revisions it finds: the truth, or less when it
\* ends before it has come to a revision or to its summary.
Printed ==
  [r \in stored |-> IF r \in damaged THEN {{}, {"chunk"}, {"chunk", "fail"}} ELSE {{}, {"pass"}}]
Outputs == {lines \in [stored -> SUBSET {"pass", "fail", "chunk"}] : \A r \in stored : lines[r] \in Printed[r]}

\* ReconcileVerifyResults: revisions that were listed and then reported as
\* failed, and those that were listed and not reported at all.  Results for
\* revisions that were not listed are passed over.
Failed(checked)  == {r \in listed \cap DOMAIN checked : checked[r] = "fail"}
\* Mutant: a revision without a result is passed over.
MissingNone(checked) == {}
Missing(checked) == listed \ DOMAIN checked

-----------------------------------------------------------------------------
(* The command. *)

Init ==
  /\ NotifyInit
  /\ kind \in Kind /\ root \in BOOLEAN /\ attended \in BOOLEAN
  /\ stored = {1} /\ damaged = {} /\ latest = 1
  /\ pc = "idle" /\ cmd = "status"
  /\ issues = {} /\ code = "none" /\ codes = {}
  /\ listed = {} /\ results = [r \in {} |-> "pass"] /\ freshness = "none" /\ integrity = "none"
  /\ status = "healthy" /\ early = FALSE /\ notified = FALSE

\* run(): doctor as root may warn of the profile it uses.
Start(c, profileWarning) ==
  /\ pc = "idle" /\ sender = "none" /\ pc' = "prepare"
  /\ cmd' = c
  /\ profileWarning => c = "doctor" /\ root
  /\ Add(IF profileWarning THEN {"warn"} ELSE {})
  /\ UNCHANGED <<notifyVars, storageVars, contextVars, codeVars, foundVars, finalVars>>

\* prepare() succeeds.
Prepare ==
  /\ pc = "prepare" /\ pc' = "state"
  /\ UNCHANGED <<outsideVars, reportVars>>

\* prepare() finds no duplicacy command or no secrets where they are needed,
\* or prepareDuplicacySetup fails.
GiveUp ==
  /\ pc \in {"prepare", "setup"} /\ pc' = "conclude"
  /\ early' = TRUE
  /\ Add({"fail"})
  /\ UNCHANGED <<outsideVars, codeVars, foundVars, status, notified>>

\* prepare() fails on the configuration, so loadHealthNotifyConfig does too
\* and nobody is told.
GiveUpUnconfigured ==
  /\ pc = "prepare" /\ pc' = "done"
  /\ early' = TRUE
  /\ Add({"fail"})
  /\ status' = StatusOf(issues')
  /\ UNCHANGED <<outsideVars, codeVars, foundVars, notified>>

\* LoadRunState and InspectTarget (RunState and DirLock say what they find): a
\* state file that is missing or cannot be read warns, and a lock.
ReadState(loads, free) ==
  /\ pc = "state" /\ pc' = "setup"
  /\ Add({Poor(loads), Poor(free)})
  /\ UNCHANGED <<outsideVars, codeVars, foundVars, finalVars>>

\* prepareDuplicacySetup succeeds.
SetUp ==
  /\ pc = "setup" /\ pc' = "status"
  /\ UNCHANGED <<outsideVars, reportVars>>

AfterStatus == IF cmd = "status" THEN "record" ELSE "doctor"

\* runLocalRepositorySudoStatusChecks: nothing is listed.
StatusWithoutSudo ==
  /\ pc = "status" /\ RequiresSudo /\ pc' = AfterStatus
  /\ Add({Bad(cmd # "status")})
  /\ UNCHANGED <<outsideVars, codeVars, foundVars, finalVars>>

\* runStatusChecks when the listing fails.
ListingFails ==
  /\ pc = "status" /\ ~RequiresSudo /\ pc' = AfterStatus
  /\ AddCodes({"verify_listing_failed"}, "verify_listing_failed")
  /\ Add({"fail"})
  /\ UNCHANGED <<outsideVars, foundVars, finalVars>>

\* runStatusChecks with the revisions of this moment.  The age of the latest
\* one is from the listing or the state file; without a time the row warns.
List(dated, age) ==
  /\ pc = "status" /\ ~RequiresSudo /\ pc' = AfterStatus
  /\ listed' = stored
  /\ freshness' = IF stored = {} THEN "none" ELSE IF dated THEN Freshness(age) ELSE "warn"
  /\ Add({Poor(stored # {}), freshness'})
  /\ UNCHANGED <<outsideVars, codeVars, results, integrity, finalVars>>

\* runDoctorChecks.  For verify the source and Btrfs rows are for display.
DoctorChecks(ready, recent, reachable) ==
  /\ pc = "doctor" /\ pc' = IF cmd = "verify" THEN "verify" ELSE "record"
  /\ reachable => ~RequiresSudo
  /\ LET own == IF cmd = "doctor" THEN {Bad(ready), Poor(recent)} ELSE {"pass"}
     IN  Add(own \cup {Bad(reachable)})
  /\ AddCodes(IF reachable THEN {} ELSE {"verify_access_failed"}, "verify_access_failed")
  /\ UNCHANGED <<outsideVars, foundVars, finalVars>>

\* runVerifyChecks when it has nothing to check: the listing failed, the
\* repository needs sudo, or no revision was listed.
NothingToCheck == "verify_listing_failed" \in codes \/ RequiresSudo \/ listed = {}
VerifyNothing(recent) ==
  /\ pc = "verify" /\ NothingToCheck /\ pc' = "record"
  /\ integrity' = "fail"
  /\ LET empty == "verify_listing_failed" \notin codes /\ ~RequiresSudo
     IN  /\ AddCodes(IF empty THEN {"no_revisions_found"} ELSE {}, "no_revisions_found")
         /\ Add({"fail"} \cup (IF empty THEN {Poor(recent)} ELSE {}))
  /\ UNCHANGED <<outsideVars, listed, results, freshness, finalVars>>

\* CheckVisibleRevisions ends without a result.
CheckFails ==
  /\ pc = "verify" /\ ~NothingToCheck /\ pc' = "record"
  /\ integrity' = "fail"
  /\ AddCodes({"verify_access_failed"}, "verify_access_failed")
  /\ Add({"fail"})
  /\ UNCHANGED <<outsideVars, listed, results, freshness, finalVars>>

\* runVerifyChecks with what the check printed of the revisions of this
\* moment, whether it ended well or not.
Check(lines, recent) ==
  /\ pc = "verify" /\ ~NothingToCheck /\ pc' = "record"
  /\ results' = Parsed(lines)
  /\ LET failing == Failed(results')
         missing == Missing(results')
         good    == failing \cup missing = {}
     IN  /\ integrity' = Bad(good)
         /\ AddCodes((IF failing # {} THEN {"integrity_check_failed"} ELSE {})
                       \cup (IF missing # {} THEN {"integrity_result_missing"} ELSE {}),
                     IF failing # {} THEN "integrity_check_failed" ELSE "integrity_result_missing")
         /\ Add({Bad(good), Poor(recent)})
  /\ UNCHANGED <<outsideVars, listed, freshness, finalVars>>

\* UpdateHealthCheckState (RunState models the write), whatever was found.
RecordRun(saved) ==
  /\ pc = "record" /\ pc' = "conclude"
  /\ Add({Poor(saved)})
  /\ UNCHANGED <<outsideVars, codeVars, foundVars, finalVars>>

\* buildHealthNotificationPayload for this report.
Event(final) == HealthEvent(cmd, Failed(results), freshness, final)

\* Finalize, and the notification if there is one to send.
Conclude ==
  /\ pc = "conclude"
  /\ status' = StatusOf(issues)
  /\ IF Wanted(cmd, status', attended) /\ Event(status') # "none"
     THEN Begin("health", Destinations("all"), FALSE) /\ pc' = "deliver"
     ELSE pc' = "done" /\ UNCHANGED <<sender, queue, tolerant, delivered, failed, inbox>>
  /\ UNCHANGED <<policy, outcome, storageVars, contextVars, cmd, issues, codeVars, foundVars, early, notified>>

\* Mutant: a notification that fails is an error.
FinishDeliveryWithError ==
  /\ pc = "deliver" /\ queue = {} /\ pc' = "done"
  /\ Add({Bad(failed = {})})
  /\ status' = IF early THEN status ELSE StatusOf(issues')
  /\ notified' = (failed = {})
  /\ sender' = "none"
  /\ UNCHANGED <<policy, queue, tolerant, delivered, failed, inbox, outcome, storageVars, contextVars,
                 cmd, codeVars, foundVars, early>>

\* The row "Notification" and, unless it gave up early, another Finalize.
FinishDelivery ==
  /\ pc = "deliver" /\ queue = {} /\ pc' = "done"
  /\ Add({Poor(failed = {})})
  /\ status' = IF early THEN status ELSE StatusOf(issues')
  /\ notified' = (failed = {})
  /\ sender' = "none"
  /\ UNCHANGED <<policy, queue, tolerant, delivered, failed, inbox, outcome, storageVars, contextVars,
                 cmd, codeVars, foundVars, early>>

\* The command has returned its report and its exit code, or is killed before.
Exit ==
  /\ pc # "idle" /\ pc' = "idle"
  /\ Blank /\ cmd' = "status"
  /\ Begin("none", {}, FALSE)
  /\ UNCHANGED <<policy, outcome, storageVars, contextVars>>

-----------------------------------------------------------------------------
(* The storage, until the command has looked at it for the last time. *)

StillMatters == pc \notin {"record", "conclude", "deliver", "done"}

Backup ==
  /\ StillMatters /\ latest < MaxRevision
  /\ latest' = latest + 1
  /\ stored' = stored \cup {latest'}
  /\ UNCHANGED <<notifyVars, contextVars, reportVars, pc, cmd, damaged>>

Prune(r) ==
  /\ StillMatters /\ r \in stored
  /\ stored' = stored \ {r} /\ damaged' = damaged \ {r}
  /\ UNCHANGED <<notifyVars, contextVars, reportVars, pc, cmd, latest>>

Damage(r) ==
  /\ StillMatters /\ r \in stored \ damaged
  /\ damaged' = damaged \cup {r}
  /\ UNCHANGED <<notifyVars, contextVars, reportVars, pc, cmd, stored, latest>>

-----------------------------------------------------------------------------
Checks ==
  \/ \E loads, free \in BOOLEAN : ReadState(loads, free)
  \/ SetUp
  \/ StatusWithoutSudo
  \/ ListingFails
  \/ \E dated \in BOOLEAN, age \in 0..MaxAge : List(dated, age)
  \/ \E ready, recent, reachable \in BOOLEAN : DoctorChecks(ready, recent, reachable)
  \/ \E recent \in BOOLEAN : VerifyNothing(recent)
  \/ CheckFails
  \/ \E lines \in Outputs, recent \in BOOLEAN : Check(lines, recent)

\* Tests and update notifications are sent while no health command runs.
Others ==
  /\ pc = "idle" \/ sender = "health"
  /\ NotifyNext
  /\ UNCHANGED <<storageVars, contextVars, reportVars, pc, cmd>>

Next ==
  \/ \E c \in Command, profileWarning \in BOOLEAN : Start(c, profileWarning)
  \/ Prepare \/ GiveUp \/ GiveUpUnconfigured
  \/ Checks
  \/ \E saved \in BOOLEAN : RecordRun(saved)
  \/ Conclude \/ FinishDelivery \/ Exit
  \/ Others
  \/ Backup
  \/ \E r \in Revision : Prune(r) \/ Damage(r)

Spec == Init /\ [][Next]_vars

-----------------------------------------------------------------------------
(* Properties. *)

\* Backups, prunes and damage between the listing and the check never make
\* verify call the storage sound when it is not: if the row "Integrity check"
\* passes, every revision that had been listed is still stored and intact at
\* the moment of the check (checks.go:199-256, verify.go:31-94).
VerdictTruthful ==
  [][integrity # "pass" /\ integrity' = "pass" =>
       listed # {} /\ listed \subseteq stored /\ listed \cap damaged = {}]_vars

\* A verify that ends, on whichever of its paths, is unhealthy unless the
\* integrity row passed and no failure code was added, and a failed integrity
\* row comes with a code for automation to act on.
VerifyExplained ==
  pc = "done" /\ cmd = "verify" =>
    /\ status # "unhealthy" => integrity = "pass" /\ codes = {}
    /\ integrity = "fail" => code \in codes

\* When a health command ends with a status the policy wants announced, every
\* configured destination has been tried, however the others answered; a
\* report that claims a notification is right: every destination has the message.
Alerted ==
  pc \in {"conclude", "deliver"} /\ pc' = "done" =>
    /\ Wanted(cmd, status', attended) => delivered \cup failed = policy.destinations
    /\ notified' => policy.destinations \subseteq inbox
AlertsAsConfigured == [][Alerted]_vars

\* The exit code a scheduler acts on does not depend on whether the
\* notification could be delivered (runner.go:149-162).
NotificationKeepsVerdict == [][pc = "deliver" /\ pc' = "done" => status' = status]_vars
=============================================================================
