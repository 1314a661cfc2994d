--------------------------- MODULE HealthProofs ---------------------------
(***************************************************************************)
(* Theorems about the health commands, for any policies, any number of     *)
(* revisions and any thresholds.                                           *)
(***************************************************************************)
EXTENDS Health, TLAPS

-----------------------------------------------------------------------------
(* Types. *)

LEMMA InitTyped == Init => TypeOK
<1> SUFFICES ASSUME Init PROVE TypeOK
  OBVIOUS
<1>1. NotifyTypeOK
  BY DEF Init, NotifyInit, NotifyTypeOK
<1>2. DOMAIN results = {}
  BY DEF Init
<1>3. latest \in Revision /\ stored \subseteq 1..latest
  BY BoundsAssumption DEF Init, Revision
<1> QED
  BY <1>1, <1>2, <1>3 DEF Init, TypeOK, Command

\* What a notification of any sender does keeps the types.
LEMMA NotifyKeepsType ==
  ASSUME TypeOK, NotifyNext PROVE NotifyTypeOK'
<1>1. policy.destinations \subseteq Provider
  BY PoliciesAssumption DEF TypeOK, NotifyTypeOK
<1>2. \A provider : Destinations(provider) \subseteq Provider
  BY <1>1 DEF Destinations
<1>3. CASE \E provider \in Provider \cup {"all"}, dryRun \in BOOLEAN : StartTest(provider, dryRun)
  BY <1>2, <1>3 DEF StartTest, Begin, TypeOK, NotifyTypeOK
<1>4. CASE \E s \in UpdateStatus, a \in BOOLEAN : StartUpdateNotice(s, a)
  BY <1>2, <1>4 DEF StartUpdateNotice, Begin, TypeOK, NotifyTypeOK
<1>5. CASE \E token \in TokenFor(sender), answer \in Answer : Attempt(token, answer)
  <2>1. First(queue) \in Provider
    BY DEF First, Provider
  <2> QED
    BY <1>5, <2>1 DEF Attempt, TypeOK, NotifyTypeOK
<1>6. CASE FinishNotice
  BY <1>6 DEF FinishNotice, TypeOK, NotifyTypeOK
<1> QED
  BY <1>3, <1>4, <1>5, <1>6 DEF NotifyNext

\* Adding rows keeps the type of the issues.
LEMMA AddTyped ==
  ASSUME TypeOK, NEW rows, Add(rows) PROVE issues' \subseteq {"warning", "error"}
BY DEF Add, Severity, TypeOK

LEMMA AddCodesTyped ==
  ASSUME TypeOK, NEW new \in SUBSET Code, NEW first \in Code, AddCodes(new, first)
  PROVE  codes' \subseteq Code /\ code' \in Code \cup {"none"}
BY DEF AddCodes, TypeOK, codeVars

LEMMA StatusTyped == \A found : StatusOf(found) \in {"healthy", "degraded", "unhealthy"}
BY DEF StatusOf

LEMMA NextTyped ==
  ASSUME TypeOK, [Next]_vars PROVE TypeOK'
<1>0. CASE UNCHANGED vars
  BY <1>0 DEF TypeOK, NotifyTypeOK, vars, notifyVars, storageVars, contextVars, reportVars,
              codeVars, foundVars, finalVars
<1>1. ASSUME NEW c \in Command, NEW w \in BOOLEAN, Start(c, w) PROVE TypeOK'
  <2>1. issues' \subseteq {"warning", "error"}
    BY <1>1, AddTyped DEF Start
  <2> QED
    BY <1>1, <2>1 DEF Start, TypeOK, NotifyTypeOK, notifyVars, storageVars, contextVars,
                      codeVars, foundVars, finalVars
<1>2. CASE Prepare
  BY <1>2 DEF Prepare, TypeOK, NotifyTypeOK, outsideVars, notifyVars, storageVars,
              contextVars, reportVars, codeVars, foundVars, finalVars
<1>20. CASE SetUp
  BY <1>20 DEF SetUp, TypeOK, NotifyTypeOK, outsideVars, notifyVars, storageVars,
               contextVars, reportVars, codeVars, foundVars, finalVars
<1>3. CASE GiveUp
  <2>1. issues' \subseteq {"warning", "error"}
    BY <1>3, AddTyped DEF GiveUp
  <2> QED
    BY <1>3, <2>1 DEF GiveUp, TypeOK, NotifyTypeOK, outsideVars, notifyVars, storageVars,
                      contextVars, codeVars, foundVars
<1>4. CASE GiveUpUnconfigured
  <2>1. issues' \subseteq {"warning", "error"}
    BY <1>4, AddTyped DEF GiveUpUnconfigured
  <2>2. status' \in {"healthy", "degraded", "unhealthy"}
    BY <1>4, StatusTyped DEF GiveUpUnconfigured
  <2> QED
    BY <1>4, <2>1, <2>2 DEF GiveUpUnconfigured, TypeOK, NotifyTypeOK, outsideVars, notifyVars,
                      storageVars, contextVars, codeVars, foundVars
<1>5. ASSUME NEW loads \in BOOLEAN, NEW free \in BOOLEAN, ReadState(loads, free) PROVE TypeOK'
  <2>1. issues' \subseteq {"warning", "error"}
    BY <1>5, AddTyped DEF ReadState
  <2> QED
    BY <1>5, <2>1 DEF ReadState, TypeOK, NotifyTypeOK, outsideVars, notifyVars, storageVars,
                      contextVars, codeVars, foundVars, finalVars
<1>6. CASE StatusWithoutSudo
  <2>1. issues' \subseteq {"warning", "error"}
    BY <1>6, AddTyped DEF StatusWithoutSudo
  <2> QED
    BY <1>6, <2>1 DEF StatusWithoutSudo, AfterStatus, TypeOK, NotifyTypeOK, outsideVars, notifyVars,
                      storageVars, contextVars, codeVars, foundVars, finalVars
<1>7. CASE ListingFails
  <2>1. issues' \subseteq {"warning", "error"}
    BY <1>7, AddTyped DEF ListingFails
  <2>2. codes' \subseteq Code /\ code' \in Code \cup {"none"}
    BY <1>7, AddCodesTyped DEF ListingFails, Code
  <2> QED
    BY <1>7, <2>1, <2>2 DEF ListingFails, AfterStatus, TypeOK, NotifyTypeOK, outsideVars, notifyVars,
                      storageVars, contextVars, foundVars, finalVars
<1>8. ASSUME NEW dated \in BOOLEAN, NEW age \in 0..MaxAge, List(dated, age) PROVE TypeOK'
  <2>1. issues' \subseteq {"warning", "error"}
    BY <1>8, AddTyped DEF List
  <2>2. listed' \subseteq Revision
    BY <1>8, BoundsAssumption DEF List, TypeOK, Revision
  <2>3. freshness' \in {"none", "pass", "warn", "fail"}
    BY <1>8 DEF List, Freshness
  <2> QED
    BY <1>8, <2>1, <2>2, <2>3 DEF List, AfterStatus, TypeOK, NotifyTypeOK, outsideVars, notifyVars,
                      storageVars, contextVars, codeVars, finalVars
<1>9. ASSUME NEW ready \in BOOLEAN, NEW recent \in BOOLEAN, NEW reachable \in BOOLEAN,
             DoctorChecks(ready, recent, reachable)
      PROVE  TypeOK'
  <2>1. issues' \subseteq {"warning", "error"}
    BY <1>9, AddTyped DEF DoctorChecks
  <2>2. codes' \subseteq Code /\ code' \in Code \cup {"none"}
    BY <1>9, AddCodesTyped DEF DoctorChecks, Code
  <2> QED
    BY <1>9, <2>1, <2>2 DEF DoctorChecks, TypeOK, NotifyTypeOK, outsideVars, notifyVars,
                      storageVars, contextVars, foundVars, finalVars
<1>10. ASSUME NEW recent \in BOOLEAN, VerifyNothing(recent) PROVE TypeOK'
  <2>1. issues' \subseteq {"warning", "error"}
    BY <1>10, AddTyped DEF VerifyNothing
  <2>2. codes' \subseteq Code /\ code' \in Code \cup {"none"}
    BY <1>10, AddCodesTyped DEF VerifyNothing, Code
  <2> QED
    BY <1>10, <2>1, <2>2 DEF VerifyNothing, TypeOK, NotifyTypeOK, outsideVars, notifyVars,
                      storageVars, contextVars, finalVars
<1>11. CASE CheckFails
  <2>1. issues' \subseteq {"warning", "error"}
    BY <1>11, AddTyped DEF CheckFails
  <2>2. codes' \subseteq Code /\ code' \in Code \cup {"none"}
    BY <1>11, AddCodesTyped DEF CheckFails, Code
  <2> QED
    BY <1>11, <2>1, <2>2 DEF CheckFails, TypeOK, NotifyTypeOK, outsideVars, notifyVars,
                      storageVars, contextVars, finalVars
<1>12. ASSUME NEW lines \in Outputs, NEW recent \in BOOLEAN, Check(lines, recent) PROVE TypeOK'
  <2>1. issues' \subseteq {"warning", "error"}
    BY <1>12, AddTyped DEF Check
  <2>2. codes' \subseteq Code /\ code' \in Code \cup {"none"}
    BY <1>12, AddCodesTyped DEF Check, Code
  <2>3. DOMAIN lines = stored
    BY DEF Outputs
  <2>4. DOMAIN results' \subseteq Revision /\ \A r \in DOMAIN results' : results'[r] \in {"pass", "fail"}
    <3>1. results' = Parsed(lines)
      BY <1>12 DEF Check
    <3>2. DOMAIN Parsed(lines) \subseteq stored
      BY <2>3 DEF Parsed
    <3>3. \A r \in DOMAIN Parsed(lines) : Parsed(lines)[r] \in {"pass", "fail"}
      BY DEF Parsed
    <3>4. stored \subseteq Revision
      BY BoundsAssumption DEF TypeOK, Revision
    <3> QED
      BY <3>1, <3>2, <3>3, <3>4
  <2> QED
    BY <1>12, <2>1, <2>2, <2>4 DEF Check, Bad, TypeOK, NotifyTypeOK, outsideVars, notifyVars,
                      storageVars, contextVars, finalVars
<1>13. ASSUME NEW saved \in BOOLEAN, RecordRun(saved) PROVE TypeOK'
  <2>1. issues' \subseteq {"warning", "error"}
    BY <1>13, AddTyped DEF RecordRun
  <2> QED
    BY <1>13, <2>1 DEF RecordRun, TypeOK, NotifyTypeOK, outsideVars, notifyVars, storageVars,
                      contextVars, codeVars, foundVars, finalVars
<1>14. CASE Conclude
  <2>1. status' \in {"healthy", "degraded", "unhealthy"}
    BY <1>14, StatusTyped DEF Conclude
  <2>2. Destinations("all") \subseteq Provider
    BY PoliciesAssumption DEF Destinations, TypeOK, NotifyTypeOK
  <2>3. NotifyTypeOK'
    BY <1>14, <2>2 DEF Conclude, Begin, TypeOK, NotifyTypeOK
  <2>4. pc' \in {"deliver", "done"}
    BY <1>14 DEF Conclude
  <2> QED
    BY <1>14, <2>1, <2>3, <2>4 DEF Conclude, TypeOK, storageVars, contextVars, codeVars, foundVars
<1>15. CASE FinishDelivery
  <2>1. issues' \subseteq {"warning", "error"}
    BY <1>15, AddTyped DEF FinishDelivery
  <2>2. status' \in {"healthy", "degraded", "unhealthy"}
    BY <1>15, StatusTyped DEF FinishDelivery, TypeOK
  <2> QED
    BY <1>15, <2>1, <2>2 DEF FinishDelivery, TypeOK, NotifyTypeOK, storageVars, contextVars,
                      codeVars, foundVars
<1>16. CASE Exit
  BY <1>16 DEF Exit, Blank, Begin, TypeOK, NotifyTypeOK, storageVars, contextVars, Command
<1>17. CASE Others
  BY <1>17, NotifyKeepsType DEF Others, TypeOK, storageVars, contextVars, reportVars, codeVars,
                                foundVars, finalVars
<1>18. CASE Backup
  BY <1>18, BoundsAssumption DEF Backup, TypeOK, NotifyTypeOK, Revision, notifyVars, contextVars,
              reportVars, codeVars, foundVars, finalVars
<1>19. ASSUME NEW r \in Revision, Prune(r) PROVE TypeOK'
  BY <1>19 DEF Prune, TypeOK, NotifyTypeOK, notifyVars, contextVars, reportVars, codeVars,
               foundVars, finalVars
<1>21. ASSUME NEW r \in Revision, Damage(r) PROVE TypeOK'
  BY <1>21 DEF Damage, TypeOK, NotifyTypeOK, notifyVars, contextVars, reportVars, codeVars,
               foundVars, finalVars
<1> QED
  BY <1>0, <1>1, <1>2, <1>3, <1>4, <1>5, <1>6, <1>7, <1>8, <1>9, <1>10, <1>11, <1>12, <1>13,
     <1>14, <1>15, <1>16, <1>17, <1>18, <1>19, <1>20, <1>21 DEF Next, Checks

\* Every variable has its type.
THEOREM TypeCorrect == Spec => []TypeOK
BY InitTyped, NextTyped, PTL DEF Spec

-----------------------------------------------------------------------------
(* What the report knows at each point of a command. *)

Early == pc \in {"idle", "prepare", "state", "setup", "status", "doctor", "verify"}

\* The codes and their first one, and the findings that are errors.
Coded ==
  /\ IF codes = {} THEN code = "none" ELSE code \in codes
  /\ codes # {} \/ freshness = "fail" \/ integrity = "fail" \/ early \/ Failed(results) # {}
       => "error" \in issues

\* Where the command is, it has or has not yet checked the storage.
Checked ==
  /\ Early => integrity = "none" /\ DOMAIN results = {}
  /\ pc = "verify" => cmd = "verify" /\ (RequiresSudo => codes # {})
  /\ cmd = "verify" /\ integrity = "fail" => codes # {}
  /\ cmd = "verify" /\ ~Early => "error" \in issues \/ (integrity = "pass" /\ codes = {})

\* The status is that of the report.
Final == pc \in {"deliver", "done"} => status = StatusOf(issues)

\* A notification on its way is that of the health command, to every destination.
Sending ==
  /\ pc = "deliver" <=> sender = "health"
  /\ pc # "idle" => sender \in {"none", "health"}
  /\ notified => pc = "done"
  /\ pc = "deliver" =>
       /\ status # "healthy"
       /\ queue \subseteq policy.destinations
       /\ delivered \cup failed \cup queue = policy.destinations
       /\ policy.destinations \subseteq inbox \cup failed \cup queue

HealthInv == Coded /\ Checked /\ Final /\ Sending

-----------------------------------------------------------------------------
(* The helpers of the report. *)

LEMMA AddKeeps ==
  ASSUME NEW rows, Add(rows)
  PROVE  /\ "error" \in issues => "error" \in issues'
         /\ "fail" \in rows => "error" \in issues'
BY DEF Add, Severity

LEMMA AddCodesKeeps ==
  ASSUME NEW new, NEW first, new = {} \/ first \in new, AddCodes(new, first),
         IF codes = {} THEN code = "none" ELSE code \in codes
  PROVE  /\ IF codes' = {} THEN code' = "none" ELSE code' \in codes'
         /\ codes \subseteq codes'
         /\ new = {} => codes' = codes
         /\ cmd = "verify" => new \subseteq codes'
BY DEF AddCodes, codeVars

LEMMA CodedKept ==
  ASSUME TypeOK, Coded, Checked, [Next]_vars PROVE Coded'
<1>0. CASE UNCHANGED vars
  BY <1>0 DEF Coded, Failed, vars, notifyVars, storageVars, contextVars, reportVars,
              codeVars, foundVars, finalVars
<1>1. ASSUME NEW c \in Command, NEW w \in BOOLEAN, Start(c, w) PROVE Coded'
  BY <1>1, AddKeeps DEF Start, Coded, Failed, outsideVars, notifyVars, storageVars,
              contextVars, reportVars, codeVars, foundVars, finalVars
<1>2. CASE Prepare
  BY <1>2, AddKeeps DEF Prepare, Coded, Failed, outsideVars, notifyVars, storageVars,
              contextVars, reportVars, codeVars, foundVars, finalVars
<1>3. CASE SetUp
  BY <1>3, AddKeeps DEF SetUp, Coded, Failed, outsideVars, notifyVars, storageVars,
              contextVars, reportVars, codeVars, foundVars, finalVars
<1>4. CASE GiveUp
  BY <1>4, AddKeeps DEF GiveUp, Coded, Failed, outsideVars, notifyVars, storageVars,
              contextVars, reportVars, codeVars, foundVars, finalVars
<1>5. CASE GiveUpUnconfigured
  BY <1>5, AddKeeps DEF GiveUpUnconfigured, Coded, Failed, outsideVars, notifyVars, storageVars,
              contextVars, reportVars, codeVars, foundVars, finalVars
<1>6. ASSUME NEW loads \in BOOLEAN, NEW free \in BOOLEAN, ReadState(loads, free) PROVE Coded'
  BY <1>6, AddKeeps DEF ReadState, Coded, Failed, outsideVars, notifyVars, storageVars,
              contextVars, reportVars, codeVars, foundVars, finalVars
<1>7. CASE StatusWithoutSudo
  BY <1>7, AddKeeps DEF StatusWithoutSudo, Coded, Failed, outsideVars, notifyVars, storageVars,
              contextVars, reportVars, codeVars, foundVars, finalVars
<1>8. CASE ListingFails
  BY <1>8, AddKeeps, AddCodesKeeps DEF ListingFails, Coded, Failed, outsideVars, notifyVars, storageVars,
              contextVars, reportVars, codeVars, foundVars, finalVars
<1>9. ASSUME NEW dated \in BOOLEAN, NEW age \in 0..MaxAge, List(dated, age) PROVE Coded'
  BY <1>9, AddKeeps DEF List, Coded, Failed, Checked, Early, outsideVars, notifyVars, storageVars,
              contextVars, reportVars, codeVars, foundVars, finalVars
<1>10. ASSUME NEW ready \in BOOLEAN, NEW recent \in BOOLEAN, NEW reachable \in BOOLEAN,
             DoctorChecks(ready, recent, reachable)
      PROVE  Coded'
  BY <1>10, AddKeeps, AddCodesKeeps DEF DoctorChecks, Coded, Failed, Bad, outsideVars, notifyVars, storageVars,
              contextVars, reportVars, codeVars, foundVars, finalVars
<1>11. ASSUME NEW recent \in BOOLEAN, VerifyNothing(recent) PROVE Coded'
  BY <1>11, AddKeeps, AddCodesKeeps DEF VerifyNothing, Coded, Failed, outsideVars, notifyVars, storageVars,
              contextVars, reportVars, codeVars, foundVars, finalVars
<1>12. CASE CheckFails
  BY <1>12, AddKeeps, AddCodesKeeps DEF CheckFails, Coded, Failed, outsideVars, notifyVars, storageVars,
              contextVars, reportVars, codeVars, foundVars, finalVars
<1>13. ASSUME NEW lines \in Outputs, NEW recent \in BOOLEAN, Check(lines, recent) PROVE Coded'
  BY <1>13, AddKeeps, AddCodesKeeps DEF Check, Coded, Failed, Bad, outsideVars, notifyVars, storageVars,
              contextVars, reportVars, codeVars, foundVars, finalVars
<1>14. ASSUME NEW saved \in BOOLEAN, RecordRun(saved) PROVE Coded'
  BY <1>14, AddKeeps DEF RecordRun, Coded, Failed, outsideVars, notifyVars, storageVars,
              contextVars, reportVars, codeVars, foundVars, finalVars
<1>15. CASE Conclude
  BY <1>15, AddKeeps DEF Conclude, Coded, Failed, outsideVars, notifyVars, storageVars,
              contextVars, reportVars, codeVars, foundVars, finalVars
<1>16. CASE FinishDelivery
  BY <1>16, AddKeeps DEF FinishDelivery, Coded, Failed, outsideVars, notifyVars, storageVars,
              contextVars, reportVars, codeVars, foundVars, finalVars
<1>17. CASE Exit
  BY <1>17 DEF Exit, Coded, Failed, Blank, outsideVars, notifyVars, storageVars,
              contextVars, reportVars, codeVars, foundVars, finalVars
<1>18. CASE Others
  BY <1>18, AddKeeps DEF Others, Coded, Failed, outsideVars, notifyVars, storageVars,
              contextVars, reportVars, codeVars, foundVars, finalVars
<1>19. CASE Backup
  BY <1>19, AddKeeps DEF Backup, Coded, Failed, outsideVars, notifyVars, storageVars,
              contextVars, reportVars, codeVars, foundVars, finalVars
<1>20. ASSUME NEW r \in Revision, Prune(r) PROVE Coded'
  BY <1>20, AddKeeps DEF Prune, Coded, Failed, outsideVars, notifyVars, storageVars,
              contextVars, reportVars, codeVars, foundVars, finalVars
<1>21. ASSUME NEW r \in Revision, Damage(r) PROVE Coded'
  BY <1>21, AddKeeps DEF Damage, Coded, Failed, outsideVars, notifyVars, storageVars,
              contextVars, reportVars, codeVars, foundVars, finalVars
<1> QED
  BY <1>0, <1>1, <1>2, <1>3, <1>4, <1>5, <1>6, <1>7, <1>8, <1>9, <1>10, <1>11, <1>12, <1>13, <1>14, <1>15, <1>16, <1>17, <1>18, <1>19, <1>20, <1>21 DEF Next, Checks

\* A step leaves what it has found for the next one.
LEMMA CheckedKept ==
  ASSUME TypeOK, Coded, Checked, [Next]_vars PROVE Checked'
<1>0. CASE UNCHANGED vars
  BY <1>0 DEF Checked, Early, RequiresSudo, vars, outsideVars, notifyVars, storageVars, contextVars,
              reportVars, codeVars, foundVars, finalVars
<1>1. ASSUME NEW c \in Command, NEW w \in BOOLEAN, Start(c, w) PROVE Checked'
  BY <1>1 DEF Start, Checked, Early, RequiresSudo, Add, outsideVars, storageVars, contextVars,
              reportVars, codeVars, foundVars, finalVars, notifyVars
<1>2. CASE Prepare
  BY <1>2, AddKeeps DEF Prepare, Checked, Early, RequiresSudo, outsideVars, storageVars,
              contextVars, reportVars, codeVars, foundVars, finalVars, notifyVars
<1>3. CASE SetUp
  BY <1>3, AddKeeps DEF SetUp, Checked, Early, RequiresSudo, outsideVars, storageVars, contextVars,
              reportVars, codeVars, foundVars, finalVars, notifyVars
<1>4. CASE GiveUp
  BY <1>4, AddKeeps DEF GiveUp, Checked, Early, RequiresSudo, outsideVars, storageVars, contextVars,
              reportVars, codeVars, foundVars, finalVars, notifyVars
<1>5. CASE GiveUpUnconfigured
  BY <1>5, AddKeeps DEF GiveUpUnconfigured, Checked, Early, RequiresSudo, outsideVars, storageVars,
              contextVars, reportVars, codeVars, foundVars, finalVars, notifyVars
<1>6. ASSUME NEW loads \in BOOLEAN, NEW free \in BOOLEAN, ReadState(loads, free) PROVE Checked'
  BY <1>6, AddKeeps DEF ReadState, Checked, Early, RequiresSudo, outsideVars, storageVars,
              contextVars, reportVars, codeVars, foundVars, finalVars, notifyVars
<1>7. CASE StatusWithoutSudo
  BY <1>7, AddKeeps DEF StatusWithoutSudo, Checked, Early, RequiresSudo, AfterStatus, outsideVars,
              storageVars, contextVars, reportVars, codeVars, foundVars, finalVars, notifyVars
<1>8. CASE ListingFails
  BY <1>8, AddKeeps, AddCodesKeeps DEF ListingFails, Checked, Early, RequiresSudo, Coded,
              AfterStatus, outsideVars, storageVars, contextVars, reportVars, codeVars, foundVars,
              finalVars, notifyVars
<1>9. ASSUME NEW dated \in BOOLEAN, NEW age \in 0..MaxAge, List(dated, age) PROVE Checked'
  BY <1>9, AddKeeps DEF List, Checked, Early, RequiresSudo, Coded, AfterStatus, outsideVars,
              storageVars, contextVars, reportVars, codeVars, foundVars, finalVars, notifyVars
<1>10. ASSUME NEW ready \in BOOLEAN, NEW recent \in BOOLEAN, NEW reachable \in BOOLEAN,
             DoctorChecks(ready, recent, reachable)
      PROVE  Checked'
  BY <1>10, AddKeeps, AddCodesKeeps DEF DoctorChecks, Checked, Early, RequiresSudo, Coded,
              outsideVars, storageVars, contextVars, reportVars, codeVars, foundVars, finalVars,
              notifyVars
<1>11. ASSUME NEW recent \in BOOLEAN, VerifyNothing(recent) PROVE Checked'
  BY <1>11, AddKeeps, AddCodesKeeps DEF VerifyNothing, Checked, Early, RequiresSudo, Coded,
              NothingToCheck, outsideVars, storageVars, contextVars, reportVars, codeVars,
              foundVars, finalVars, notifyVars
<1>12. CASE CheckFails
  BY <1>12, AddKeeps, AddCodesKeeps DEF CheckFails, Checked, Early, RequiresSudo, Coded,
              outsideVars, storageVars, contextVars, reportVars, codeVars, foundVars, finalVars,
              notifyVars
<1>13. ASSUME NEW lines \in Outputs, NEW recent \in BOOLEAN, Check(lines, recent) PROVE Checked'
  BY <1>13, AddKeeps, AddCodesKeeps DEF Check, Checked, Early, RequiresSudo, Coded, Bad,
              NothingToCheck, outsideVars, storageVars, contextVars, reportVars, codeVars,
              foundVars, finalVars, notifyVars
<1>14. ASSUME NEW saved \in BOOLEAN, RecordRun(saved) PROVE Checked'
  BY <1>14, AddKeeps DEF RecordRun, Checked, Early, RequiresSudo, outsideVars, storageVars,
              contextVars, reportVars, codeVars, foundVars, finalVars, notifyVars
<1>15. CASE Conclude
  BY <1>15, AddKeeps DEF Conclude, Checked, Early, RequiresSudo, outsideVars, storageVars,
              contextVars, reportVars, codeVars, foundVars, finalVars, notifyVars
<1>16. CASE FinishDelivery
  BY <1>16, AddKeeps DEF FinishDelivery, Checked, Early, RequiresSudo, outsideVars, storageVars,
              contextVars, reportVars, codeVars, foundVars, finalVars, notifyVars
<1>17. CASE Exit
  BY <1>17 DEF Exit, Checked, Early, RequiresSudo, Blank, outsideVars, storageVars, contextVars,
              reportVars, codeVars, foundVars, finalVars, notifyVars
<1>18. CASE Others
  BY <1>18, AddKeeps DEF Others, Checked, Early, RequiresSudo, outsideVars, storageVars,
              contextVars, reportVars, codeVars, foundVars, finalVars, notifyVars
<1>19. CASE Backup
  BY <1>19, AddKeeps DEF Backup, Checked, Early, RequiresSudo, outsideVars, storageVars,
              contextVars, reportVars, codeVars, foundVars, finalVars, notifyVars
<1>20. ASSUME NEW r \in Revision, Prune(r) PROVE Checked'
  BY <1>20, AddKeeps DEF Prune, Checked, Early, RequiresSudo, outsideVars, storageVars, contextVars,
              reportVars, codeVars, foundVars, finalVars, notifyVars
<1>21. ASSUME NEW r \in Revision, Damage(r) PROVE Checked'
  BY <1>21, AddKeeps DEF Damage, Checked, Early, RequiresSudo, outsideVars, storageVars,
              contextVars, reportVars, codeVars, foundVars, finalVars, notifyVars
<1> QED BY <1>0, <1>1, <1>2, <1>3, <1>4, <1>5, <1>6, <1>7, <1>8, <1>9, <1>10, <1>11, <1>12, <1>13,
    <1>14, <1>15, <1>16, <1>17, <1>18, <1>19, <1>20, <1>21 DEF Next, Checks

\* The status follows the issues to the end.
LEMMA FinalKept ==
  ASSUME TypeOK, Coded, Final, [Next]_vars PROVE Final'
<1>0. CASE UNCHANGED vars
  BY <1>0 DEF Final, vars, outsideVars, notifyVars, storageVars, contextVars, reportVars, codeVars,
              foundVars, finalVars
<1>1. ASSUME NEW c \in Command, NEW w \in BOOLEAN, Start(c, w) PROVE Final'
  BY <1>1 DEF Start, Final, outsideVars, storageVars, contextVars, reportVars, codeVars, foundVars,
              finalVars, notifyVars
<1>2. CASE Prepare
  BY <1>2 DEF Prepare, Final, outsideVars, storageVars, contextVars, reportVars, codeVars,
              foundVars, finalVars, notifyVars
<1>3. CASE SetUp
  BY <1>3 DEF SetUp, Final, outsideVars, storageVars, contextVars, reportVars, codeVars, foundVars,
              finalVars, notifyVars
<1>4. CASE GiveUp
  BY <1>4 DEF GiveUp, Final, outsideVars, storageVars, contextVars, reportVars, codeVars, foundVars,
              finalVars, notifyVars
<1>5. CASE GiveUpUnconfigured
  BY <1>5 DEF GiveUpUnconfigured, Final, outsideVars, storageVars, contextVars, reportVars,
              codeVars, foundVars, finalVars, notifyVars
<1>6. ASSUME NEW loads \in BOOLEAN, NEW free \in BOOLEAN, ReadState(loads, free) PROVE Final'
  BY <1>6 DEF ReadState, Final, outsideVars, storageVars, contextVars, reportVars, codeVars,
              foundVars, finalVars, notifyVars
<1>7. CASE StatusWithoutSudo
  BY <1>7 DEF StatusWithoutSudo, Final, AfterStatus, outsideVars, storageVars, contextVars,
              reportVars, codeVars, foundVars, finalVars, notifyVars
<1>8. CASE ListingFails
  BY <1>8 DEF ListingFails, Final, AfterStatus, outsideVars, storageVars, contextVars, reportVars,
              codeVars, foundVars, finalVars, notifyVars
<1>9. ASSUME NEW dated \in BOOLEAN, NEW age \in 0..MaxAge, List(dated, age) PROVE Final'
  BY <1>9 DEF List, Final, AfterStatus, outsideVars, storageVars, contextVars, reportVars, codeVars,
              foundVars, finalVars, notifyVars
<1>10. ASSUME NEW ready \in BOOLEAN, NEW recent \in BOOLEAN, NEW reachable \in BOOLEAN,
             DoctorChecks(ready, recent, reachable)
      PROVE  Final'
  BY <1>10 DEF DoctorChecks, Final, outsideVars, storageVars, contextVars, reportVars, codeVars,
              foundVars, finalVars, notifyVars
<1>11. ASSUME NEW recent \in BOOLEAN, VerifyNothing(recent) PROVE Final'
  BY <1>11 DEF VerifyNothing, Final, outsideVars, storageVars, contextVars, reportVars, codeVars,
              foundVars, finalVars, notifyVars
<1>12. CASE CheckFails
  BY <1>12 DEF CheckFails, Final, outsideVars, storageVars, contextVars, reportVars, codeVars,
              foundVars, finalVars, notifyVars
<1>13. ASSUME NEW lines \in Outputs, NEW recent \in BOOLEAN, Check(lines, recent) PROVE Final'
  BY <1>13 DEF Check, Final, outsideVars, storageVars, contextVars, reportVars, codeVars, foundVars,
              finalVars, notifyVars
<1>14. ASSUME NEW saved \in BOOLEAN, RecordRun(saved) PROVE Final'
  BY <1>14 DEF RecordRun, Final, outsideVars, storageVars, contextVars, reportVars, codeVars,
              foundVars, finalVars, notifyVars
<1>15. CASE Conclude
  BY <1>15 DEF Conclude, Final, outsideVars, storageVars, contextVars, reportVars, codeVars,
              foundVars, finalVars, notifyVars
<1>16. CASE FinishDelivery
  BY <1>16, AddKeeps DEF FinishDelivery, Final, Coded, StatusOf, outsideVars, storageVars,
              contextVars, reportVars, codeVars, foundVars, finalVars, notifyVars
<1>17. CASE Exit
  BY <1>17 DEF Exit, Final, outsideVars, storageVars, contextVars, reportVars, codeVars, foundVars,
              finalVars, notifyVars
<1>18. CASE Others
  BY <1>18 DEF Others, Final, outsideVars, storageVars, contextVars, reportVars, codeVars,
              foundVars, finalVars, notifyVars
<1>19. CASE Backup
  BY <1>19 DEF Backup, Final, outsideVars, storageVars, contextVars, reportVars, codeVars,
              foundVars, finalVars, notifyVars
<1>20. ASSUME NEW r \in Revision, Prune(r) PROVE Final'
  BY <1>20 DEF Prune, Final, outsideVars, storageVars, contextVars, reportVars, codeVars, foundVars,
              finalVars, notifyVars
<1>21. ASSUME NEW r \in Revision, Damage(r) PROVE Final'
  BY <1>21 DEF Damage, Final, outsideVars, storageVars, contextVars, reportVars, codeVars,
              foundVars, finalVars, notifyVars
<1> QED BY <1>0, <1>1, <1>2, <1>3, <1>4, <1>5, <1>6, <1>7, <1>8, <1>9, <1>10, <1>11, <1>12, <1>13,
    <1>14, <1>15, <1>16, <1>17, <1>18, <1>19, <1>20, <1>21 DEF Next, Checks

\* A test or an update notification starts and ends while no health command
\* runs; an attempt moves one provider out of the queue.
LEMMA OthersKeepSending ==
  ASSUME TypeOK, Sending, Others PROVE Sending'
<1> USE DEF Others, storageVars, contextVars, reportVars, codeVars, foundVars, finalVars
<1>1. ASSUME NEW provider, NEW dryRun, StartTest(provider, dryRun) PROVE Sending'
  BY <1>1 DEF StartTest, Begin, Sending
<1>2. ASSUME NEW s, NEW a, StartUpdateNotice(s, a) PROVE Sending'
  BY <1>2 DEF StartUpdateNotice, Begin, Sending
<1>3. ASSUME NEW token, NEW answer, Attempt(token, answer) PROVE Sending'
  <2>1. First(queue) \in queue
    BY <1>3 DEF Attempt, First, TypeOK, NotifyTypeOK, Provider
  <2> DEFINE d == First(queue)
  <2>2. /\ queue' = queue \ {d} /\ inbox \subseteq inbox'
        /\ \/ delivered' = delivered \cup {d} /\ failed' = failed /\ d \in inbox'
           \/ delivered' = delivered /\ failed' = failed \cup {d}
        /\ UNCHANGED <<policy, sender>>
    BY <1>3 DEF Attempt
  <2>3. UNCHANGED <<pc, status, notified>>
    OBVIOUS
  <2> QED
    BY <2>1, <2>2, <2>3 DEF Sending
<1>4. CASE FinishNotice
  BY <1>4 DEF FinishNotice, Sending
<1> QED
  BY <1>1, <1>2, <1>3, <1>4 DEF NotifyNext

\* Only a health command that has concluded sends.
LEMMA SendingKept ==
  ASSUME TypeOK, Coded, Final, Sending, [Next]_vars PROVE Sending'
<1>0. CASE UNCHANGED vars
  BY <1>0 DEF Sending, vars, outsideVars, notifyVars, storageVars, contextVars, reportVars,
              codeVars, foundVars, finalVars
<1>1. ASSUME NEW c \in Command, NEW w \in BOOLEAN, Start(c, w) PROVE Sending'
  BY <1>1 DEF Start, Sending, outsideVars, storageVars, contextVars, reportVars, codeVars,
              foundVars, finalVars, notifyVars
<1>2. CASE Prepare
  BY <1>2 DEF Prepare, Sending, outsideVars, storageVars, contextVars, reportVars, codeVars,
              foundVars, finalVars, notifyVars
<1>3. CASE SetUp
  BY <1>3 DEF SetUp, Sending, outsideVars, storageVars, contextVars, reportVars, codeVars,
              foundVars, finalVars, notifyVars
<1>4. CASE GiveUp
  BY <1>4 DEF GiveUp, Sending, outsideVars, storageVars, contextVars, reportVars, codeVars,
              foundVars, finalVars, notifyVars
<1>5. CASE GiveUpUnconfigured
  BY <1>5 DEF GiveUpUnconfigured, Sending, outsideVars, storageVars, contextVars, reportVars,
              codeVars, foundVars, finalVars, notifyVars
<1>6. ASSUME NEW loads \in BOOLEAN, NEW free \in BOOLEAN, ReadState(loads, free) PROVE Sending'
  BY <1>6 DEF ReadState, Sending, outsideVars, storageVars, contextVars, reportVars, codeVars,
              foundVars, finalVars, notifyVars
<1>7. CASE StatusWithoutSudo
  BY <1>7 DEF StatusWithoutSudo, Sending, AfterStatus, outsideVars, storageVars, contextVars,
              reportVars, codeVars, foundVars, finalVars, notifyVars
<1>8. CASE ListingFails
  BY <1>8 DEF ListingFails, Sending, AfterStatus, outsideVars, storageVars, contextVars, reportVars,
              codeVars, foundVars, finalVars, notifyVars
<1>9. ASSUME NEW dated \in BOOLEAN, NEW age \in 0..MaxAge, List(dated, age) PROVE Sending'
  BY <1>9 DEF List, Sending, AfterStatus, outsideVars, storageVars, contextVars, reportVars,
              codeVars, foundVars, finalVars, notifyVars
<1>10. ASSUME NEW ready \in BOOLEAN, NEW recent \in BOOLEAN, NEW reachable \in BOOLEAN,
             DoctorChecks(ready, recent, reachable)
      PROVE  Sending'
  BY <1>10 DEF DoctorChecks, Sending, outsideVars, storageVars, contextVars, reportVars, codeVars,
              foundVars, finalVars, notifyVars
<1>11. ASSUME NEW recent \in BOOLEAN, VerifyNothing(recent) PROVE Sending'
  BY <1>11 DEF VerifyNothing, Sending, outsideVars, storageVars, contextVars, reportVars, codeVars,
              foundVars, finalVars, notifyVars
<1>12. CASE CheckFails
  BY <1>12 DEF CheckFails, Sending, outsideVars, storageVars, contextVars, reportVars, codeVars,
              foundVars, finalVars, notifyVars
<1>13. ASSUME NEW lines \in Outputs, NEW recent \in BOOLEAN, Check(lines, recent) PROVE Sending'
  BY <1>13 DEF Check, Sending, outsideVars, storageVars, contextVars, reportVars, codeVars,
              foundVars, finalVars, notifyVars
<1>14. ASSUME NEW saved \in BOOLEAN, RecordRun(saved) PROVE Sending'
  BY <1>14 DEF RecordRun, Sending, outsideVars, storageVars, contextVars, reportVars, codeVars,
              foundVars, finalVars, notifyVars
<1>15. CASE Conclude
  BY <1>15 DEF Conclude, Sending, Begin, Destinations, Event, HealthEvent, StatusOf, Coded,
              outsideVars, storageVars, contextVars, reportVars, codeVars, foundVars, finalVars,
              notifyVars
<1>16. CASE FinishDelivery
  BY <1>16 DEF FinishDelivery, Sending, outsideVars, storageVars, contextVars, reportVars, codeVars,
              foundVars, finalVars, notifyVars
<1>17. CASE Exit
  BY <1>17 DEF Exit, Sending, Blank, Begin, outsideVars, storageVars, contextVars, reportVars,
              codeVars, foundVars, finalVars, notifyVars
<1>18. CASE Others
  BY <1>18, OthersKeepSending
<1>19. CASE Backup
  BY <1>19 DEF Backup, Sending, outsideVars, storageVars, contextVars, reportVars, codeVars,
              foundVars, finalVars, notifyVars
<1>20. ASSUME NEW r \in Revision, Prune(r) PROVE Sending'
  BY <1>20 DEF Prune, Sending, outsideVars, storageVars, contextVars, reportVars, codeVars,
              foundVars, finalVars, notifyVars
<1>21. ASSUME NEW r \in Revision, Damage(r) PROVE Sending'
  BY <1>21 DEF Damage, Sending, outsideVars, storageVars, contextVars, reportVars, codeVars,
              foundVars, finalVars, notifyVars
<1> QED BY <1>0, <1>1, <1>2, <1>3, <1>4, <1>5, <1>6, <1>7, <1>8, <1>9, <1>10, <1>11, <1>12, <1>13,
    <1>14, <1>15, <1>16, <1>17, <1>18, <1>19, <1>20, <1>21 DEF Next, Checks

THEOREM HealthInvariant == Spec => [](TypeOK /\ HealthInv)
<1>1. Init => HealthInv
  BY DEF Init, NotifyInit, HealthInv, Coded, Checked, Early, Final, Sending, Failed
<1>2. TypeOK /\ HealthInv /\ [Next]_vars => HealthInv'
  BY CodedKept, CheckedKept, FinalKept, SendingKept DEF HealthInv
<1> QED
  BY InitTyped, NextTyped, <1>1, <1>2, PTL DEF Spec

-----------------------------------------------------------------------------
(* The theorems. *)

\* A verify that does not end unhealthy has checked the storage, and one that
\* found it bad has a code that says why.
THEOREM Explained == Spec => []VerifyExplained
<1>1. TypeOK /\ HealthInv => VerifyExplained
  BY DEF HealthInv, Coded, Checked, Early, Final, StatusOf, VerifyExplained
<1> QED
  BY <1>1, HealthInvariant, PTL

\* Lines that report every listed revision, and none of them as failed, are of
\* revisions that are stored and intact.
LEMMA GoodLines ==
  ASSUME NEW lines \in Outputs, Failed(Parsed(lines)) = {}, Missing(Parsed(lines)) = {}
  PROVE  listed \subseteq stored /\ listed \cap damaged = {}
<1>1. DOMAIN lines = stored /\ \A r \in stored : lines[r] \in Printed[r]
  BY DEF Outputs
<1>2. DOMAIN Parsed(lines) = {q \in stored : lines[q] # {}}
  BY <1>1 DEF Parsed
<1>3. listed \subseteq DOMAIN Parsed(lines)
  BY DEF Missing
<1>4. ASSUME NEW r \in listed, r \in damaged PROVE FALSE
  <2>1. r \in stored /\ lines[r] # {}
    BY <1>2, <1>3
  <2>2. lines[r] \in {{}, {"chunk"}, {"chunk", "fail"}}
    BY <1>1, <1>4, <2>1 DEF Printed
  <2>3. Parsed(lines)[r] = "fail"
    BY <1>1, <2>1, <2>2 DEF Parsed
  <2> QED
    BY <1>3, <2>3 DEF Failed
<1> QED
  BY <1>2, <1>3, <1>4

\* Whatever happens to the storage between the listing and the check, verify
\* never passes an integrity check that the storage does not deserve.
THEOREM Truthful == Spec => VerdictTruthful
<1>1. ASSUME TypeOK, Next, integrity # "pass", integrity' = "pass"
      PROVE  listed # {} /\ listed \subseteq stored /\ listed \cap damaged = {}
  <2>1. ASSUME NEW lines \in Outputs, NEW recent \in BOOLEAN, Check(lines, recent)
        PROVE  listed # {} /\ listed \subseteq stored /\ listed \cap damaged = {}
    <3>1. listed # {}
      BY <2>1 DEF Check, NothingToCheck
    <3>2. Failed(Parsed(lines)) = {} /\ Missing(Parsed(lines)) = {}
      BY <1>1, <2>1 DEF Check, Bad
    <3> QED
      BY <3>1, <3>2, GoodLines
  <2>2. CASE UNCHANGED integrity
    BY <1>1, <2>2
  <2>3. \/ UNCHANGED integrity \/ integrity' # "pass"
        \/ \E lines \in Outputs, recent \in BOOLEAN : Check(lines, recent)
    BY <1>1 DEF Next, Checks, Start, Prepare, SetUp, GiveUp, GiveUpUnconfigured, ReadState,
      StatusWithoutSudo, ListingFails, List, DoctorChecks, VerifyNothing, CheckFails, RecordRun,
      Conclude, FinishDelivery, Exit, Blank, Others, Backup, Prune, Damage, foundVars, reportVars
  <2> QED
    BY <1>1, <2>1, <2>2, <2>3
<1>2. TypeOK /\ [Next]_vars =>
        [integrity # "pass" /\ integrity' = "pass" =>
           listed # {} /\ listed \subseteq stored /\ listed \cap damaged = {}]_vars
  BY <1>1
<1> QED
  BY <1>2, TypeCorrect, PTL DEF Spec, VerdictTruthful

\* A command gets from its conclusion or its delivery to its end in two ways.
LEMMA EndsBy ==
  ASSUME Next, pc \in {"conclude", "deliver"}, pc' = "done"
  PROVE  Conclude \/ FinishDelivery
BY DEF Next, Checks, Start, Prepare, SetUp, GiveUp, GiveUpUnconfigured, ReadState,
  StatusWithoutSudo, ListingFails, List, DoctorChecks, VerifyNothing, CheckFails, Check, RecordRun,
  Exit, Others, Backup, Prune, Damage, AfterStatus

\* Every destination is tried, and a report that claims a notification is right.
THEOREM AlertsSent == Spec => AlertsAsConfigured
<1>1. ASSUME TypeOK, HealthInv, Next, pc \in {"conclude", "deliver"}, pc' = "done"
      PROVE  /\ Wanted(cmd, status', attended) => delivered \cup failed = policy.destinations
             /\ notified' => policy.destinations \subseteq inbox
  <2>1. CASE Conclude
    <3>1. ~(Wanted(cmd, status', attended) /\ Event(status') # "none")
      BY <1>1, <2>1 DEF Conclude
    <3>2. status' \in {"healthy", "degraded", "unhealthy"}
      BY <2>1, StatusTyped DEF Conclude
    <3>3. "healthy" \notin policy.notifyOn
      BY <1>1, PoliciesAssumption DEF TypeOK, NotifyTypeOK
    <3>4. ~Wanted(cmd, status', attended)
      BY <3>1, <3>2, <3>3 DEF Wanted, Event, HealthEvent
    <3>5. ~notified'
      BY <1>1, <2>1 DEF Conclude, HealthInv, Sending
    <3> QED
      BY <3>4, <3>5
  <2>2. CASE FinishDelivery
    BY <1>1, <2>2 DEF FinishDelivery, HealthInv, Sending
  <2> QED
    BY <1>1, <2>1, <2>2, EndsBy
<1>2. TypeOK /\ HealthInv /\ [Next]_vars => [Alerted]_vars
  BY <1>1 DEF Alerted
<1> QED
  BY <1>2, HealthInvariant, PTL DEF Spec, AlertsAsConfigured

\* What became of the notification does not change the status.
THEOREM VerdictKept == Spec => NotificationKeepsVerdict
<1>1. ASSUME TypeOK, HealthInv, Next, pc = "deliver", pc' = "done" PROVE status' = status
  <2>1. FinishDelivery
    BY <1>1, EndsBy DEF Conclude
  <2>2. status = StatusOf(issues) /\ status # "healthy"
    BY <1>1 DEF HealthInv, Final, Sending
  <2>3. issues' = issues \/ issues' = issues \cup {"warning"}
    BY <2>1 DEF FinishDelivery, Add, Severity, Poor
  <2>4. StatusOf(issues') = StatusOf(issues)
    BY <2>2, <2>3 DEF StatusOf
  <2> QED
    BY <2>1, <2>2, <2>4 DEF FinishDelivery
<1>2. TypeOK /\ HealthInv /\ [Next]_vars =>
        [pc = "deliver" /\ pc' = "done" => status' = status]_vars
  BY <1>1
<1> QED
  BY <1>2, HealthInvariant, PTL DEF Spec, NotificationKeepsVerdict
=============================================================================
