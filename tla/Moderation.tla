----------------------------- MODULE Moderation ------------------------------
(***************************************************************************)
(* Reports and appeals (apps/api/internal/data/community.go,               *)
(* httpapi/community.go).                                                  *)
(*                                                                         *)
(* ResolveReport updates the report whatever its status is, reads it back  *)
(* and then writes the reporter's notification: three statements, and      *)
(* another decision or an accepted appeal may come in between.             *)
(* CreateAppeal reads the report, asks for an appeal and inserts;          *)
(* ResolveAppeal is one transaction.  A decision is a number: the          *)
(* explanation an administrator gives with it.                             *)
(***************************************************************************)
EXTENDS Naturals

CONSTANTS Report,        \* reports a user may file; one reporter each
          Handler,       \* requests that can run at the same time
          MaxDecisions,  \* bound: decisions of reports
          MaxAppeals,    \* bound: appeals ever filed
          NoReport

ASSUME ModerationAssumption ==
  /\ MaxDecisions \in Nat /\ MaxAppeals \in Nat
  /\ NoReport \notin Report

Decision == 1 .. MaxDecisions
Appeal == 1 .. MaxAppeals
None == 0
Verdicts == {"resolved", "dismissed"}

VARIABLES
  report,       \* content_reports: status
  resolution,   \* its resolution: the decision that gave it, None at first
  appealOf,     \* moderation_appeals: report_id
  appealed,     \* its report_status: the verdict appealed against
  appeal,       \* its status
  decided,      \* decisions taken, over all reports
  filed,        \* appeals filed
  notices,      \* notifications "report.*": <<decision whose request wrote it,
                \* kind, explanation shown, report>>
  job,          \* what each request is doing
  verdict,      \* history: the verdict of each decision
  subject,      \* history: the report of each decision
  failed        \* history: decisions whose notification failed

moderationRows == <<report, resolution, appealOf, appealed, appeal, decided, filed, notices>>
moderationVars == <<moderationRows, job, verdict, subject, failed>>

Free == [doing |-> "idle", report |-> NoReport, decision |-> None, seen |-> "none",
         text |-> None]

ModerationTypeOK ==
  /\ report \in [Report -> {"none", "pending"} \cup Verdicts]
  /\ resolution \in [Report -> Decision \cup {None}]
  /\ appealOf \in [Appeal -> Report \cup {NoReport}]
  /\ appealed \in [Appeal -> Verdicts \cup {"none"}]
  /\ appeal \in [Appeal -> {"none", "pending", "accepted", "rejected"}]
  /\ decided \in 0 .. MaxDecisions
  /\ filed \in 0 .. MaxAppeals
  /\ notices \in SUBSET (Decision \X Verdicts \X Decision \X Report)
  /\ job \in [Handler -> [doing : {"idle", "reread", "notify", "asked", "insert"},
                          report : Report \cup {NoReport},
                          decision : Decision \cup {None},
                          seen : Verdicts \cup {"none"},
                          text : Decision \cup {None}]]
  /\ verdict \in [Decision -> Verdicts \cup {"none"}]
  /\ subject \in [Decision -> Report \cup {NoReport}]
  /\ failed \in SUBSET Decision

ModerationInit ==
  /\ report = [r \in Report |-> "none"]
  /\ resolution = [r \in Report |-> None]
  /\ appealOf = [a \in Appeal |-> NoReport]
  /\ appealed = [a \in Appeal |-> "none"]
  /\ appeal = [a \in Appeal |-> "none"]
  /\ decided = 0 /\ filed = 0 /\ notices = {}
  /\ job = [h \in Handler |-> Free]
  /\ verdict = [d \in Decision |-> "none"]
  /\ subject = [d \in Decision |-> NoReport]
  /\ failed = {}

----------------------------------------------------------------------------
(* Reports                                                                 *)

\* CreateReport; what is reported exists (it was asked for just before) and the
\* row does not refer to it.
CreateReport(r) ==
  /\ report[r] = "none"
  /\ report' = [report EXCEPT ![r] = "pending"]
  /\ UNCHANGED <<resolution, appealOf, appealed, appeal, decided, filed, notices, job,
                 verdict, subject, failed>>

\* ResolveReport: UPDATE ... WHERE id=?, then the audit row.
DecideReport(h, r, v) ==
  LET d == decided + 1 IN
  /\ job[h] = Free
  /\ report[r] # "none" /\ decided < MaxDecisions
  /\ report' = [report EXCEPT ![r] = v]
  /\ resolution' = [resolution EXCEPT ![r] = d]
  /\ decided' = d
  /\ verdict' = [verdict EXCEPT ![d] = v]
  /\ subject' = [subject EXCEPT ![d] = r]
  /\ job' = [job EXCEPT ![h] = [Free EXCEPT !.doing = "reread", !.report = r,
                                            !.decision = d, !.seen = v]]
  /\ UNCHANGED <<appealOf, appealed, appeal, filed, notices, failed>>

\* ReportByID gives the explanation of whoever decided last.
RereadReport(h) ==
  /\ job[h].doing = "reread"
  /\ job' = [job EXCEPT ![h].doing = "notify", ![h].text = resolution[job[h].report]]
  /\ UNCHANGED <<moderationRows, verdict, subject, failed>>

\* Bug variant: the kind of the notification is the status read back as well.
NotifyStatusNow(h) ==
  /\ job[h].doing = "notify"
  /\ notices' = notices \cup {<<job[h].decision, report[job[h].report],
                                job[h].text, job[h].report>>}
  /\ job' = [job EXCEPT ![h] = Free]
  /\ UNCHANGED <<report, resolution, appealOf, appealed, appeal, decided, filed, verdict,
                 subject, failed>>

\* The notification has the verdict of its own request and the explanation read.
NotifyReporter(h) ==
  /\ job[h].doing = "notify"
  /\ notices' = notices \cup {<<job[h].decision, job[h].seen, job[h].text, job[h].report>>}
  /\ job' = [job EXCEPT ![h] = Free]
  /\ UNCHANGED <<report, resolution, appealOf, appealed, appeal, decided, filed, verdict,
                 subject, failed>>

\* The read or the INSERT fails: the request answers an error, the decision stands.
NotificationFails(h) ==
  /\ job[h].doing \in {"reread", "notify"}
  /\ failed' = failed \cup {job[h].decision}
  /\ job' = [job EXCEPT ![h] = Free]
  /\ UNCHANGED <<moderationRows, verdict, subject>>

----------------------------------------------------------------------------
(* Appeals                                                                 *)

\* The report is the appellant's own, and is not pending.
Appealable(r) == report[r] \in Verdicts

\* CreateAppeal reads the report ...
ReadForAppeal(h, r) ==
  /\ job[h] = Free
  /\ Appealable(r)
  /\ job' = [job EXCEPT ![h] = [Free EXCEPT !.doing = "asked", !.report = r,
                                            !.seen = report[r]]]
  /\ UNCHANGED <<moderationRows, verdict, subject, failed>>

AppealRow(r) == \E a \in Appeal : appealOf[a] = r

\* ... asks for an appeal of it ...
AskForAppeal(h) ==
  /\ job[h].doing = "asked"
  /\ job' = [job EXCEPT ![h] = IF AppealRow(job[h].report) THEN Free
                               ELSE [job[h] EXCEPT !.doing = "insert"]]
  /\ UNCHANGED <<moderationRows, verdict, subject, failed>>

\* Bug variant: report_id is not UNIQUE.
UniqueAppealIgnored(r) == TRUE

\* report_id TEXT NOT NULL UNIQUE
UniqueAppeal(r) == ~AppealRow(r)

\* ... and inserts one with the status it read.
InsertAppeal(h) ==
  LET a == filed + 1
      r == job[h].report IN
  /\ job[h].doing = "insert"
  /\ \/ /\ UniqueAppeal(r) /\ filed < MaxAppeals
        /\ filed' = a
        /\ appealOf' = [appealOf EXCEPT ![a] = r]
        /\ appealed' = [appealed EXCEPT ![a] = job[h].seen]
        /\ appeal' = [appeal EXCEPT ![a] = "pending"]
     \/ /\ ~UniqueAppeal(r)
        /\ UNCHANGED <<filed, appealOf, appealed, appeal>>
  /\ job' = [job EXCEPT ![h] = Free]
  /\ UNCHANGED <<report, resolution, decided, notices, verdict, subject, failed>>

StillOpen(a) == appeal[a] = "pending"

\* ResolveAppeal, one transaction: an accepted appeal reopens the report.
ResolveAppeal(a, v) ==
  /\ StillOpen(a)
  /\ appeal' = [appeal EXCEPT ![a] = v]
  /\ report' = IF v = "accepted" THEN [report EXCEPT ![appealOf[a]] = "pending"] ELSE report
  /\ UNCHANGED <<resolution, appealOf, appealed, decided, filed, notices, job, verdict,
                 subject, failed>>

ModerationNext ==
  \/ \E r \in Report : CreateReport(r)
  \/ \E h \in Handler, r \in Report, v \in Verdicts : DecideReport(h, r, v)
  \/ \E h \in Handler : RereadReport(h) \/ NotifyReporter(h) \/ NotificationFails(h)
  \/ \E h \in Handler, r \in Report : ReadForAppeal(h, r)
  \/ \E h \in Handler : AskForAppeal(h) \/ InsertAppeal(h)
  \/ \E a \in Appeal, v \in {"accepted", "rejected"} : ResolveAppeal(a, v)

ModerationSpec == ModerationInit /\ [][ModerationNext]_moderationVars

----------------------------------------------------------------------------
(* Properties                                                              *)

\* A report is appealed at most once, though two requests may both have asked
\* for an appeal and found none.
OneAppealPerReport ==
  \A a, b \in Appeal : appealOf[a] = appealOf[b] /\ appealOf[a] # NoReport => a = b

\* A report that was decided and waits for review again does so because its
\* appeal was accepted; an appeal is against a verdict that was really given.
ReopenedOnlyByAppeal ==
  /\ \A r \in Report : report[r] = "pending" /\ resolution[r] # None =>
       \E a \in Appeal : appealOf[a] = r /\ appeal[a] = "accepted"
  /\ \A a \in 1 .. filed :
       \E d \in 1 .. decided : subject[d] = appealOf[a] /\ verdict[d] = appealed[a]

AppealInv == OneAppealPerReport /\ ReopenedOnlyByAppeal

\* What is still to be told of a decision.
Owed(d) == \E h \in Handler : job[h].decision = d

\* Every decision is told to the reporter once: by a notification with its own
\* verdict and with an explanation that belongs to this report and is not older
\* than the decision, unless its request failed or has not ended.  (The
\* explanation may be that of a later decision with the opposite verdict.)
EveryDecisionIsTold ==
  /\ \A d \in 1 .. decided : Owed(d) \/ d \in failed \/ \E n \in notices : n[1] = d
  /\ \A n \in notices : /\ n[2] = verdict[n[1]] /\ n[4] = subject[n[1]]
                        /\ n[3] >= n[1] /\ subject[n[3]] = n[4]
                        /\ ~Owed(n[1])
  /\ \A m, n \in notices : m[1] = n[1] => m = n
=============================================================================
