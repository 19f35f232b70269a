----------------------------- MODULE SetupWizard -----------------------------
(***************************************************************************)
(* The first-run wizard (api/admin_setup.py): eight steps, each of which   *)
(* saves something and sets a flag.  The flag is written by a transaction  *)
(* of its own, on a second connection, inside the one that writes the data *)
(* of three of the steps, so it is committed first.                        *)
(***************************************************************************)
EXTENDS Naturals, FiniteSets

CONSTANTS
    Nested,     \* steps whose data is committed after the flag: pricing, features
    Flat,       \* steps whose data is saved before it: the others but admin
    AdminMail,  \* emails somebody may set the platform up with
    NoMail,     \* no email
    Visitor,    \* requests of the wizard
    MaxVisits   \* bound: requests

ASSUME SetupAssumption ==
    /\ "admin" \notin Nested \cup Flat
    /\ NoMail \notin AdminMail
    /\ Nested \cap Flat = {}
    /\ MaxVisits \in Nat

VARIABLES
    flag,     \* setup.step.* in ocpp.feature_flags
    saved,    \* the steps whose data is committed
    admins,   \* ocpp.users with a password
    visit,    \* what a request is suspended before
    rushed,   \* history: requests to create the first administrator overlapped
    cut,      \* history: steps that failed between flag and data
    visits    \* number of requests so far

setupVars == <<flag, saved, admins, visit, rushed, cut, visits>>

-----------------------------------------------------------------------------
Steps == {"admin"} \cup Nested \cup Flat

Visit == [pc : {"idle", "insert", "flag", "data", "last"}, step : Steps,
          mail : AdminMail \cup {NoMail}]

NoVisit == [pc |-> "idle", step |-> "admin", mail |-> NoMail]

SetupTypeOK ==
    /\ flag \in [Steps -> {"none", "done", "skipped"}]
    /\ saved \subseteq Steps
    /\ admins \subseteq AdminMail
    /\ visit \in [Visitor -> Visit]
    /\ rushed \in BOOLEAN
    /\ cut \subseteq Steps
    /\ visits \in Nat

SetupInit ==
    /\ flag = [s \in Steps |-> "none"]
    /\ saved = {}
    /\ admins = {}
    /\ visit = [v \in Visitor |-> NoVisit]
    /\ rushed = FALSE
    /\ cut = {}
    /\ visits = 0

-----------------------------------------------------------------------------
NewVisit(v) == visit[v].pc = "idle" /\ visits < MaxVisits /\ visits' = visits + 1

Goto(v, pc) == visit' = [visit EXCEPT ![v].pc = pc]
Leave(v)    == visit' = [visit EXCEPT ![v] = NoVisit]

AdminExists == admins # {}

OnAdmin(V) == \E w \in V : visit[w].pc # "idle" /\ visit[w].step = "admin"

\* The first administrator: looked for outside the transaction that inserts.
SetupAdmin(v, mail) ==
    /\ NewVisit(v)
    /\ ~AdminExists
    /\ visit' = [visit EXCEPT ![v] = [pc |-> "insert", step |-> "admin", mail |-> mail]]
    /\ rushed' = (rushed \/ OnAdmin(Visitor \ {v}))
    /\ UNCHANGED <<flag, saved, admins, cut>>

\* The email is unique: the INSERT waits for another transaction that has the
\* same one, and fails when it is there.
InsertAdmin(v) ==
    LET k == visit[v]
    IN  /\ k.pc = "insert"
        /\ \A w \in Visitor : visit[w].mail = k.mail => visit[w].pc \notin {"flag", "last"}
        /\ IF k.mail \in admins THEN Leave(v) ELSE Goto(v, "flag")
        /\ UNCHANGED <<flag, saved, admins, rushed, cut, visits>>

\* Faulty: a step is open before there is an administrator.
SetupOpen(v, s) ==
    /\ NewVisit(v)
    /\ visit' = [visit EXCEPT ![v].step = s,
                              ![v].pc = IF s \in Nested THEN "flag" ELSE "data"]
    /\ UNCHANGED <<flag, saved, admins, rushed, cut>>

SetupStep(v, s) ==
    /\ NewVisit(v)
    /\ AdminExists
    /\ visit' = [visit EXCEPT ![v].step = s,
                              ![v].pc = IF s \in Nested THEN "flag" ELSE "data"]
    /\ UNCHANGED <<flag, saved, admins, rushed, cut>>

\* _save_setting, or whatever a flat step saves, before the flag.  The PKI step
\* catches what ca.initialize raises, and goes on.
SaveData(v) ==
    /\ visit[v].pc = "data"
    /\ \/ saved' = saved \cup {visit[v].step}
       \/ visit[v].step = "pki" /\ UNCHANGED saved
    /\ Goto(v, "flag")
    /\ UNCHANGED <<flag, admins, rushed, cut, visits>>

SetStepFlag(v) ==
    /\ visit[v].pc = "flag"
    /\ flag' = [flag EXCEPT ![visit[v].step] = "done"]
    /\ IF visit[v].step \in Flat THEN Leave(v) ELSE Goto(v, "last")
    /\ UNCHANGED <<saved, admins, rushed, cut, visits>>

\* The transaction around the flag commits.
CommitData(v) ==
    LET k == visit[v]
    IN  /\ k.pc = "last"
        /\ saved' = saved \cup {k.step}
        /\ admins' = IF k.step = "admin" THEN admins \cup {k.mail} ELSE admins
        /\ Leave(v)
        /\ UNCHANGED <<flag, rushed, cut, visits>>

\* Any step but the administrator's may be skipped, even before there is one.
SkipStep(v, s) ==
    /\ NewVisit(v)
    /\ s # "admin" \/ AdminExists
    /\ flag' = [flag EXCEPT ![s] = "skipped"]
    /\ UNCHANGED <<saved, admins, visit, rushed, cut>>

\* A statement, or the commit, fails.
VisitFails(v) ==
    /\ visit[v].pc # "idle"
    /\ cut' = IF visit[v].pc = "last" THEN cut \cup {visit[v].step} ELSE cut
    /\ Leave(v)
    /\ UNCHANGED <<flag, saved, admins, rushed, visits>>

SetupNext ==
    \E v \in Visitor :
        \/ \E mail \in AdminMail : SetupAdmin(v, mail)
        \/ \E s \in Nested \cup Flat : SetupStep(v, s)
        \/ \E s \in Steps : SkipStep(v, s)
        \/ InsertAdmin(v) \/ SaveData(v) \/ SetStepFlag(v) \/ CommitData(v) \/ VisitFails(v)

SetupSpec == SetupInit /\ [][SetupNext]_setupVars

-----------------------------------------------------------------------------
(* Properties.                                                             *)

\* What the wizard shows as done is done: the data of the step is saved,
\* unless its transaction is still to commit or failed after the flag.  The
\* PKI step is shown as done whatever became of it.
FlagHasData ==
    \A s \in Steps \ {"pki"} : flag[s] = "done" =>
        \/ s \in saved \/ s \in cut
        \/ \E v \in Visitor : visit[v].pc = "last" /\ visit[v].step = s

\* Nothing is configured by the wizard before there is an administrator.
AdminFirst == saved # {} => "admin" \in saved /\ AdminExists

\* The platform is set up by one administrator: done means done, nothing was
\* saved before there was an administrator, and there is one of the wizard's
\* making, unless two requests to create the first overlapped.
SetupSound ==
    /\ FlagHasData
    /\ AdminFirst
    /\ rushed \/ Cardinality(admins) <= 1
=============================================================================
