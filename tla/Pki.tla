--------------------------------- MODULE Pki ---------------------------------
(***************************************************************************)
(* The certificate authority (pki/ca.py, ca_certs.py, ca_ops.py) and those *)
(* who ask it for certificates: the PKI API (api/pki.py), platform users   *)
(* (api/users.py) and the driver's setup wizard (api/cert_setup.py).       *)
(*                                                                         *)
(* The CA's keys and certificates are files, written one after another     *)
(* while the process starts; who holds which certificate, and what is      *)
(* revoked, is in the database.  The process may crash at any step.        *)
(***************************************************************************)
EXTENDS Naturals, FiniteSets

CONSTANTS
    Serial,     \* certificate serials, random and so never drawn twice
    Email,      \* holders: platform users and drivers
    Setup,      \* setup tokens of the wizard
    Req,        \* requests under way
    NoOne,      \* no serial, no holder, no token
    MaxCrashes  \* bound: crashes and failing requests

ASSUME PkiAssumption == NoOne \notin Serial \cup Email \cup Setup /\ MaxCrashes \in Nat

VARIABLES
    files,    \* the key and certificate file of each CA, and who signed it
    boot,     \* where the starting process is; Up when it serves
    made,     \* number of CA keys generated
    signed,   \* the CA that signed a serial: the file issued/<serial>.crt
    certs,    \* ocpp.pki_certificates
    revoked,  \* ocpp.pki_revocations
    users,    \* ocpp.users
    setup,    \* ocpp.cert_setup_tokens
    req,      \* what a request is suspended before, and its local variables
    torn,     \* history: holders and setup tokens of overlapping or cut requests
    crashes   \* number of crashes and failures so far

vars == <<files, boot, made, signed, certs, revoked, users, setup, req, torn, crashes>>

-----------------------------------------------------------------------------
Ca == {"root", "cpo", "mo", "user"}

\* A key is a number, 0 a missing file; a certificate is the key it certifies.
CaFiles == [key : Nat, crt : Nat, by : Nat]

Boot == {"down", "up", "key", "crt"} \X Ca

Down == <<"down", "root">>
Up   == <<"up", "user">>

Cert == [status : {"none", "active", "revoked"},
         kind   : {"none", "secc", "contract", "user", "driver"},
         holder : Email \cup {NoOne},
         via    : Setup \cup {NoOne}]

User == [status : {"absent", "active", "revoked"}, serial : Serial \cup {NoOne}]

SetupToken == [state : {"none", "open", "used"}, email : Email \cup {NoOne},
               serial : Serial \cup {NoOne}]

Request == [pc     : {"idle", "record", "mark", "issue", "revoke", "account"},
            kind   : {"none", "secc", "contract", "user", "driver"},
            serial : Serial \cup {NoOne},
            holder : Email \cup {NoOne},
            via    : Setup \cup {NoOne},
            todo   : SUBSET Serial]

NoReq == [pc |-> "idle", kind |-> "none", serial |-> NoOne, holder |-> NoOne,
          via |-> NoOne, todo |-> {}]

TypeOK ==
    /\ files \in [Ca -> CaFiles]
    /\ boot \in Boot
    /\ made \in Nat
    /\ signed \in [Serial -> Nat]
    /\ certs \in [Serial -> Cert]
    /\ revoked \subseteq Serial
    /\ users \in [Email -> User]
    /\ setup \in [Setup -> SetupToken]
    /\ req \in [Req -> Request]
    /\ torn \subseteq Email \cup Setup
    /\ crashes \in Nat

NoCert == [status |-> "none", kind |-> "none", holder |-> NoOne, via |-> NoOne]

Init ==
    /\ files = [c \in Ca |-> [key |-> 0, crt |-> 0, by |-> 0]]
    /\ boot = Down
    /\ made = 0
    /\ signed = [s \in Serial |-> 0]
    /\ certs = [s \in Serial |-> NoCert]
    /\ revoked = {}
    /\ users = [e \in Email |-> [status |-> "absent", serial |-> NoOne]]
    /\ setup = [t \in Setup |-> [state |-> "none", email |-> NoOne, serial |-> NoOne]]
    /\ req = [r \in Req |-> NoReq]
    /\ torn = {}
    /\ crashes = 0

-----------------------------------------------------------------------------
(* The process starts.                                                     *)

database == <<signed, certs, revoked, users, setup, req, torn>>

Present(c) == files[c].crt # 0

\* Faulty: the user CA is made anew on every start.
UserCaAnew == <<"key", "user">>

\* _init_user_sub_ca: after the other three, on every start.
UserCa == IF Present("user") THEN Up ELSE <<"key", "user">>

AfterCa(c) ==
    CASE c = "root" -> <<"key", "cpo">>
      [] c = "cpo"  -> <<"key", "mo">>
      [] c = "mo"   -> UserCa
      [] c = "user" -> Up

\* root-ca.crt alone decides between loading and generating; loading fails,
\* and the process stops, when a file of the first three CAs is missing.
Initialize ==
    /\ boot = Down
    /\ IF Present("root")
       THEN /\ Present("cpo") /\ Present("mo")
            /\ boot' = UserCa
       ELSE boot' = <<"key", "root">>
    /\ UNCHANGED <<files, made, crashes, database>>

\* _save_key_cert writes the key, then the certificate.
SaveKey(c) ==
    /\ boot = <<"key", c>>
    /\ made' = made + 1
    /\ files' = [files EXCEPT ![c].key = made']
    /\ boot' = <<"crt", c>>
    /\ UNCHANGED <<crashes, database>>

SaveCert(c) ==
    /\ boot = <<"crt", c>>
    /\ files' = [files EXCEPT ![c].crt = files[c].key, ![c].by = files["root"].key]
    /\ boot' = AfterCa(c)
    /\ UNCHANGED <<made, crashes, database>>

-----------------------------------------------------------------------------
(* Requests.  Signing and writing the files has no await in it.            *)

ca == <<files, boot, made, crashes>>

Begin(r)   == boot = Up /\ req[r].pc = "idle"
Call(r, k) == req' = [req EXCEPT ![r] = k]
Answer(r)  == req' = [req EXCEPT ![r] = NoReq]

Signer(kind) == CASE kind = "secc" -> "cpo" [] kind = "contract" -> "mo" [] OTHER -> "user"

Sign(s, kind) ==
    /\ signed[s] = 0
    /\ signed' = [signed EXCEPT ![s] = files[Signer(kind)].crt]

\* issue/secc, issue/contract, issue/user.
Issue(r, s, kind, e) ==
    /\ Begin(r)
    /\ Sign(s, kind)
    /\ Call(r, [NoReq EXCEPT !.pc = "record", !.kind = kind, !.serial = s,
                             !.holder = e])
    /\ UNCHANGED <<ca, certs, revoked, users, setup, torn>>

\* The row of a certificate; the wizard's request goes on to its token.
Record(r) ==
    LET k == req[r]
    IN  /\ k.pc = "record"
        /\ certs' = [certs EXCEPT ![k.serial] = [status |-> "active", kind |-> k.kind,
                                                 holder |-> k.holder, via |-> k.via]]
        /\ IF k.via = NoOne THEN Answer(r) ELSE Call(r, [k EXCEPT !.pc = "mark"])
        /\ UNCHANGED <<ca, signed, revoked, users, setup, torn>>

CreateSetup(r, t, e) ==
    /\ Begin(r)
    /\ setup[t].state = "none"
    /\ setup' = [setup EXCEPT ![t] = [state |-> "open", email |-> e, serial |-> NoOne]]
    /\ UNCHANGED <<ca, signed, certs, revoked, users, req, torn>>

InWizard(t) == {q \in Req : req[q].via = t}

\* The token is looked at, and marked two awaits later.
WizardIssue(r, s, t) ==
    /\ Begin(r)
    /\ setup[t].state = "open"
    /\ Sign(s, "driver")
    /\ Call(r, [NoReq EXCEPT !.pc = "record", !.kind = "driver", !.serial = s,
                             !.holder = setup[t].email, !.via = t])
    /\ torn' = IF InWizard(t) # {} THEN torn \cup {t} ELSE torn
    /\ UNCHANGED <<ca, certs, revoked, users, setup>>

\* Faulty: parameters swapped, the holder stored as the serial.
WizardMarkSwapped(r) ==
    /\ req[r].pc = "mark"
    /\ setup' = [setup EXCEPT ![req[r].via].state = "used",
                              ![req[r].via].serial = req[r].holder]
    /\ Answer(r)
    /\ UNCHANGED <<ca, signed, certs, revoked, users, torn>>

WizardMark(r) ==
    /\ req[r].pc = "mark"
    /\ setup' = [setup EXCEPT ![req[r].via].state = "used",
                              ![req[r].via].serial = req[r].serial]
    /\ Answer(r)
    /\ UNCHANGED <<ca, signed, certs, revoked, users, torn>>

-----------------------------------------------------------------------------
(* Platform users: transactions that read the user's row, and write at the *)
(* end.  A reader takes no lock, so two may have read the same row.        *)

Revoking(S) ==
    [s \in Serial |-> IF s \in S THEN [certs[s] EXCEPT !.status = "revoked"] ELSE certs[s]]

NewUserCert(s, e, S) ==
    [Revoking(S) EXCEPT ![s] = [status |-> "active", kind |-> "user", holder |-> e,
                                via |-> NoOne]]

Overlap(r, e) ==
    torn' = IF \E q \in Req \ {r} : req[q].pc \in {"issue", "revoke"} /\ req[q].holder = e
            THEN torn \cup {e} ELSE torn

CreateUser(r, s, e) ==
    /\ Begin(r)
    /\ users[e].status = "absent"
    /\ Sign(s, "user")
    /\ certs' = NewUserCert(s, e, {})
    /\ users' = [users EXCEPT ![e] = [status |-> "active", serial |-> s]]
    /\ UNCHANGED <<ca, revoked, setup, req, torn>>

\* Of the row read: the serial to revoke, if it is active.
ReadForIssue(r, e) ==
    /\ Begin(r)
    /\ users[e].status # "absent"
    /\ Call(r, [NoReq EXCEPT !.pc = "issue", !.holder = e,
                  !.todo = IF users[e].status = "active" THEN {users[e].serial} ELSE {}])
    /\ UNCHANGED <<ca, signed, certs, revoked, users, setup, torn>>

CommitIssue(r, s) ==
    LET e == req[r].holder
    IN  /\ req[r].pc = "issue"
        /\ Sign(s, "user")
        /\ certs' = NewUserCert(s, e, req[r].todo)
        /\ revoked' = revoked \cup req[r].todo
        /\ users' = [users EXCEPT ![e] = [status |-> "active", serial |-> s]]
        /\ Overlap(r, e)
        /\ Answer(r)
        /\ UNCHANGED <<ca, setup>>

ReadForRevoke(r, e) ==
    /\ Begin(r)
    /\ users[e].status = "active"
    /\ Call(r, [NoReq EXCEPT !.pc = "revoke", !.holder = e, !.todo = {users[e].serial}])
    /\ UNCHANGED <<ca, signed, certs, revoked, users, setup, torn>>

CommitRevoke(r) ==
    LET e == req[r].holder
    IN  /\ req[r].pc = "revoke"
        /\ certs' = Revoking(req[r].todo)
        /\ revoked' = revoked \cup req[r].todo
        /\ users' = [users EXCEPT ![e].status = "revoked"]
        /\ Overlap(r, e)
        /\ Answer(r)
        /\ UNCHANGED <<ca, signed, setup>>

-----------------------------------------------------------------------------
(* Revocation by serial or by account; the users' rows are left as they are. *)

RevokeSerial(r, s) ==
    /\ Begin(r)
    /\ certs[s].status = "active"
    /\ certs' = Revoking({s})
    /\ revoked' = revoked \cup {s}
    /\ UNCHANGED <<ca, signed, users, setup, req, torn>>

\* The active certificates whose subject names the account are listed, and
\* then revoked one by one, each in a transaction that looks again.
RevokeAccount(r, e) ==
    /\ Begin(r)
    /\ Call(r, [NoReq EXCEPT !.pc = "account",
                  !.todo = {s \in Serial : certs[s].status = "active" /\ certs[s].holder = e}])
    /\ UNCHANGED <<ca, signed, certs, revoked, users, setup, torn>>

RevokeNext(r, s) ==
    LET S == {s} \cap {t \in Serial : certs[t].status = "active"}
    IN  /\ req[r].pc = "account"
        /\ s \in req[r].todo
        /\ certs' = Revoking(S)
        /\ revoked' = revoked \cup S
        /\ req' = [req EXCEPT ![r] = IF @.todo = {s} THEN NoReq
                                     ELSE [req[r] EXCEPT !.todo = req[r].todo \ {s}]]
        /\ UNCHANGED <<ca, signed, users, setup, torn>>

-----------------------------------------------------------------------------
(* Failures.                                                               *)

CutTokens(R) == {req[r].via : r \in {q \in R : req[q].pc = "mark"}}

Crash ==
    /\ crashes < MaxCrashes /\ crashes' = crashes + 1
    /\ boot' = Down
    /\ req' = [r \in Req |-> NoReq]
    /\ torn' = torn \cup CutTokens(Req)
    /\ UNCHANGED <<files, made, signed, certs, revoked, users, setup>>

\* A statement of one request fails; a transaction leaves nothing.
Abort(r) ==
    /\ req[r].pc # "idle"
    /\ crashes < MaxCrashes /\ crashes' = crashes + 1
    /\ Answer(r)
    /\ torn' = torn \cup CutTokens({r})
    /\ UNCHANGED <<files, boot, made, signed, certs, revoked, users, setup>>

-----------------------------------------------------------------------------
Serve(r) ==
    \/ \E s \in Serial :
         \/ \E kind \in {"secc", "contract"} : Issue(r, s, kind, NoOne)
         \/ \E e \in Email : Issue(r, s, "driver", e) \/ CreateUser(r, s, e)
         \/ \E t \in Setup : WizardIssue(r, s, t)
         \/ CommitIssue(r, s) \/ RevokeSerial(r, s) \/ RevokeNext(r, s)
    \/ \E e \in Email :
         \/ \E t \in Setup : CreateSetup(r, t, e)
         \/ ReadForIssue(r, e) \/ ReadForRevoke(r, e) \/ RevokeAccount(r, e)
    \/ Record(r) \/ WizardMark(r) \/ CommitRevoke(r) \/ Abort(r)

Next ==
    \/ Initialize
    \/ \E c \in Ca : SaveKey(c) \/ SaveCert(c)
    \/ \E r \in Req : Serve(r)
    \/ Crash

Spec == Init /\ [][Next]_vars

-----------------------------------------------------------------------------
(* Properties.                                                             *)

\* Restarts keep the CA: whatever the moment of a crash, every certificate
\* ever issued still verifies against the CA on disk, a certificate on disk
\* has its key beside it, and the sub-CAs chain to the root that is there.
CaStable ==
    /\ \A c \in Ca : Present(c) => /\ files[c].crt = files[c].key
                                   /\ files[c].by = files["root"].crt
    /\ \A s \in Serial : signed[s] # 0 => \E c \in Ca : files[c].crt = signed[s]

\* The table of revocations has every certificate whose row says revoked, and no other.
RevocationsListed == revoked = {s \in Serial : certs[s].status = "revoked"}

\* Reissuing revokes the certificate before: of the certificates a platform
\* user was issued, only the one in the user's row may be active, and none
\* when the row says revoked.
OnlyCurrentLives ==
    \A e \in Email : e \in torn \/
        \A s \in Serial :
            certs[s].kind = "user" /\ certs[s].holder = e /\ certs[s].status = "active"
                => users[e] = [status |-> "active", serial |-> s]

\* The two tables revocation is read from agree, and no superseded or revoked
\* certificate of a platform user is left active in them, unless two requests for
\* the user overlapped.  This is about the rows, not about everyone who judges a
\* certificate: generate_crl lists only those the CPO sub-CA issued,
\* validate_cert_chain knows three of the CAs, and verify_client_cert (api/users.py) asks
\* the user's row and no revocation.
RevocationHolds == RevocationsListed /\ OnlyCurrentLives

\* A used setup token has its certificate on record, for the driver it was
\* made for, so that a driver is never locked out with nothing; and a token
\* gives one certificate, unless two requests with it overlapped or one was
\* cut between recording the certificate and marking the token.
TokenGivesCert ==
    \A t \in Setup :
        /\ setup[t].state = "used" =>
             LET k == certs[setup[t].serial]
             IN  k.status # "none" /\ k.via = t /\ k.holder = setup[t].email
        /\ t \in torn \/ Cardinality({s \in Serial : certs[s].via = t}) <= 1

\* Whatever crashes, a certificate goes on being verifiable against the CA on disk,
\* its revocation is in both tables or in neither, and a used setup token has its
\* certificate.
PkiSound == CaStable /\ RevocationHolds /\ TokenGivesCert
=============================================================================
