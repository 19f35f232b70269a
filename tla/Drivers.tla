------------------------------- MODULE Drivers -------------------------------
(***************************************************************************)
(* Driver accounts (api/accounts.py) and the public sessions they own.  A  *)
(* session is opened with a phone number and no account; an account takes  *)
(* the unowned sessions of its number when it is registered and when its   *)
(* number changes.  Numbers are compared as texts: one that was typed with *)
(* a blank beside it is another one until somebody strips it.              *)
(***************************************************************************)
EXTENDS Naturals, FiniteSets

CONSTANTS
    Account,     \* ids of ocpp.driver_accounts
    Mail,        \* emails
    Phone,       \* numbers
    Ride,        \* public sessions
    Tier,        \* pricing tiers
    Form,        \* requests that register an account or update a profile
    NoAccount,   \* no account
    MaxForms     \* bound: requests

ASSUME DriverAssumption ==
    /\ NoAccount \notin Account /\ Mail # {}
    /\ "public" \in Tier
    /\ MaxForms \in Nat

VARIABLES
    account,   \* ocpp.driver_accounts, by id: email, number and tier
    tiers,     \* the rows of ocpp.pricing_tiers
    ride,      \* ocpp.public_sessions: number, owner
    form,      \* what a request is suspended before, and its local variables
    first,     \* history: the first owner of a session
    had,       \* history: the numbers, stripped, that an account has had
    forms      \* number of requests so far

driverVars == <<account, tiers, ride, form, first, had, forms>>

-----------------------------------------------------------------------------
\* A number as it was typed, or none.
Text    == {"bare", "padded"} \X Phone
NoPhone == <<"none", "none">>
Strip(t) == IF t = NoPhone THEN NoPhone ELSE <<"bare", t[2]>>

Row0 == [here : BOOLEAN, mail : Mail, phone : Text \cup {NoPhone}, tier : Tier]

FormStep == [pc : {"idle", "insert", "link"}, id : Account \cup {NoAccount},
             mail : Mail, phone : Text \cup {NoPhone}]

AnyMail == CHOOSE m \in Mail : TRUE
NoForm  == [pc |-> "idle", id |-> NoAccount, mail |-> AnyMail, phone |-> NoPhone]

DriverTypeOK ==
    /\ account \in [Account -> Row0]
    /\ tiers \subseteq Tier
    /\ ride \in [Ride -> [open : BOOLEAN, phone : Text \cup {NoPhone},
                          owner : Account \cup {NoAccount}]]
    /\ form \in [Form -> FormStep]
    /\ first \in [Ride -> Account \cup {NoAccount}]
    /\ had \in [Account -> SUBSET Text]
    /\ forms \in Nat

DriverInit ==
    /\ account = [a \in Account |->
                    [here |-> FALSE, mail |-> AnyMail, phone |-> NoPhone, tier |-> "public"]]
    /\ tiers = {"public"}
    /\ ride = [s \in Ride |-> [open |-> FALSE, phone |-> NoPhone, owner |-> NoAccount]]
    /\ form = [r \in Form |-> NoForm]
    /\ first = [s \in Ride |-> NoAccount]
    /\ had = [a \in Account |-> {}]
    /\ forms = 0

-----------------------------------------------------------------------------
Here == {a \in Account : account[a].here}

Taken(mail) == \E a \in Here : account[a].mail = mail

Finished(r) == form' = [form EXCEPT ![r] = NoForm]

NewForm(r) == form[r].pc = "idle" /\ forms < MaxForms /\ forms' = forms + 1

(* register.                                                               *)

\* The email is looked up first; one in use is refused.
Register(r, mail, phone) ==
    /\ NewForm(r)
    /\ ~Taken(mail)
    /\ form' = [form EXCEPT ![r] = [pc |-> "insert", id |-> NoAccount, mail |-> mail,
                                    phone |-> phone]]
    /\ UNCHANGED <<account, tiers, ride, first, had>>

\* Faulty: two parameters swapped, email and number.
InsertAccountSwapped(r, a) ==
    /\ form[r].pc = "insert"
    /\ ~Taken(form[r].mail)
    /\ a \notin Here
    /\ account' = [account EXCEPT ![a] = [here |-> TRUE, mail |-> form[r].phone,
                       phone |-> form[r].mail, tier |-> "public"]]
    /\ Finished(r)
    /\ UNCHANGED <<tiers, ride, first, had, forms>>

\* The number is stored as it was typed; the sessions of the stripped one are
\* to be linked.
InsertAccount(r, a) ==
    /\ form[r].pc = "insert"
    /\ ~Taken(form[r].mail)
    /\ a \notin Here
    /\ account' = [account EXCEPT ![a] = [here |-> TRUE, mail |-> form[r].mail,
                       phone |-> form[r].phone, tier |-> "public"]]
    /\ IF form[r].phone = NoPhone
       THEN Finished(r) /\ UNCHANGED had
       ELSE /\ form' = [form EXCEPT ![r].pc = "link", ![r].id = a,
                                    ![r].phone = Strip(form[r].phone)]
            /\ had' = [had EXCEPT ![a] = @ \cup {Strip(form[r].phone)}]
    /\ UNCHANGED <<tiers, ride, first, forms>>

\* The UNIQUE constraint refuses the second of two registrations that both
\* found the email free.
InsertRefused(r) ==
    /\ form[r].pc = "insert"
    /\ Taken(form[r].mail)
    /\ Finished(r)
    /\ UNCHANGED <<account, tiers, ride, first, had, forms>>

(* update_profile.                                                         *)

SetPhone(r, a, phone) ==
    /\ NewForm(r)
    /\ a \in Here
    /\ account' = [account EXCEPT ![a].phone = Strip(phone)]
    /\ IF phone = NoPhone
       THEN UNCHANGED <<form, had>>
       ELSE /\ form' = [form EXCEPT ![r] = [NoForm EXCEPT !.pc = "link", !.id = a,
                                                          !.phone = Strip(phone)]]
            /\ had' = [had EXCEPT ![a] = @ \cup {Strip(phone)}]
    /\ UNCHANGED <<tiers, ride, first>>

-----------------------------------------------------------------------------
(* The sessions.                                                           *)

Own(r, S) ==
    /\ form[r].pc = "link"
    /\ ride' = [s \in Ride |-> IF s \in S THEN [ride[s] EXCEPT !.owner = form[r].id] ELSE ride[s]]
    /\ first' = [s \in Ride |-> IF s \in S /\ first[s] = NoAccount THEN form[r].id ELSE first[s]]
    /\ Finished(r)
    /\ UNCHANGED <<account, tiers, had, forms>>

WithPhone(phone) == {s \in Ride : ride[s].open /\ ride[s].phone = phone}

\* Faulty: sessions that have an owner are taken over.
LinkAll(r) == Own(r, WithPhone(form[r].phone))

\* Both endpoints link with the same statement.
LinkSessions(r) ==
    Own(r, {s \in WithPhone(form[r].phone) : ride[s].owner = NoAccount})

\* A failing statement or a crash: the account stays as it was written.
FormCut(r) ==
    /\ form[r].pc # "idle"
    /\ Finished(r)
    /\ UNCHANGED <<account, tiers, ride, first, had, forms>>

\* A session is opened for a number, as typed, and without an owner, though there
\* be an account of that number.
OpenRide(s, phone) ==
    /\ ~ride[s].open
    /\ ride' = [ride EXCEPT ![s] = [open |-> TRUE, phone |-> phone, owner |-> NoAccount]]
    /\ UNCHANGED <<account, tiers, form, first, had, forms>>

(* create_pricing_tier, update_driver_account: the tier is looked up first; *)
(* no tier is ever deleted, so it is still there at the update.            *)

CreateTier(t) ==
    /\ t \notin tiers
    /\ tiers' = tiers \cup {t}
    /\ UNCHANGED <<account, ride, form, first, had, forms>>

SetTier(a, t) ==
    /\ a \in Here /\ t \in tiers /\ account[a].tier # t
    /\ account' = [account EXCEPT ![a].tier = t]
    /\ UNCHANGED <<tiers, ride, form, first, had, forms>>

DriverNext ==
    \/ \E r \in Form, phone \in Text \cup {NoPhone} :
         \/ \E mail \in Mail : Register(r, mail, phone)
         \/ \E a \in Account : SetPhone(r, a, phone)
    \/ \E r \in Form, a \in Account : InsertAccount(r, a)
    \/ \E r \in Form : InsertRefused(r) \/ LinkSessions(r) \/ FormCut(r)
    \/ \E s \in Ride, phone \in Text \cup {NoPhone} : OpenRide(s, phone)
    \/ \E t \in Tier : CreateTier(t) \/ \E a \in Account : SetTier(a, t)

DriverSpec == DriverInit /\ [][DriverNext]_driverVars

-----------------------------------------------------------------------------
(* Properties.                                                             *)

\* A session that has an owner keeps it, whoever registers or takes over the
\* number later, and the owner has had the number of the session; two
\* accounts never share an email, and the tier of an account exists.
RidesOwned ==
    /\ \A s \in Ride :
         /\ ride[s].owner = first[s]
         /\ ride[s].owner # NoAccount => ride[s].phone \in had[ride[s].owner]
    /\ \A a, b \in Here : a # b => account[a].mail # account[b].mail
    /\ \A a \in Here : account[a].tier \in tiers
=============================================================================
