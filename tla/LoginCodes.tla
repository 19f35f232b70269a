----------------------------- MODULE LoginCodes ------------------------------
(***************************************************************************)
(* The one-time codes drivers log in with (api/public_auth.py): a key of   *)
(* Redis per phone number holds the code and the number of attempts.  A    *)
(* verification reads the key, decides, and writes or deletes it in        *)
(* another call.  Numbers have nothing in common: this is one of them.     *)
(***************************************************************************)
EXTENDS Naturals

CONSTANTS
    Attempt,    \* requests that verify a code
    MaxCodes,   \* bound: codes sent
    MaxEntries  \* bound: verifications

ASSUME CodeAssumption == MaxCodes \in Nat /\ MaxEntries \in Nat

VARIABLES
    otp,      \* the key: the code it holds, 0 if there is no key, and attempts
    sent,     \* number of codes sent; code n is the n-th
    attempt,  \* what a verification is suspended before, and what it read
    grants,   \* tokens given for each code
    misses,   \* wrong entries answered as such while each code was held
    mixed,    \* history: requests for the number overlapped
    entries   \* number of verifications so far

codeVars == <<otp, sent, attempt, grants, misses, mixed, entries>>

-----------------------------------------------------------------------------
Code == 1..MaxCodes

MaxAttempts == 5

Key    == [code : Code \cup {0}, attempts : Nat]
NoKey  == [code |-> 0, attempts |-> 0]
NoEntry == [pc |-> "idle", key |-> NoKey]

CodeTypeOK ==
    /\ otp \in Key
    /\ sent \in Code \cup {0}
    /\ attempt \in [Attempt -> [pc : {"idle", "grant", "refuse", "miss"}, key : Key]]
    /\ grants \in [Code -> Nat] /\ misses \in [Code -> Nat]
    /\ mixed \in BOOLEAN
    /\ entries \in Nat

CodeInit ==
    /\ otp = NoKey
    /\ sent = 0
    /\ attempt = [e \in Attempt |-> NoEntry]
    /\ grants = [c \in Code |-> 0]
    /\ misses = [c \in Code |-> 0]
    /\ mixed = FALSE
    /\ entries = 0

Entering(E) == \E e \in E : attempt[e].pc # "idle"

-----------------------------------------------------------------------------
\* send_otp: a new code replaces the old one and its attempts.
SendOtp ==
    /\ sent < MaxCodes
    /\ sent' = sent + 1
    /\ otp' = [code |-> sent + 1, attempts |-> 0]
    /\ mixed' = (mixed \/ Entering(Attempt))
    /\ UNCHANGED <<attempt, grants, misses, entries>>

\* The key runs out.
OtpExpires ==
    /\ otp # NoKey
    /\ otp' = NoKey
    /\ UNCHANGED <<sent, attempt, grants, misses, mixed, entries>>

\* Faulty: the attempt counts for the answer, not for the next verification.
KeepUncounted(k) == [k EXCEPT !.attempts = @ - 1]

\* What a wrong attempt puts back: the code, with the attempt counted.
KeepKey(k) == k

\* verify_otp: what it read decides, too many attempts first.
VerifyOtp(e, right) ==
    LET k == [otp EXCEPT !.attempts = @ + 1]
    IN  /\ attempt[e].pc = "idle"
        /\ entries < MaxEntries /\ entries' = entries + 1
        /\ otp # NoKey
        /\ attempt' = [attempt EXCEPT ![e] = [key |-> k,
                       pc |-> IF k.attempts > MaxAttempts THEN "refuse"
                              ELSE IF right THEN "grant" ELSE "miss"]]
        /\ mixed' = (mixed \/ Entering(Attempt \ {e}))
        /\ UNCHANGED <<otp, sent, grants, misses>>

\* The key is deleted, whatever it holds by now, and a token given.
Grant(e) ==
    LET c == attempt[e].key.code
    IN  /\ attempt[e].pc = "grant"
        /\ otp' = NoKey
        /\ grants' = [grants EXCEPT ![c] = @ + 1]
        /\ attempt' = [attempt EXCEPT ![e] = NoEntry]
        /\ UNCHANGED <<sent, misses, mixed, entries>>

Refuse(e) ==
    /\ attempt[e].pc = "refuse"
    /\ otp' = NoKey
    /\ attempt' = [attempt EXCEPT ![e] = NoEntry]
    /\ UNCHANGED <<sent, grants, misses, mixed, entries>>

\* The key is written back, whatever has become of it; its life starts anew.
Miss(e) ==
    LET c == attempt[e].key.code
    IN  /\ attempt[e].pc = "miss"
        /\ otp' = KeepKey(attempt[e].key)
        /\ misses' = [misses EXCEPT ![c] = @ + 1]
        /\ attempt' = [attempt EXCEPT ![e] = NoEntry]
        /\ UNCHANGED <<sent, grants, mixed, entries>>

EntryCut(e) ==
    /\ attempt[e].pc # "idle"
    /\ attempt' = [attempt EXCEPT ![e] = NoEntry]
    /\ UNCHANGED <<otp, sent, grants, misses, mixed, entries>>

CodeNext ==
    \/ SendOtp \/ OtpExpires
    \/ \E e \in Attempt :
         \/ \E right \in BOOLEAN : VerifyOtp(e, right)
         \/ Grant(e) \/ Refuse(e) \/ Miss(e) \/ EntryCut(e)

CodeSpec == CodeInit /\ [][CodeNext]_codeVars

-----------------------------------------------------------------------------
(* Properties.                                                             *)

\* A code logs in once, is answered as wrong at most five times, and a newer one
\* is never undone by an older one, as long as requests for the number do not
\* overlap.
CodesSpent ==
    ~mixed =>
      /\ \A c \in Code : grants[c] <= 1 /\ misses[c] <= MaxAttempts
      /\ otp # NoKey => otp.code = sent /\ grants[sent] = 0
=============================================================================
