------------------------------ MODULE Profiles -------------------------------
(***************************************************************************)
(* Charger profiles (charger_profiles/): an ordered registry, filled when  *)
(* it is first used and added to later, and the handlers of one OCPP 1.6   *)
(* charger, each acting on the profile it last resolved.  A pattern is the *)
(* set of the models, or firmware versions, that it matches.               *)
(***************************************************************************)
EXTENDS Naturals, Sequences, SequencesExt

CONSTANTS
    Handler,     \* handlers of the charger, one per connection
    Custom,      \* profiles a deployment registers
    File,        \* the profiles of CHARGER_PROFILES_YAML, <<>> if unset or unreadable
    NoExamples,  \* CHARGER_PROFILES_NO_EXAMPLES
    Sold,        \* what the charger may be
    MaxCustom    \* bound: registrations

VARIABLES
    profiles,    \* _PROFILES
    loaded,      \* _profiles_initialized
    identity,    \* what the charger is; a firmware update changes it
    known,       \* what Redis has of it: vendor, model, firmware; profile
    held,        \* the profile of each handler
    resolving,   \* what a handler is suspended before; the identity it last resolved,
                 \* or is to resolve, and how many registrations there were then
    registered   \* history: registrations, each with its place

profileVars == <<profiles, loaded, identity, known, held, resolving, registered>>

-----------------------------------------------------------------------------
(* Profiles, and what they match.  Of a profile's behaviour only            *)
(* sends_status_on_boot is used by the handlers, and only to ask for it.    *)

Model    == {"CCS2", "ENC-DCX030A", "ENC-DCL120B", "else"}
Firmware == {"DC2_D_V3", "1.0.26", "else"}
Identity == [vendor : {"MAXPOWER", "hjl", "else"}, model : Model, firmware : Firmware]
NoIdentity == [vendor |-> "", model |-> "", firmware |-> ""]

Profile == [id : STRING, vendor : STRING, models : SUBSET Model, firmwares : SUBSET Firmware]

MaxpowerCcs2 == [id |-> "maxpower-ccs2-v3", vendor |-> "MAXPOWER",
                 models |-> {"CCS2"}, firmwares |-> {"DC2_D_V3"}]
Hongjiali120 == [id |-> "hongjiali-120kw", vendor |-> "hjl",
                 models |-> {"ENC-DCX030A", "ENC-DCL120B"}, firmwares |-> {"1.0.26"}]
Hongjiali30  == [id |-> "hongjiali-30kw-portable", vendor |-> "hjl",
                 models |-> {"ENC-DCX030A"}, firmwares |-> {"1.0.26"}]
Generic      == [id |-> "generic-ocpp16", vendor |-> "*",
                 models |-> Model, firmwares |-> Firmware]

\* A deployment's profiles are profiles, and a charger says what it is.
ASSUME ProfilesAssumption ==
    Custom \subseteq Profile /\ File \in Seq(Profile) /\ Sold \subseteq Identity /\ MaxCustom \in Nat

Examples == IF NoExamples THEN <<>> ELSE <<MaxpowerCcs2, Hongjiali120, Hongjiali30>>

\* Every profile there may be.
Known == {MaxpowerCcs2, Hongjiali120, Hongjiali30, Generic} \cup Custom \cup Range(File)

Matches(p, i) ==
    /\ p.vendor \in {"*", i.vendor}
    /\ i.model \in p.models
    /\ i.firmware \in p.firmwares

-----------------------------------------------------------------------------
(* The registry.                                                           *)

IsGeneric(p) == p.id = Generic.id

\* Faulty: what is appended comes after the fallback.
InsertedLast(list, p, prepend) ==
    IF prepend THEN <<p>> \o list ELSE Append(list, p)

\* The members of list that are in S, in their order.
Kept(list, S) ==
    LET upTo[n \in 0..Len(list)] == IF n = 0 THEN <<>>
                                    ELSE IF list[n] \in S THEN Append(upTo[n - 1], list[n])
                                                          ELSE upTo[n - 1]
    IN  upTo[Len(list)]

Specific(list)  == Kept(list, {p \in Known : ~IsGeneric(p)})
Fallbacks(list) == Kept(list, {p \in Known : IsGeneric(p)})

\* register_profile: those with the fallback's id are put back last.
Inserted(list, p, prepend) ==
    (IF prepend THEN <<p>> \o Specific(list) ELSE Append(Specific(list), p)) \o Fallbacks(list)

\* load_profiles_from_yaml.
WithFile(list) ==
    LET upTo[n \in 0..Len(File)] == IF n = 0 THEN list ELSE Inserted(upTo[n - 1], File[n], FALSE)
    IN  upTo[Len(File)]

\* _ensure_initialized.
Ready == IF loaded THEN profiles ELSE WithFile(Append(Examples, Generic))

\* resolve_profile.
Resolve(list, i) ==
    LET hits == Kept(list, {p \in Known : Matches(p, i)})
    IN  IF hits = <<>> THEN Generic ELSE Head(hits)

-----------------------------------------------------------------------------
Resolving == [pc : {"idle", "resolve", "note"}, of : Sold \cup {NoIdentity}, upTo : 0..MaxCustom]
NoResolving == [pc |-> "idle", of |-> NoIdentity, upTo |-> 0]

Registration == [profile : Custom, prepend : BOOLEAN]

ProfilesTypeOK ==
    /\ profiles \in Seq(Known)
    /\ loaded \in BOOLEAN
    /\ identity \in Sold
    /\ known \in [of : Sold \cup {NoIdentity}, profile : {p.id : p \in Known} \cup {""}]
    /\ held \in [Handler -> Known]
    /\ resolving \in [Handler -> Resolving]
    /\ registered \in Seq(Registration)

ProfilesInit ==
    /\ profiles = <<>> /\ loaded = FALSE
    /\ identity \in Sold
    /\ known = [of |-> NoIdentity, profile |-> ""]
    /\ held = [h \in Handler |-> Generic]
    /\ resolving = [h \in Handler |-> NoResolving]
    /\ registered = <<>>

-----------------------------------------------------------------------------
(* Registrations and the handlers of the charger.                          *)

RegisterProfile(p, prepend) ==
    /\ Len(registered) < MaxCustom
    /\ profiles' = Inserted(Ready, p, prepend)
    /\ loaded' = TRUE
    /\ registered' = Append(registered, [profile |-> p, prepend |-> prepend])
    /\ UNCHANGED <<identity, known, held, resolving>>

\* A new connection is a new handler.
NewHandler(h) ==
    /\ held' = [held EXCEPT ![h] = Generic]
    /\ resolving' = [resolving EXCEPT ![h] = NoResolving]
    /\ UNCHANGED <<profiles, loaded, identity, known, registered>>

FirmwareChanges ==
    /\ identity' \in {i \in Sold \ {identity} : i.vendor = identity.vendor /\ i.model = identity.model}
    /\ UNCHANGED <<profiles, loaded, known, held, resolving, registered>>

\* BootNotification writes what the charger says, and then resolves it.
BootHash(h) ==
    /\ resolving[h].pc = "idle"
    /\ known' = [known EXCEPT !.of = identity]
    /\ resolving' = [resolving EXCEPT ![h].pc = "resolve", ![h].of = identity]
    /\ UNCHANGED <<profiles, loaded, identity, held, registered>>

Hold(h, i) ==
    /\ profiles' = Ready /\ loaded' = TRUE
    /\ held' = [held EXCEPT ![h] = Resolve(Ready, i)]
    /\ resolving' = [resolving EXCEPT ![h] = [pc |-> "note", of |-> i, upTo |-> Len(registered)]]
    /\ UNCHANGED <<identity, known, registered>>

BootResolve(h) == resolving[h].pc = "resolve" /\ Hold(h, resolving[h].of)

\* Heartbeat resolves what Redis knows, if all the handler has is the fallback.
BeatResolve(h) ==
    /\ resolving[h].pc = "idle" /\ IsGeneric(held[h])
    /\ known.of # NoIdentity
    /\ Hold(h, known.of)

NoteProfile(h) ==
    /\ resolving[h].pc = "note"
    /\ known' = [known EXCEPT !.profile = held[h].id]
    /\ resolving' = [resolving EXCEPT ![h].pc = "idle"]
    /\ UNCHANGED <<profiles, loaded, identity, held, registered>>

ProfilesNext ==
    \/ \E p \in Custom, prepend \in BOOLEAN : RegisterProfile(p, prepend)
    \/ \E h \in Handler : \/ NewHandler(h) \/ BootHash(h) \/ BootResolve(h)
                          \/ BeatResolve(h) \/ NoteProfile(h)
    \/ FirmwareChanges

ProfilesSpec == ProfilesInit /\ [][ProfilesNext]_profileVars

-----------------------------------------------------------------------------
(* Properties.                                                             *)

\* The order registrations promise: the latest of those put first, the shipped
\* profiles, those of the file and those appended, oldest first, the fallback.
Entered(regs, prepend) ==
    LET entries == Kept(regs, {r \in Registration : r.prepend = prepend})
    IN  [k \in 1..Len(entries) |-> entries[k].profile]

Promised(regs) ==
    Reverse(Entered(regs, TRUE)) \o Examples \o File \o Entered(regs, FALSE) \o <<Generic>>

\* The registry keeps the promised order, and a handler acts on the first profile
\* of it that matches what its charger said, as of when it was resolved; only a
\* deployment's profile that takes the id of the fallback loses its place, and the
\* others keep theirs.  The fallback itself is always last, so that everything
\* registered comes before it.
ProfilesOrdered ==
    /\ loaded => /\ profiles[Len(profiles)] = Generic
                 /\ Len(profiles) = Len(Promised(registered))
                 /\ Specific(profiles) = Specific(Promised(registered))
    /\ (\A p \in {r.profile : r \in Range(registered)} \cup Range(File) : ~IsGeneric(p)) =>
         /\ loaded => profiles = Promised(registered)
         /\ \A h \in Handler :
              resolving[h].of # NoIdentity /\ resolving[h].pc # "resolve" =>
                held[h] = Resolve(Promised(SubSeq(registered, 1, resolving[h].upTo)),
                                  resolving[h].of)
=============================================================================
