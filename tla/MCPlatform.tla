----------------------------- MODULE MCPlatform -----------------------------
(***************************************************************************)
(* The services around charging: the PKI, the runtime settings, the spot   *)
(* price, the setup wizard, the backups, the login codes and the charger   *)
(* profiles.  They keep no state in common, so a behaviour of the instance *)
(* takes the steps of one of them.                                         *)
(***************************************************************************)
EXTENDS Pki, Settings, Pricing, SetupWizard, Backups, LoginCodes, Profiles, TLC

VARIABLE part   \* the component whose steps are taken

platform == <<vars, settingsVars, pricingVars, setupVars, backupVars, codeVars, profileVars, part>>

Resting(p) ==
    /\ p # "pki" => UNCHANGED vars
    /\ p # "settings" => UNCHANGED settingsVars
    /\ p # "pricing" => UNCHANGED pricingVars
    /\ p # "setup" => UNCHANGED setupVars
    /\ p # "backups" => UNCHANGED backupVars
    /\ p # "codes" => UNCHANGED codeVars
    /\ p # "profiles" => UNCHANGED profileVars

PlatformInit ==
    /\ Init /\ SettingsInit /\ PricingInit /\ SetupInit /\ BackupInit /\ CodeInit /\ ProfilesInit
    /\ part \in {"pki", "settings", "pricing", "setup", "backups", "codes", "profiles"}
    /\ part # "pricing" => conf = CHOOSE c \in Conf : TRUE
    /\ part # "profiles" => identity = CHOOSE i \in Sold : TRUE

PlatformNext ==
    /\ UNCHANGED part
    /\ \/ part = "pki" /\ Next
       \/ part = "settings" /\ SettingsNext
       \/ part = "pricing" /\ PricingNext
       \/ part = "setup" /\ SetupNext
       \/ part = "backups" /\ BackupNext
       \/ part = "codes" /\ CodeNext
       \/ part = "profiles" /\ ProfilesNext
    /\ Resting(part)

PlatformSpec == PlatformInit /\ [][PlatformNext]_platform

\* Type invariant of the seven components: every file, row, cache entry, key,
\* local variable and history variable is of its kind.
PlatformTypeOK ==
    /\ TypeOK /\ SettingsTypeOK /\ PricingTypeOK /\ SetupTypeOK
    /\ BackupTypeOK /\ CodeTypeOK /\ ProfilesTypeOK

-----------------------------------------------------------------------------
\* Profiles the operator adds: one narrower than any built-in, and one that takes
\* the id of the fallback; and one of the YAML file.
Acme  == [id |-> "acme", vendor |-> "hjl", models |-> {"ENC-DCX030A"}, firmwares |-> Firmware]
Own   == [id |-> "generic-ocpp16", vendor |-> "*", models |-> Model, firmwares |-> {"else"}]
Filed == [id |-> "filed", vendor |-> "MAXPOWER", models |-> Model, firmwares |-> Firmware]

CustomProfiles == {Acme, Own}
FileProfiles   == <<Filed>>

\* What the chargers that boot say they are.
SoldHere ==
    {[vendor |-> "hjl", model |-> "ENC-DCX030A", firmware |-> "1.0.26"],
     [vendor |-> "hjl", model |-> "ENC-DCX030A", firmware |-> "else"],
     [vendor |-> "MAXPOWER", model |-> "CCS2", firmware |-> "else"]}

Symmetry == Permutations(Serial) \cup Permutations(Req)
=============================================================================
