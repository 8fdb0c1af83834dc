-------------------------- MODULE OperatorSettings --------------------------
(***************************************************************************)
(* The settings the operator saves in the dashboard and the daemon takes   *)
(* over between two cycles (pkg/config): operator_settings.yaml is layered *)
(* over profile.yaml, the daemon applies it to the one profile its workers *)
(* read, and writes what it took it for to active_operator_settings.json.  *)
(***************************************************************************)
CONSTANTS
  Modes,         \* application modes: "find_only", "assisted", "automatic"
  Scopes,        \* the country lists the operator may choose
  ProfileScope,  \* allowed_countries of profile.yaml
  Unset,         \* the selector was never touched
  Missing,       \* no settings file
  Corrupt        \* a settings file that cannot be read, parsed or validated

ASSUME SettingsAssumption == "find_only" \in Modes

Settings == [mode : Modes, countries : Scopes \union {Unset}]
DefaultOperatorSettings == [mode |-> "find_only", countries |-> Unset]

VARIABLES
  file,     \* operator_settings.yaml
  active,   \* active_operator_settings.json, as far as it is compared: the mode
  profile   \* of the daemon: what its workers and its discovery work under

settingsVars == <<file, active, profile>>

(* A profile after ApplyOperatorSettings.  The mode stands for the three   *)
(* flags it alone decides (auto_submit, the automatic click, the copilot); *)
(* an untouched selector leaves the countries that are there.              *)
ApplyOperatorSettings(p, op) ==
  [ mode |-> op.mode,
    countries |-> IF op.countries = Unset THEN p.countries ELSE op.countries ]

ProfileYaml == [mode |-> "find_only", countries |-> ProfileScope]

Profiles == [mode : Modes, countries : Scopes \union {ProfileScope}]

SettingsTypeOK ==
  /\ file \in Settings \union {Missing, Corrupt}
  /\ active \in Modes \union {Missing}
  /\ profile \in Profiles

SettingsInit ==
  /\ file \in {Missing} \union Settings
  /\ active = Missing
  /\ profile = ProfileYaml

(* LoadOperatorSettings with the default a missing file stands for.        *)
Readable == file # Corrupt
LoadOperatorSettings == IF file = Missing THEN DefaultOperatorSettings ELSE file

(* GetEffectiveSettings starts from profile.yaml each time.                *)
GetEffectiveSettings == ApplyOperatorSettings(ProfileYaml, LoadOperatorSettings)

(* The comparison that decides DaemonActive leaves the countries out.      *)
acknowledged == active # Missing /\ active = GetEffectiveSettings.mode

(* serveOperatorSettings saves whole files; the operator may also edit or  *)
(* remove one by hand.                                                     *)
SaveOperatorSettings ==
  /\ file' \in Settings \union {Missing, Corrupt}
  /\ UNCHANGED <<active, profile>>

(* The daemon's start: it takes profile.yaml and the file as they are.     *)
LoadAtStart ==
  /\ Readable
  /\ profile' = ApplyOperatorSettings(ProfileYaml, LoadOperatorSettings)
  /\ UNCHANGED <<file, active>>

(* Mutant: what is acknowledged already is not applied again.              *)
ApplyUnlessAcknowledged(eff) ==
  IF eff # Corrupt /\ Readable /\ ~acknowledged
  THEN /\ profile' = ApplyOperatorSettings(profile, LoadOperatorSettings)
       /\ active' \in {eff.mode, active}
       /\ UNCHANGED file
  ELSE UNCHANGED settingsVars

(* The second reading of the file in a cycle.  It may differ from the      *)
(* first, eff, which is what is acknowledged; the acknowledgement may fail *)
(* to be written.                                                          *)
ApplyInCycle(eff) ==
  \/ /\ eff # Corrupt /\ Readable
     /\ profile' = ApplyOperatorSettings(profile, LoadOperatorSettings)
     /\ active' \in {eff.mode, active}
     /\ UNCHANGED file
  \/ /\ eff = Corrupt \/ ~Readable
     /\ UNCHANGED settingsVars
=============================================================================
