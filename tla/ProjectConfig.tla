--------------------------- MODULE ProjectConfig ---------------------------
(***************************************************************************)
(* .planning/config.json over the life of a project: the commands of       *)
(* config.cjs that create it and write keys of it, loadConfig (core.cjs),  *)
(* which every other command calls and which rewrites deprecated keys in   *)
(* place, and validate health (verify.cjs) with its repairs.  A key is     *)
(* looked up flat first and then in its section: commit_docs before        *)
(* planning.commit_docs.  One command runs at a time; it may be killed     *)
(* while it writes the file in place.                                      *)
(***************************************************************************)
EXTENDS Integers, FiniteSets, Functions

CONSTANTS
    Repos,          \* child directories that may be git repositories
    MaxTouches,     \* bound: commands that change something
    MaxMishaps      \* bound: files lost, writes cut short

ASSUME TouchAssumption == MaxTouches \in Nat /\ MaxMishaps \in Nat

VARIABLES
    config,     \* config.json
    files,      \* which of PROJECT.md, ROADMAP.md and STATE.md exist
    cloned,     \* the child repositories on disk
    ignored,    \* .planning/ is in .gitignore
    wanted,     \* history: what the user set since config.json last appeared
    migrated,   \* history: multiRepo has replaced planning.commit_docs
    healed,     \* history: repairs since anything else happened
    touches, mishaps

configVars == <<config, files, cloned, ignored, wanted, migrated, healed, touches, mishaps>>

Documents == {"PROJECT", "ROADMAP", "STATE"}

\* The sections in which loadConfig looks a setting up when it is not flat.
Section == [branching_strategy |-> "git.branching_strategy",
            commit_docs        |-> "planning.commit_docs",
            nyquist_validation |-> "workflow.nyquist_validation"]
Settings == DOMAIN Section \cup {"model_profile"}
SettingOf(key) == IF key \in Settings THEN key
                  ELSE CHOOSE s \in DOMAIN Section : Section[s] = key

\* CONFIG_DEFAULTS
Default == [branching_strategy |-> "none", commit_docs |-> "true",
            nyquist_validation |-> "true", model_profile |-> "balanced"]

\* isValidConfigKey: of the flat names of settings that have a section, only
\* commit_docs may be set.
CanSet == {"git.branching_strategy", "planning.commit_docs", "commit_docs",
           "workflow.nyquist_validation", "workflow.ai_integration_phase"}
Values(key) == CASE key = "git.branching_strategy" -> {"none", "phase"}
                 [] OTHER -> {"true", "false"}
Profiles == {"balanced", "quality"}

NoKeys == [k \in {} |-> ""]
Text(keys, sub) == [form |-> "text", keys |-> keys, sub |-> sub]
Missing == [form |-> "missing", keys |-> NoKeys, sub |-> {}]
Torn == [form |-> "torn", keys |-> NoKeys, sub |-> {}]
Readable == config.form = "text"
Has(c, key) == key \in DOMAIN c.keys

\* The later one wins, key by key.
Over(old, new) == [k \in DOMAIN old \cup DOMAIN new |-> IF k \in DOMAIN new THEN new[k] ELSE old[k]]
Without(keys, gone) == Restrict(keys, DOMAIN keys \ gone)

-----------------------------------------------------------------------------
(* Creating the file and setting keys. *)

\* buildNewProjectConfig: every key, the branching keys in their section.
NewConfig(choices) ==
    Text(Over([k \in {"model_profile", "commit_docs", "git.branching_strategy",
                      "workflow.nyquist_validation", "workflow.ai_integration_phase"} |->
                  CASE k = "model_profile" -> Default.model_profile
                    [] k = "git.branching_strategy" -> Default.branching_strategy
                    [] OTHER -> "true"], choices), {})

\* ensureConfigFile: an existing file, torn or not, is left alone.
Ensured(c) == IF c = Missing THEN NewConfig(NoKeys) ELSE c

\* The other keys forgotten.
WithKeyOnly(c, key, value) == Text([k \in {key} |-> value], c.sub)

\* setConfigValue: a missing file counts as an empty object.
WithKey(c, key, value) == Text(Over(c.keys, [k \in {key} |-> value]), c.sub)

\* cmdConfigGet reads the key as it is spelled.
ConfigGet(c, key) == IF Has(c, key) THEN c.keys[key] ELSE "not found"

-----------------------------------------------------------------------------
(* loadConfig *)

\* depth becomes granularity; multiRepo becomes the list of the repositories
\* found, and documents are no longer committed; an existing list follows the
\* disk while there is any repository.
Granular(c) ==
    IF Has(c, "depth") /\ ~Has(c, "granularity")
    THEN Text(Without(Over(c.keys, [k \in {"granularity"} |-> "fine"]), {"depth"}), c.sub) ELSE c
MultiRepo(c) == Has(c, "multiRepo") /\ c.sub = {} /\ cloned # {}
Listing(c) ==
    IF MultiRepo(c)
    THEN Text(Without(Over(c.keys, [k \in {"planning.commit_docs"} |-> "false"]), {"multiRepo"}), cloned)
    ELSE IF c.sub # {} /\ cloned # {} THEN [c EXCEPT !.sub = cloned] ELSE c
Migrated(c) == Listing(Granular(c))

\* What the other commands see.  Without a readable file they see the
\* defaults, also when .planning/ is ignored.
Lookup(c, s) ==
    IF Has(c, s) THEN c.keys[s]
    ELSE IF s \in DOMAIN Section /\ Has(c, Section[s]) THEN c.keys[Section[s]]
    ELSE IF s = "commit_docs" /\ c.form = "text" /\ ignored THEN "false"
    ELSE Default[s]

Loaded(c) == [s \in Settings |-> Lookup(Migrated(c), s)]

-----------------------------------------------------------------------------
(* cmdValidateHealth: the checks of these files, and the repairs. *)

Absent(c, key) == (\E k \in {"workflow.research", "workflow.nyquist_validation",
                             "workflow.ai_integration_phase"} : Has(c, k)) /\ ~Has(c, key)

Errors ==
    {e \in {"E002", "E003", "E004", "E005"} :
        CASE e = "E002" -> "PROJECT" \notin files [] e = "E003" -> "ROADMAP" \notin files
          [] e = "E004" -> "STATE" \notin files [] e = "E005" -> config.form = "torn"}
\* W012 reads the flat key only.
Warnings ==
    {w \in {"W003", "W004", "W008", "W012", "W016"} :
        CASE w = "W003" -> config = Missing
          [] w = "W004" -> Has(config, "model_profile") /\ config.keys["model_profile"] \notin Profiles
          [] w = "W008" -> Absent(config, "workflow.nyquist_validation")
          [] w = "W016" -> Absent(config, "workflow.ai_integration_phase")
          [] w = "W012" -> Has(config, "branching_strategy")
                           /\ config.keys["branching_strategy"] \notin {"none", "phase"}}
Repairable == (Errors \cup Warnings) \cap {"E004", "E005", "W003", "W008", "W016"}
HealthStatus == IF Errors # {} THEN "broken" ELSE IF Warnings # {} THEN "degraded" ELSE "healthy"

\* createConfig and resetConfig: flat keys, without ai_integration_phase.
ResetConfig ==
    Text([k \in {"model_profile", "commit_docs", "branching_strategy",
                 "workflow.research", "workflow.nyquist_validation"} |->
             CASE k = "model_profile" -> Default.model_profile
               [] k = "branching_strategy" -> Default.branching_strategy [] OTHER -> "true"], {})

\* One of the two keys added.
CompletedHalf(c) ==
    IF Absent(c, "workflow.nyquist_validation")
    THEN Text(Over(c.keys, [k \in {"workflow.nyquist_validation"} |-> "true"]), c.sub) ELSE c

\* addNyquistKey and addAiIntegrationPhaseKey, for what the checks had found.
Completed(c) ==
    Text(Over(c.keys, [k \in {key \in {"workflow.nyquist_validation", "workflow.ai_integration_phase"} :
                                 Absent(c, key)} |-> "true"]), c.sub)

RepairedConfig ==
    IF config.form # "text" THEN ResetConfig
    ELSE IF Repairable \cap {"W008", "W016"} # {} THEN Completed(config) ELSE config
RepairedFiles == IF "E004" \in Repairable THEN files \cup {"STATE"} ELSE files

-----------------------------------------------------------------------------

\* A project without a file yet, an old one with flat or deprecated keys, or
\* one whose file was written before the latest workflow keys.
ConfigInit ==
    /\ config \in {Missing,
                   Text([k \in {"workflow.research"} |-> "true"], {}),
                   Text([k \in {"depth", "branching_strategy"} |->
                            IF k = "depth" THEN "comprehensive" ELSE "phase"], {}),
                   Text([k \in {"multiRepo"} |-> "true"], {})}
    /\ files = Documents
    /\ cloned = {} /\ ignored \in BOOLEAN
    /\ wanted = NoKeys /\ migrated = FALSE /\ healed = 0
    /\ touches = 0 /\ mishaps = 0

Touch == touches < MaxTouches /\ touches' = touches + 1 /\ healed' = 0
Mishap == mishaps < MaxMishaps /\ mishaps' = mishaps + 1

\* config-new-project, with the choices the user made
ConfigNewProject(docs) ==
    LET choices == [k \in {"commit_docs"} |-> docs] IN
    /\ Touch /\ config = Missing
    /\ config' = NewConfig(choices) /\ wanted' = choices
    /\ UNCHANGED <<files, cloned, ignored, migrated, mishaps>>

\* config-ensure-section
ConfigEnsureSection ==
    /\ Touch /\ config = Missing /\ config' = Ensured(config)
    /\ UNCHANGED <<files, cloned, ignored, wanted, migrated, mishaps>>

\* config-set: fails when the file cannot be parsed
ConfigSet(key, value) ==
    /\ Touch /\ config.form # "torn"
    /\ config' = WithKey(config, key, value)
    /\ wanted' = Over(wanted, [k \in {key} |-> value])
    /\ migrated' = (migrated /\ key # "planning.commit_docs")
    /\ UNCHANGED <<files, cloned, ignored, mishaps>>

\* config-set-model-profile
ConfigSetModelProfile(profile) ==
    /\ Touch /\ config.form # "torn"
    /\ config' = WithKey(Ensured(config), "model_profile", profile)
    /\ wanted' = Over(wanted, [k \in {"model_profile"} |-> profile])
    /\ UNCHANGED <<files, cloned, ignored, migrated, mishaps>>

\* Any other command: loadConfig writes what it migrated in place, and a
\* process killed meanwhile leaves the file torn.
LoadConfig ==
    /\ Readable /\ Migrated(config) # config
    /\ healed' = 0 /\ UNCHANGED <<files, cloned, ignored, touches>>
    /\ \/ /\ config' = Migrated(config)
          /\ migrated' = (migrated \/ MultiRepo(config))
          /\ UNCHANGED <<wanted, mishaps>>
       \/ Mishap /\ config' = Torn /\ wanted' = NoKeys /\ UNCHANGED migrated

\* validate health --repair; the settings of a file it replaces are gone.
HealthRepair ==
    /\ healed < 2 /\ UNCHANGED <<cloned, ignored, migrated, touches>>
    /\ files' = RepairedFiles
    /\ \/ config' = RepairedConfig /\ healed' = healed + 1 /\ UNCHANGED mishaps
       \/ RepairedConfig # config /\ Mishap /\ config' = Torn /\ healed' = 0
    /\ wanted' = IF Readable /\ config' # Torn THEN wanted ELSE NoKeys

\* The user clones or deletes a repository beside the project.
CloneOrDelete(r) ==
    /\ Touch
    /\ cloned' = IF r \in cloned THEN cloned \ {r} ELSE cloned \cup {r}
    /\ UNCHANGED <<config, files, ignored, wanted, migrated, mishaps>>

\* A document or config.json is lost, by a checkout or a clean.
Lose ==
    /\ Mishap /\ healed' = 0 /\ UNCHANGED <<cloned, ignored, migrated, touches>>
    /\ \/ \E f \in files : files' = files \ {f} /\ UNCHANGED <<config, wanted>>
       \/ config # Missing /\ config' = Missing /\ wanted' = NoKeys /\ UNCHANGED files

ConfigNext ==
    \/ \E docs \in {"true", "false"} : ConfigNewProject(docs)
    \/ ConfigEnsureSection
    \/ \E key \in CanSet : \E value \in Values(key) : ConfigSet(key, value)
    \/ \E profile \in Profiles : ConfigSetModelProfile(profile)
    \/ LoadConfig \/ HealthRepair \/ Lose
    \/ \E r \in Repos : CloneOrDelete(r)

ConfigSpec == ConfigInit /\ [][ConfigNext]_configVars

-----------------------------------------------------------------------------

\* Types of config.json and of the health check; nothing is taken as set by the user while
\* the file cannot be read.
ConfigTypeOK ==
    /\ config.form \in {"missing", "torn", "text"}
    /\ config.sub \subseteq Repos /\ files \subseteq Documents
    /\ ~Readable => wanted = NoKeys /\ config.keys = NoKeys

\* What the user set is what config-get prints and what every command loads,
\* through migrations, repairs of other keys and later settings.  Exceptions: a
\* flat key of an old or repaired file hides the one in its section, and the
\* migration of multiRepo stops committing documents.
SetHolds ==
    \A key \in DOMAIN wanted :
        LET flat == SettingOf(key) IN
        \/ key = "planning.commit_docs" /\ (migrated \/ MultiRepo(config))
        \/ /\ ConfigGet(config, key) = wanted[key]
           /\ key \in Settings \cup Range(Section) =>
                 Loaded(config)[flat] = wanted[key] \/ (flat # key /\ Has(config, flat))

\* A repair leaves no repairable error; two in a row leave nothing repairable
\* at all.  A command that loads the file finds nothing to migrate in what
\* another has just migrated.
RepairSettles ==
    /\ healed >= 1 => Repairable \cap {"E004", "E005", "W003"} = {}
    /\ healed = 2 => Repairable = {} /\ (HealthStatus = "broken" => files # Documents)
    /\ Readable => Migrated(Migrated(config)) = Migrated(config)
=============================================================================
