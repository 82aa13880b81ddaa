------------------------------- MODULE CliRun -------------------------------
(***************************************************************************)
(* How an invocation of `ferro-protect` comes by its settings (main.rs,    *)
(* config.rs, api_key.rs, logging.rs, commands/config.rs).                 *)
(*                                                                         *)
(* One shell session: the environment is fixed, and invocations follow     *)
(* each other.  An invocation reads the config file once, merges it with   *)
(* flags and environment, initialises logging, reads the API key, looks at *)
(* the permissions of the key file and sends its request.  The user may    *)
(* change config and key files between any two of these steps.             *)
(*                                                                         *)
(* Strings are names; only what the code tells apart is kept: a value that *)
(* is absent, one that is empty or blank, and others.                      *)
(***************************************************************************)
EXTENDS Naturals

CONSTANTS CommandLines,    \* command and flags of the invocations
          Environments,    \* the environments of the session
          ConfigPaths,     \* paths at which config files are looked for
          KeyPaths,        \* paths at which key files are looked for
          ConfigContents,  \* what may be found at a config path
          KeyContents,     \* what may be found at a key path
          NotUrls,         \* hosts and base URLs that make no URL
          NotHeaders,      \* keys with a character that no header takes
          MaxEdits         \* bounds the changes of files

Unset == "unset"
Blank == "blank"
XdgDefault == "xdg"

\* A file that is not there; a command that loads no config file keeps this.
Missing == [kind |-> "missing"]

\* ConfigPaths and KeyPaths are all the paths that are named anywhere.
ASSUME CliRunAssumption ==
    /\ XdgDefault \in ConfigPaths
    /\ Missing \in ConfigContents \cap KeyContents
    /\ \A line \in CommandLines :
           /\ line.config \in ConfigPaths \cup {Unset}
           /\ line.api_key_file \in KeyPaths \cup {Unset}
    /\ \A e \in Environments :
           /\ e.config \in ConfigPaths \cup {Unset, Blank}
           /\ e.api_key_file \in KeyPaths \cup {Unset, Blank}
    /\ \A file \in ConfigContents :
           /\ file.kind \in {"missing", "directory", "garbage", "toml"}
           /\ file.kind = "toml" => file.api_key_file \in KeyPaths \cup {Unset, Blank}
    /\ MaxEdits \in Nat

VARIABLES
    env,          \* the environment variables
    configFiles,  \* config path -> content
    keyFiles,     \* key path -> content
    commandLine,  \* of the invocation that runs, or ran last
    pc,           \* its next step; "shell" between invocations
    loaded,       \* the config file as it was read
    effective,    \* EffectiveConfig
    filter,       \* the log filter
    keyPath,      \* the key file that was opened, or Unset
    key,          \* the API key
    warned,       \* whether the key file's permissions were warned of
    request,      \* where the request went and how
    outcome,      \* how the invocation ended
    shown,        \* what `config show` printed last, and of which file
    versions,     \* what the config path held while the invocation ran
    exposed,      \* others could read the key file ever since it was read
    edits         \* number of changes of files so far

files == <<configFiles, keyFiles, edits>>
vars == <<env, files, commandLine, pc, loaded, effective, filter, keyPath, key,
          warned, request, outcome, shown, versions, exposed>>

Bools == {"true", "false"}
Levels == {"error", "warn", "info", "debug", "trace"}
Errors == {"ExplicitMissing", "Read", "Parse", "HostAndBaseUrl", "EmptyValue",
           "BadEnvBool", "NoConfigFile", "NotProvided", "ReadFailed", "EmptyFile",
           "NoTarget", "InvalidUrl", "InvalidHeader"}
NoError == "none"

\* clap parses a flag, and serde a field, only into a value of its type; the
\* variables are not parsed before `resolve`.
ASSUME SettingsAssumption ==
    /\ \A line \in CommandLines :
           /\ line.insecure \in Bools \cup {Unset} /\ line.json \in Bools \cup {Unset}
           /\ line.log_level \in Levels \cup {Unset}
    /\ \A file \in ConfigContents : file.kind = "toml" =>
           /\ file.insecure \in Bools \cup {Unset} /\ file.json \in Bools \cup {Unset}
           /\ file.log_level \in Levels \cup {Unset}

NoFlags == [config |-> Unset, host |-> Unset, base_url |-> Unset, api_key_file |-> Unset,
            insecure |-> Unset, json |-> Unset, log_level |-> Unset]

NotResolved == [insecure |-> "false", json |-> "false", log_level |-> "warn"]
NoRequest == [to |-> Unset]
NothingShown == [file |-> Missing]

TypeOK ==
    /\ env \in Environments
    /\ configFiles \in [ConfigPaths -> ConfigContents]
    /\ keyFiles \in [KeyPaths -> KeyContents]
    /\ commandLine \in CommandLines
    /\ pc \in {"shell", "started", "loaded", "resolved", "keyed", "ready"}
    /\ loaded \in ConfigContents
    /\ effective.insecure \in Bools /\ effective.json \in Bools
    /\ effective.log_level \in Levels
    /\ keyPath \in KeyPaths \cup {Unset}
    /\ warned \in BOOLEAN /\ exposed \in BOOLEAN
    /\ outcome \in {NoError, "running", "sent", "shown", "printed"} \cup Errors
    /\ shown.file \in ConfigContents
    /\ versions \subseteq ConfigContents
    /\ edits \in 0..MaxEdits

-----------------------------------------------------------------------------
\* A variable that is set but empty or blank counts as absent.
Significant(value) == value \notin {Unset, Blank}

InFile(file, field) == IF file.kind = "toml" THEN file[field] ELSE Unset

\* resolve_path: which config file, and whether it was asked for by name.
ConfigPath(line) ==
    IF line.config # Unset THEN line.config
    ELSE IF Significant(env.config) THEN env.config ELSE XdgDefault

Authoritative(line) == line.config # Unset \/ Significant(env.config)

ValidationError(file) ==
    IF file.host # Unset /\ file.base_url # Unset THEN "HostAndBaseUrl"
    ELSE IF Blank \in {file.host, file.base_url, file.api_key_file} THEN "EmptyValue"
    ELSE NoError

\* Mutant of LoadError: a missing file never matters.
LoadErrorOpportunistic(file, authoritative) ==
    CASE file.kind = "missing"   -> NoError
      [] file.kind = "directory" -> "Read"
      [] file.kind = "garbage"   -> "Parse"
      [] OTHER                   -> ValidationError(file)

\* "garbage" does not parse, or has an unknown key, such as api_key.
LoadError(file, authoritative) ==
    CASE file.kind = "missing"   -> IF authoritative THEN "ExplicitMissing" ELSE NoError
      [] file.kind = "directory" -> "Read"
      [] file.kind = "garbage"   -> "Parse"
      [] OTHER                   -> ValidationError(file)

-----------------------------------------------------------------------------
\* resolve_string and resolve_path_field.
ResolveString(flag, value, inFile) ==
    IF flag # Unset THEN flag ELSE IF Significant(value) THEN value ELSE inFile

ParseBoolish(value) ==
    CASE value \in {"1", "true", "yes", "on"}  -> "true"
      [] value \in {"0", "false", "no", "off"} -> "false"
      [] OTHER                                 -> "unrecognised"

ResolveBool(flag, value, inFile) ==
    IF flag # Unset THEN flag
    ELSE IF Significant(value) THEN ParseBoolish(value)
    ELSE IF inFile # Unset THEN inFile ELSE "false"

ResolveLevel(flag, inFile) ==
    IF flag # Unset THEN flag ELSE IF inFile # Unset THEN inFile ELSE "warn"

Resolve(line, file) ==
    [host         |-> ResolveString(line.host, env.host, InFile(file, "host")),
     base_url     |-> ResolveString(line.base_url, env.base_url, InFile(file, "base_url")),
     api_key_file |-> ResolveString(line.api_key_file, env.api_key_file,
                                    InFile(file, "api_key_file")),
     insecure     |-> ResolveBool(line.insecure, env.insecure, InFile(file, "insecure")),
     json         |-> ResolveBool(line.json, env.json, InFile(file, "json")),
     log_level    |-> ResolveLevel(line.log_level, InFile(file, "log_level"))]

\* Mutant of ResolveError: exclusion is left to the file's validation.
ResolveErrorNoConflict(config) ==
    IF "unrecognised" \in {config.insecure, config.json} THEN "BadEnvBool" ELSE NoError

\* Mutant of ResolveError: only one of the booleans is checked.
ResolveErrorInsecureOnly(config) ==
    IF config.host # Unset /\ config.base_url # Unset THEN "HostAndBaseUrl"
    ELSE IF config.insecure = "unrecognised" THEN "BadEnvBool" ELSE NoError

\* `resolve` merges host and base_url each on its own and then compares.
ResolveError(config) ==
    IF config.host # Unset /\ config.base_url # Unset THEN "HostAndBaseUrl"
    ELSE IF "unrecognised" \in {config.insecure, config.json} THEN "BadEnvBool"
    ELSE NoError

\* env_logger reads an empty filter as "error".
ParseFilters(value) == IF value = Blank THEN "error" ELSE value

\* Mutant of LogFilter: the level of the config file is not handed over.
LogFilterNoFile(flag, inFile) ==
    IF flag # Unset THEN flag
    ELSE IF env.app_log # Unset THEN ParseFilters(env.app_log)
    ELSE IF env.rust_log # Unset THEN ParseFilters(env.rust_log)
    ELSE "warn"

\* logging::init.  Unlike the other settings, a variable that is set but empty
\* hides what ranks below it.
LogFilter(flag, inFile) ==
    IF flag # Unset THEN flag
    ELSE IF env.app_log # Unset THEN ParseFilters(env.app_log)
    ELSE IF env.rust_log # Unset THEN ParseFilters(env.rust_log)
    ELSE IF inFile # Unset THEN inFile ELSE "warn"

\* api_key::resolve: the key file that is opened, if any.  The raw key of the
\* environment ranks between the environment's path and the config file's.
KeyFileOpened(line, file) ==
    IF line.api_key_file # Unset THEN line.api_key_file
    ELSE IF Significant(env.api_key_file) THEN env.api_key_file
    ELSE IF Significant(env.api_key) THEN Unset
    ELSE InFile(file, "api_key_file")

-----------------------------------------------------------------------------
Init ==
    /\ env \in Environments
    /\ configFiles \in [ConfigPaths -> ConfigContents]
    /\ keyFiles \in [KeyPaths -> KeyContents]
    /\ commandLine \in CommandLines
    /\ pc = "shell"
    /\ loaded = Missing
    /\ effective = NotResolved
    /\ filter = Unset
    /\ keyPath = Unset
    /\ key = Unset
    /\ warned = FALSE
    /\ request = NoRequest
    /\ outcome = NoError
    /\ shown = NothingShown
    /\ versions = {}
    /\ exposed = FALSE
    /\ edits = 0

\* The command is entered.
Start(line) ==
    /\ pc = "shell"
    /\ pc' = "started"
    /\ commandLine' = line
    /\ loaded' = Missing
    /\ effective' = NotResolved
    /\ filter' = Unset
    /\ keyPath' = Unset
    /\ key' = Unset
    /\ warned' = FALSE
    /\ request' = NoRequest
    /\ outcome' = "running"
    /\ versions' = {configFiles[ConfigPath(line)]}
    /\ exposed' = FALSE
    /\ UNCHANGED <<env, files, shown>>

Exit(result) == pc' = "shell" /\ outcome' = result

\* What the config commands leave alone: they neither resolve a key nor send.
Keyless == UNCHANGED <<env, files, commandLine, loaded, effective, keyPath, key, warned,
                       request, versions, exposed>>

\* `config show`: loads and resolves as every command does, but without flags,
\* and takes a missing file for an error.  Logging follows the flag only.
ShowConfig ==
    /\ pc = "started" /\ commandLine.command = "show"
    /\ LET file  == configFiles[ConfigPath(commandLine)]
           rows  == Resolve(NoFlags, file)
           error == IF LoadError(file, Authoritative(commandLine)) # NoError
                    THEN LoadError(file, Authoritative(commandLine))
                    ELSE IF file = Missing THEN "NoConfigFile" ELSE ResolveError(rows)
       IN  IF error # NoError
           THEN Exit(error) /\ UNCHANGED shown
           ELSE Exit("shown") /\ shown' = [file |-> file, rows |-> rows]
    /\ filter' = LogFilter(commandLine.log_level, Unset)
    /\ Keyless

\* `config path`: `is_file`, not `exists`.
PrintPath ==
    /\ pc = "started" /\ commandLine.command = "path"
    /\ LET file == configFiles[ConfigPath(commandLine)]
       IN  Exit(IF file.kind \in {"missing", "directory"} THEN "NoConfigFile" ELSE "printed")
    /\ filter' = LogFilter(commandLine.log_level, Unset)
    /\ UNCHANGED shown
    /\ Keyless

\* config::load.
LoadConfig ==
    /\ pc = "started" /\ commandLine.command = "request"
    /\ LET file  == configFiles[ConfigPath(commandLine)]
           error == LoadError(file, Authoritative(commandLine))
       IN  IF error # NoError
           THEN Exit(error) /\ UNCHANGED loaded
           ELSE pc' = "loaded" /\ loaded' = file /\ UNCHANGED outcome
    /\ UNCHANGED <<env, files, commandLine, effective, filter, keyPath, key, warned,
                   request, shown, versions, exposed>>

\* config::resolve and logging::init, each with its own view of the sources.
ResolveConfig ==
    /\ pc = "loaded"
    /\ LET config == Resolve(commandLine, loaded)
       IN  IF ResolveError(config) # NoError
           THEN Exit(ResolveError(config)) /\ UNCHANGED <<effective, filter>>
           ELSE /\ pc' = "resolved"
                /\ effective' = config
                /\ filter' = LogFilter(commandLine.log_level, InFile(loaded, "log_level"))
                /\ UNCHANGED outcome
    /\ UNCHANGED <<env, files, commandLine, loaded, keyPath, key, warned, request, shown,
                   versions, exposed>>

\* Mutant of ReadKeyFile: the config file is consulted again.
ReadKeyFileReloaded ==
    /\ pc = "resolved"
    /\ LET path == KeyFileOpened(commandLine, configFiles[ConfigPath(commandLine)])
       IN  /\ path # Unset
           /\ IF keyFiles[path].kind # "key"
              THEN Exit("ReadFailed") /\ UNCHANGED <<keyPath, key, exposed>>
              ELSE /\ pc' = "keyed"
                   /\ keyPath' = path
                   /\ key' = keyFiles[path].key
                   /\ exposed' = (keyFiles[path].mode # "private")
                   /\ UNCHANGED outcome
    /\ UNCHANGED <<env, files, commandLine, loaded, effective, filter, warned, request,
                   shown, versions>>

\* read_key_file.
ReadKeyFile ==
    /\ pc = "resolved"
    /\ LET path == KeyFileOpened(commandLine, loaded)
       IN  /\ path # Unset
           /\ IF keyFiles[path].kind # "key"
              THEN /\ Exit(IF keyFiles[path].kind = "blank" THEN "EmptyFile" ELSE "ReadFailed")
                   /\ UNCHANGED <<keyPath, key, exposed>>
              ELSE /\ pc' = "keyed"
                   /\ keyPath' = path
                   /\ key' = keyFiles[path].key
                   /\ exposed' = (keyFiles[path].mode # "private")
                   /\ UNCHANGED outcome
    /\ UNCHANGED <<env, files, commandLine, loaded, effective, filter, warned, request,
                   shown, versions>>

\* No key file is named above the raw key.
TakeRawKey ==
    /\ pc = "resolved"
    /\ KeyFileOpened(commandLine, loaded) = Unset
    /\ IF Significant(env.api_key)
       THEN pc' = "ready" /\ key' = env.api_key /\ UNCHANGED outcome
       ELSE Exit("NotProvided") /\ UNCHANGED key
    /\ UNCHANGED <<env, files, commandLine, loaded, effective, filter, keyPath, warned,
                   request, shown, versions, exposed>>

ReadableByOthers(file) == file.kind # "missing" /\ file.mode # "private"

\* Mutant of WarnIfReadable: the mask leaves the group out.
WarnIfWorldReadable ==
    /\ pc = "keyed"
    /\ warned' = (keyFiles[keyPath].kind # "missing" /\ keyFiles[keyPath].mode = "world")
    /\ pc' = "ready"
    /\ UNCHANGED <<env, files, commandLine, loaded, effective, filter, keyPath, key, request,
                   outcome, shown, versions, exposed>>

\* warn_if_world_readable: the mode of whatever is at the path by now.
WarnIfReadable ==
    /\ pc = "keyed"
    /\ warned' = ReadableByOthers(keyFiles[keyPath])
    /\ pc' = "ready"
    /\ UNCHANGED <<env, files, commandLine, loaded, effective, filter, keyPath, key, request,
                   outcome, shown, versions, exposed>>

\* The builder prefers base_url.
Target(config) == IF config.base_url # Unset THEN config.base_url ELSE config.host

\* ProtectClientBuilder::build, after main has looked for a target.
BuildError(config, apiKey) ==
    IF Target(config) = Unset THEN "NoTarget"
    ELSE IF Target(config) \in NotUrls THEN "InvalidUrl"
    ELSE IF apiKey \in NotHeaders THEN "InvalidHeader"
    ELSE NoError

\* The client is built and the command dispatched.
Send ==
    /\ pc = "ready"
    /\ IF BuildError(effective, key) # NoError
       THEN Exit(BuildError(effective, key)) /\ UNCHANGED request
       ELSE /\ Exit("sent")
            /\ request' = [to |-> Target(effective), key |-> key,
                           insecure |-> effective.insecure, json |-> effective.json]
    /\ UNCHANGED <<env, files, commandLine, loaded, effective, filter, keyPath, key, warned,
                   shown, versions, exposed>>

-----------------------------------------------------------------------------
\* The user saves or removes a config file; an editor replaces it as a whole.
EditConfig(path, file) ==
    /\ edits < MaxEdits
    /\ edits' = edits + 1
    /\ configFiles' = [configFiles EXCEPT ![path] = file]
    /\ versions' = IF pc # "shell" /\ path = ConfigPath(commandLine)
                   THEN versions \cup {file} ELSE versions
    /\ UNCHANGED <<env, keyFiles, commandLine, pc, loaded, effective, filter, keyPath, key,
                   warned, request, outcome, shown, exposed>>

\* The user replaces, removes or changes the mode of a key file.
EditKey(path, file) ==
    /\ edits < MaxEdits
    /\ edits' = edits + 1
    /\ keyFiles' = [keyFiles EXCEPT ![path] = file]
    /\ exposed' = (exposed /\ (path # keyPath \/ ReadableByOthers(file)))
    /\ UNCHANGED <<env, configFiles, commandLine, pc, loaded, effective, filter, keyPath, key,
                   warned, request, outcome, shown, versions>>

Invocation ==
    \/ ShowConfig \/ PrintPath
    \/ LoadConfig \/ ResolveConfig \/ ReadKeyFile \/ TakeRawKey \/ WarnIfReadable \/ Send

Next ==
    \/ \E line \in CommandLines : Start(line)
    \/ Invocation
    \/ \E path \in ConfigPaths, file \in ConfigContents : EditConfig(path, file)
    \/ \E path \in KeyPaths, file \in KeyContents : EditKey(path, file)

Spec == Init /\ [][Next]_vars

-----------------------------------------------------------------------------
\* Whatever is edited while a command starts, all it does follows from its
\* flags, the environment and one version of the config file: no request goes
\* to the host of one version with the key of another.
OneVersionUsed ==
    outcome = "sent" =>
        \E file \in versions :
            LET config == Resolve(commandLine, file)
            IN  /\ request.to = Target(config)
                /\ request.insecure = config.insecure
                /\ request.json = config.json
                /\ keyPath = KeyFileOpened(commandLine, file)
                /\ filter = LogFilter(commandLine.log_level, InFile(file, "log_level"))

\* What `config show` printed is what a later command without flags does if the
\* file has not changed.  The key file and the log level are worked out twice,
\* by `resolve` and by api_key and logging, and the two agree -- unless a raw
\* key or a log filter in the environment decides.
ShownIsUsed ==
    (/\ outcome = "sent"
     /\ shown # NothingShown /\ shown.file = loaded
     /\ \A flag \in DOMAIN NoFlags \ {"config"} : commandLine[flag] = Unset)
    => /\ request.to = Target(shown.rows)
       /\ request.insecure = shown.rows.insecure
       /\ request.json = shown.rows.json
       /\ keyPath # Unset => keyPath = shown.rows.api_key_file
       /\ (env.app_log = Unset /\ env.rust_log = Unset) => filter = shown.rows.log_level

Given(field) ==
    commandLine[field] # Unset \/ Significant(env[field]) \/ InFile(loaded, field) # Unset

\* host and base_url exclude each other across flags, environment and file: no
\* request goes out that one of them was silently dropped from.
ConflictRefused == outcome = "sent" => ~ (Given("host") /\ Given("base_url"))

\* If others could read the key file from the time it was read, the user has
\* been warned when the request goes out.
LaxKeyWarned == (outcome = "sent" /\ exposed) => warned

\* A config file that was asked for by name has been used: a command never goes
\* on with defaults in its place, also if the file is removed meanwhile.
NamedFileUsed == (outcome = "sent" /\ Authoritative(commandLine)) => loaded.kind = "toml"
=============================================================================
