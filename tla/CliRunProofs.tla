---------------------------- MODULE CliRunProofs ----------------------------
(***************************************************************************)
(* What CliRun's invocations do follows from one version of the config     *)
(* file, for every command line, environment and content of the files, and *)
(* for any number of changes while they run.                               *)
(***************************************************************************)
EXTENDS CliRun, TLAPS

Sent == outcome = "sent"
HasLoaded   == pc \in {"loaded", "resolved", "keyed", "ready"} \/ Sent
HasResolved == pc \in {"resolved", "keyed", "ready"} \/ Sent
HasKey      == pc \in {"keyed", "ready"} \/ Sent

\* The files are where the commands look for them.
FilesOK ==
    /\ env \in Environments
    /\ pc # "shell" => commandLine \in CommandLines
    /\ configFiles \in [ConfigPaths -> ConfigContents]
    /\ keyFiles \in [KeyPaths -> KeyContents]

\* What the config path holds is one of the versions.
StartedOK == pc = "started" => configFiles[ConfigPath(commandLine)] \in versions

\* Every step of a command works on what the steps before it left behind.
LoadedOK ==
    HasLoaded => /\ loaded \in versions
                 /\ loaded \in ConfigContents
                 /\ LoadError(loaded, Authoritative(commandLine)) = NoError

ResolvedOK ==
    HasResolved => /\ effective = Resolve(commandLine, loaded)
                   /\ ResolveError(effective) = NoError
                   /\ filter = LogFilter(commandLine.log_level, InFile(loaded, "log_level"))

KeyOK ==
    /\ pc \in {"started", "loaded", "resolved"} => keyPath = Unset /\ ~ exposed
    /\ HasKey => keyPath = KeyFileOpened(commandLine, loaded)
    /\ pc = "keyed" => keyPath \in KeyPaths
    /\ pc = "keyed" /\ exposed => ReadableByOthers(keyFiles[keyPath])
    /\ (pc = "ready" \/ Sent) /\ exposed => warned

RequestOK ==
    Sent => request = [to |-> Target(effective), key |-> key,
                       insecure |-> effective.insecure, json |-> effective.json]

ShownOK == shown # NothingShown => shown.rows = Resolve(NoFlags, shown.file)

RunningOK == pc # "shell" => outcome = "running"

IInv ==
    /\ FilesOK /\ StartedOK /\ LoadedOK /\ ResolvedOK /\ KeyOK
    /\ RequestOK /\ ShownOK /\ RunningOK

LEMMA InitIInv == Init => IInv
BY DEF Init, IInv, FilesOK, StartedOK, LoadedOK, ResolvedOK, KeyOK, RequestOK, ShownOK, RunningOK,
       HasLoaded, HasResolved, HasKey, Sent, NoError, NothingShown, Unset

\* What the environment, the command line and the file determine stays the
\* same while they do.
LEMMA Determined ==
    ASSUME UNCHANGED <<env, commandLine, loaded>>
    PROVE  /\ Authoritative(commandLine)' = Authoritative(commandLine)
           /\ LoadError(loaded, Authoritative(commandLine))'
                 = LoadError(loaded, Authoritative(commandLine))
           /\ Resolve(commandLine, loaded)' = Resolve(commandLine, loaded)
           /\ LogFilter(commandLine.log_level, InFile(loaded, "log_level"))'
                 = LogFilter(commandLine.log_level, InFile(loaded, "log_level"))
           /\ KeyFileOpened(commandLine, loaded)' = KeyFileOpened(commandLine, loaded)
<1>1. Authoritative(commandLine)' = Authoritative(commandLine)
  BY DEF Authoritative, Significant
<1>2. LoadError(loaded, Authoritative(commandLine))' = LoadError(loaded, Authoritative(commandLine))
  BY <1>1 DEF LoadError, ValidationError
<1>3. Resolve(commandLine, loaded)' = Resolve(commandLine, loaded)
  BY DEF Resolve, ResolveString, ResolveBool, ResolveLevel, InFile, Significant, ParseBoolish
<1>4. LogFilter(commandLine.log_level, InFile(loaded, "log_level"))'
        = LogFilter(commandLine.log_level, InFile(loaded, "log_level"))
  BY DEF LogFilter, InFile, ParseFilters
<1>5. KeyFileOpened(commandLine, loaded)' = KeyFileOpened(commandLine, loaded)
  BY DEF KeyFileOpened, InFile, Significant
<1>6. QED
  BY <1>1, <1>2, <1>3, <1>4, <1>5

LEMMA PathFound ==
    ASSUME FilesOK, commandLine \in CommandLines
    PROVE  configFiles[ConfigPath(commandLine)] \in ConfigContents
BY CliRunAssumption DEF FilesOK, ConfigPath, Significant, XdgDefault, Unset, Blank

\* A file that was loaded names a key file that exists as a path, or none.
LEMMA KeyPathFound ==
    ASSUME FilesOK, LoadedOK, HasLoaded, commandLine \in CommandLines,
           KeyFileOpened(commandLine, loaded) # Unset
    PROVE  KeyFileOpened(commandLine, loaded) \in KeyPaths
<1>1. /\ commandLine.api_key_file \in KeyPaths \cup {Unset}
      /\ env.api_key_file \in KeyPaths \cup {Unset, Blank}
  BY CliRunAssumption DEF FilesOK
<1>2. CASE loaded.kind = "toml"
  <2>1. ValidationError(loaded) = NoError
    BY <1>2 DEF LoadedOK, LoadError
  <2>2. loaded.api_key_file # Blank
    BY <2>1 DEF ValidationError, NoError
  <2>3. loaded.api_key_file \in KeyPaths \cup {Unset, Blank}
    BY <1>2, CliRunAssumption DEF LoadedOK
  <2>4. QED
    BY <1>1, <2>2, <2>3 DEF KeyFileOpened, InFile, Significant
<1>3. CASE loaded.kind # "toml"
  BY <1>1, <1>3 DEF KeyFileOpened, InFile, Significant
<1>4. QED
  BY <1>2, <1>3

-----------------------------------------------------------------------------
\* Results that end a command without a request claim nothing of its steps.
LEMMA Failed ==
    ASSUME IInv, NEW result, result # "sent", pc' = "shell", outcome' = result,
           UNCHANGED <<env, files, commandLine, shown>>
    PROVE  IInv'
<1>1. ShownOK'
  BY DEF IInv, ShownOK, Resolve, ResolveString, ResolveBool, ResolveLevel, InFile,
         Significant, ParseBoolish
<1>2. QED
  BY <1>1 DEF files, IInv, FilesOK, StartedOK, LoadedOK, ResolvedOK, KeyOK, RequestOK, RunningOK,
              HasLoaded, HasResolved, HasKey, Sent

LEMMA NotSent ==
    ASSUME NEW file, NEW named, NEW config
    PROVE  LoadError(file, named) # "sent" /\ ResolveError(config) # "sent"
BY DEF LoadError, ValidationError, ResolveError, NoError

LEMMA StartStep == ASSUME IInv, NEW line \in CommandLines, Start(line) PROVE IInv'
BY DEF Start, ConfigPath, files, IInv, FilesOK, StartedOK, LoadedOK, ResolvedOK, KeyOK, RequestOK, ShownOK,
       RunningOK, HasLoaded, HasResolved, HasKey, Sent, Resolve, ResolveString, ResolveBool,
       ResolveLevel, InFile, Significant, ParseBoolish

LEMMA ShowConfigStep == ASSUME IInv, ShowConfig PROVE IInv'
<1> DEFINE file  == configFiles[ConfigPath(commandLine)]
           rows  == Resolve(NoFlags, file)
           named == Authoritative(commandLine)
<1>1. CASE UNCHANGED shown
  <2>1. PICK result : pc' = "shell" /\ outcome' = result /\ result # "sent"
    BY NotSent DEF ShowConfig, Exit
  <2>2. QED
    BY <1>1, <2>1, Failed DEF ShowConfig, Keyless
<1>2. CASE Exit("shown") /\ shown' = [file |-> file, rows |-> rows]
  <2>1. UNCHANGED <<env, files, commandLine>>
    BY DEF ShowConfig, Keyless
  <2>2. ShownOK'
    BY <1>2, <2>1 DEF ShownOK, Resolve, ResolveString, ResolveBool, ResolveLevel, InFile,
                      Significant, ParseBoolish
  <2>3. QED
    BY <1>2, <2>1, <2>2 DEF Exit, files, IInv, FilesOK, StartedOK, LoadedOK, ResolvedOK, KeyOK,
                            RequestOK, RunningOK, HasLoaded, HasResolved, HasKey, Sent
<1>3. QED
  BY <1>1, <1>2 DEF ShowConfig

LEMMA PrintPathStep == ASSUME IInv, PrintPath PROVE IInv'
<1>1. PICK result \in {"NoConfigFile", "printed"} : pc' = "shell" /\ outcome' = result
  BY DEF PrintPath, Exit
<1>2. QED
  BY <1>1, Failed DEF PrintPath, Keyless

LEMMA LoadConfigStep == ASSUME IInv, LoadConfig PROVE IInv'
<1> DEFINE file  == configFiles[ConfigPath(commandLine)]
           named == Authoritative(commandLine)
<1>1. UNCHANGED <<env, files, commandLine, keyPath, request, shown, versions, exposed>>
  BY DEF LoadConfig
<1>2. CASE LoadError(file, named) # NoError
  BY <1>1, <1>2, NotSent, Failed DEF LoadConfig, Exit
<1>3. CASE LoadError(file, named) = NoError
  <2>1. pc = "started" /\ pc' = "loaded" /\ loaded' = file /\ outcome' = outcome
    BY <1>3 DEF LoadConfig
  <2>2. outcome = "running" /\ commandLine \in CommandLines
    BY <2>1 DEF IInv, RunningOK, FilesOK
  <2>3. file \in ConfigContents
    BY <2>2, PathFound DEF IInv
  <2>4. file \in versions
    BY <2>1 DEF IInv, StartedOK
  <2>5. LoadedOK'
    BY <1>1, <1>3, <2>1, <2>3, <2>4
       DEF LoadedOK, LoadError, ValidationError, Authoritative, Significant
  <2>6. ShownOK'
    BY <1>1 DEF IInv, ShownOK, Resolve, ResolveString, ResolveBool, ResolveLevel, InFile,
                Significant, ParseBoolish
  <2>7. QED
    BY <1>1, <2>1, <2>2, <2>5, <2>6
       DEF files, IInv, FilesOK, StartedOK, ResolvedOK, KeyOK, RequestOK, RunningOK,
           HasResolved, HasKey, Sent
<1>4. QED
  BY <1>2, <1>3

\* The steps after the file has been loaded.
LEMMA Kept ==
    ASSUME IInv, HasLoaded, pc # "shell", UNCHANGED <<env, files, commandLine, loaded, shown, versions>>,
           pc' \in {"resolved", "keyed", "ready", "shell"}
    PROVE  /\ FilesOK' /\ StartedOK' /\ LoadedOK' /\ ShownOK'
           /\ commandLine \in CommandLines /\ outcome = "running"
<1>1. LoadedOK'
  BY Determined DEF IInv, LoadedOK
<1>2. ShownOK'
  BY DEF IInv, ShownOK, Resolve, ResolveString, ResolveBool, ResolveLevel, InFile,
         Significant, ParseBoolish
<1>3. QED
  BY <1>1, <1>2 DEF files, IInv, FilesOK, StartedOK, RunningOK

LEMMA ResolveConfigStep == ASSUME IInv, ResolveConfig PROVE IInv'
<1> DEFINE config == Resolve(commandLine, loaded)
<1>1. UNCHANGED <<env, files, commandLine, loaded, keyPath, request, shown, versions, exposed>>
  BY DEF ResolveConfig
<1>2. CASE ResolveError(config) # NoError
  BY <1>1, <1>2, NotSent, Failed DEF ResolveConfig, Exit
<1>3. CASE ResolveError(config) = NoError
  <2>1. /\ pc = "loaded" /\ pc' = "resolved" /\ outcome' = outcome /\ effective' = config
        /\ filter' = LogFilter(commandLine.log_level, InFile(loaded, "log_level"))
    BY <1>3 DEF ResolveConfig
  <2>2. FilesOK' /\ StartedOK' /\ LoadedOK' /\ ShownOK' /\ outcome = "running"
    BY <1>1, <2>1, Kept DEF HasLoaded
  <2>3. ResolvedOK'
    BY <1>1, <1>3, <2>1, Determined DEF ResolvedOK, ResolveError
  <2>4. QED
    BY <1>1, <2>1, <2>2, <2>3 DEF IInv, KeyOK, RequestOK, RunningOK, HasKey, Sent
<1>4. QED
  BY <1>2, <1>3

LEMMA ReadKeyFileStep == ASSUME IInv, ReadKeyFile PROVE IInv'
<1> DEFINE path == KeyFileOpened(commandLine, loaded)
<1>1. /\ UNCHANGED <<env, files, commandLine, loaded, effective, filter, request, shown, versions>>
      /\ path # Unset /\ pc = "resolved"
  BY DEF ReadKeyFile
<1>2. CASE keyFiles[path].kind # "key"
  <2>1. PICK result \in {"EmptyFile", "ReadFailed"} : pc' = "shell" /\ outcome' = result
    BY <1>2 DEF ReadKeyFile, Exit
  <2>2. QED
    BY <1>1, <2>1, Failed
<1>3. CASE keyFiles[path].kind = "key"
  <2>1. /\ pc' = "keyed" /\ keyPath' = path /\ outcome' = outcome
        /\ exposed' = (keyFiles[path].mode # "private")
    BY <1>3 DEF ReadKeyFile
  <2>2. FilesOK' /\ StartedOK' /\ LoadedOK' /\ ShownOK' /\ outcome = "running"
    BY <1>1, <2>1, Kept DEF HasLoaded
  <2>3. ResolvedOK'
    BY <1>1, <2>1, Determined DEF IInv, ResolvedOK, HasResolved, ResolveError
  <2>4. path \in KeyPaths
    BY <1>1, Kept, KeyPathFound DEF IInv, HasLoaded, FilesOK
  <2>5. KeyOK'
    BY <1>1, <1>3, <2>1, <2>2, <2>4, Determined DEF files, KeyOK, ReadableByOthers, Sent
  <2>6. QED
    BY <1>1, <2>1, <2>2, <2>3, <2>5 DEF IInv, RequestOK, RunningOK, Sent
<1>4. QED
  BY <1>2, <1>3

LEMMA TakeRawKeyStep == ASSUME IInv, TakeRawKey PROVE IInv'
<1>1. /\ UNCHANGED <<env, files, commandLine, loaded, effective, filter, keyPath, warned, request,
                     shown, versions, exposed>>
      /\ KeyFileOpened(commandLine, loaded) = Unset /\ pc = "resolved"
  BY DEF TakeRawKey
<1>2. CASE pc' = "shell" /\ outcome' = "NotProvided"
  BY <1>1, <1>2, Failed
<1>3. CASE pc' = "ready" /\ outcome' = outcome
  <2>1. FilesOK' /\ StartedOK' /\ LoadedOK' /\ ShownOK' /\ outcome = "running"
    BY <1>1, <1>3, Kept DEF HasLoaded
  <2>2. ResolvedOK'
    BY <1>1, <1>3, Determined DEF IInv, ResolvedOK, HasResolved, ResolveError
  <2>3. KeyOK'
    BY <1>1, <1>3, <2>1, Determined DEF IInv, KeyOK, Sent
  <2>4. QED
    BY <1>1, <1>3, <2>1, <2>2, <2>3 DEF IInv, RequestOK, RunningOK, Sent
<1>4. QED
  BY <1>2, <1>3 DEF TakeRawKey, Exit

LEMMA WarnIfReadableStep == ASSUME IInv, WarnIfReadable PROVE IInv'
<1>1. /\ UNCHANGED <<env, files, commandLine, loaded, effective, filter, keyPath, request, outcome,
                     shown, versions, exposed>>
      /\ pc = "keyed" /\ pc' = "ready" /\ warned' = ReadableByOthers(keyFiles[keyPath])
  BY DEF WarnIfReadable
<1>2. FilesOK' /\ StartedOK' /\ LoadedOK' /\ ShownOK' /\ outcome = "running"
  BY <1>1, Kept DEF HasLoaded
<1>3. ResolvedOK'
  BY <1>1, Determined DEF IInv, ResolvedOK, HasResolved, ResolveError
<1>4. KeyOK'
  BY <1>1, <1>2, Determined DEF IInv, KeyOK, HasKey, Sent
<1>5. QED
  BY <1>1, <1>2, <1>3, <1>4 DEF IInv, RequestOK, RunningOK, Sent

LEMMA SendStep == ASSUME IInv, Send PROVE IInv'
<1>1. /\ UNCHANGED <<env, files, commandLine, loaded, effective, filter, keyPath, key, warned, shown,
                     versions, exposed>>
      /\ pc = "ready" /\ pc' = "shell"
  BY DEF Send, Exit
<1>2. CASE outcome' = BuildError(effective, key) /\ BuildError(effective, key) # NoError
  <2>1. BuildError(effective, key) # "sent"
    BY DEF BuildError, NoError
  <2> QED BY <1>1, <1>2, <2>1, Failed
<1>3. CASE /\ outcome' = "sent"
           /\ request' = [to |-> Target(effective), key |-> key,
                          insecure |-> effective.insecure, json |-> effective.json]
  <2>1. FilesOK' /\ StartedOK' /\ LoadedOK' /\ ShownOK'
    BY <1>1, Kept DEF HasLoaded
  <2>2. ResolvedOK'
    BY <1>1, Determined DEF IInv, ResolvedOK, HasResolved, ResolveError
  <2>3. KeyOK'
    BY <1>1, Determined DEF IInv, KeyOK, HasKey
  <2>4. RequestOK'
    BY <1>1, <1>3 DEF RequestOK, Target
  <2>5. QED
    BY <1>1, <2>1, <2>2, <2>3, <2>4 DEF IInv, RunningOK
<1>4. QED
  BY <1>2, <1>3 DEF Send, Exit

-----------------------------------------------------------------------------
\* The user's changes: the version that is there is recorded, and a key file
\* that was exposed is still exposed, or no longer counts as such.
LEMMA EditConfigStep ==
    ASSUME IInv, NEW path \in ConfigPaths, NEW file \in ConfigContents, EditConfig(path, file)
    PROVE  IInv'
<1>1. UNCHANGED <<env, keyFiles, commandLine, pc, loaded, effective, filter, keyPath, key, warned,
                  request, outcome, shown, exposed>>
  BY DEF EditConfig
<1>2. FilesOK'
  BY <1>1 DEF EditConfig, IInv, FilesOK
<1>3. StartedOK'
  BY <1>1 DEF EditConfig, IInv, FilesOK, StartedOK, ConfigPath, Significant
<1>4. LoadedOK'
  BY <1>1, Determined DEF EditConfig, IInv, LoadedOK, HasLoaded, Sent
<1>5. ResolvedOK'
  BY <1>1, Determined DEF IInv, ResolvedOK, HasResolved, Sent, ResolveError
<1>6. KeyOK'
  BY <1>1, Determined DEF IInv, KeyOK, HasKey, Sent, ReadableByOthers
<1>7. ShownOK'
  BY <1>1 DEF IInv, ShownOK, Resolve, ResolveString, ResolveBool, ResolveLevel, InFile,
              Significant, ParseBoolish
<1>8. QED
  BY <1>1, <1>2, <1>3, <1>4, <1>5, <1>6, <1>7 DEF IInv, RequestOK, RunningOK, Sent, Target

LEMMA EditKeyStep ==
    ASSUME IInv, NEW path \in KeyPaths, NEW file \in KeyContents, EditKey(path, file)
    PROVE  IInv'
<1>1. UNCHANGED <<env, configFiles, commandLine, pc, loaded, effective, filter, keyPath, key, warned,
                  request, outcome, shown, versions>>
  BY DEF EditKey
<1>2. FilesOK'
  BY <1>1 DEF EditKey, IInv, FilesOK
<1>3. StartedOK'
  BY <1>1 DEF IInv, StartedOK, ConfigPath, Significant
<1>4. LoadedOK'
  BY <1>1, Determined DEF IInv, LoadedOK, HasLoaded, Sent
<1>5. ResolvedOK'
  BY <1>1, Determined DEF IInv, ResolvedOK, HasResolved, Sent, ResolveError
<1>6. KeyOK'
  <2>1. exposed' => exposed /\ (path # keyPath \/ ReadableByOthers(file))
    BY DEF EditKey
  <2>2. keyFiles' = [keyFiles EXCEPT ![path] = file]
    BY DEF EditKey
  <2>3. pc' = "keyed" /\ exposed' => ReadableByOthers(keyFiles[keyPath])'
    BY <1>1, <2>1, <2>2 DEF IInv, FilesOK, KeyOK, ReadableByOthers
  <2>4. KeyFileOpened(commandLine, loaded)' = KeyFileOpened(commandLine, loaded)
    BY <1>1, Determined
  <2>5. QED
    BY <1>1, <2>1, <2>3, <2>4 DEF IInv, KeyOK, HasKey, Sent
<1>7. ShownOK'
  BY <1>1 DEF IInv, ShownOK, Resolve, ResolveString, ResolveBool, ResolveLevel, InFile,
              Significant, ParseBoolish
<1>8. QED
  BY <1>1, <1>2, <1>3, <1>4, <1>5, <1>6, <1>7 DEF IInv, RequestOK, RunningOK, Sent, Target

LEMMA StutterStep == ASSUME IInv, UNCHANGED vars PROVE IInv'
<1>1. LoadedOK' /\ ResolvedOK' /\ KeyOK'
  BY Determined DEF vars, IInv, LoadedOK, ResolvedOK, KeyOK, HasLoaded, HasResolved, HasKey,
                    Sent, ResolveError, files, ReadableByOthers
<1>2. ShownOK'
  BY DEF vars, IInv, ShownOK, Resolve, ResolveString, ResolveBool, ResolveLevel, InFile,
         Significant, ParseBoolish
<1>3. QED
  BY <1>1, <1>2 DEF vars, files, IInv, FilesOK, StartedOK, ConfigPath, Significant, RequestOK,
                    RunningOK, Sent, Target

LEMMA NextIInv == IInv /\ [Next]_vars => IInv'
<1> SUFFICES ASSUME IInv, [Next]_vars PROVE IInv'
  OBVIOUS
<1>1. CASE Invocation
  BY <1>1, ShowConfigStep, PrintPathStep, LoadConfigStep, ResolveConfigStep, ReadKeyFileStep,
     TakeRawKeyStep, WarnIfReadableStep, SendStep DEF Invocation
<1>2. QED
  BY <1>1, StartStep, EditConfigStep, EditKeyStep, StutterStep DEF Next

LEMMA Inductive == Spec => []IInv
BY InitIInv, NextIInv, PTL DEF Spec

-----------------------------------------------------------------------------
\* main::run loads the config file once and hands the result to resolve,
\* logging and api_key: no request mixes two versions of it.
THEOREM OneVersionUsedHolds == Spec => []OneVersionUsed
<1>1. IInv => OneVersionUsed
  <2> SUFFICES ASSUME IInv, Sent PROVE
        LET config == Resolve(commandLine, loaded)
        IN  /\ loaded \in versions
            /\ request.to = Target(config)
            /\ request.insecure = config.insecure
            /\ request.json = config.json
            /\ keyPath = KeyFileOpened(commandLine, loaded)
            /\ filter = LogFilter(commandLine.log_level, InFile(loaded, "log_level"))
    BY DEF OneVersionUsed, Sent
  <2>1. effective = Resolve(commandLine, loaded)
    BY DEF IInv, ResolvedOK, HasResolved
  <2>2. QED
    BY <2>1 DEF IInv, LoadedOK, ResolvedOK, KeyOK, RequestOK, HasLoaded, HasResolved, HasKey
<1>2. QED
  BY <1>1, Inductive, PTL

\* resolve, api_key::resolve and logging::init each walk the sources on their
\* own, and what `config show` prints is what a command then does.
THEOREM ShownIsUsedHolds == Spec => []ShownIsUsed
<1>1. IInv => ShownIsUsed
  <2> SUFFICES ASSUME IInv, Sent, shown # NothingShown, shown.file = loaded,
                      \A flag \in DOMAIN NoFlags \ {"config"} : commandLine[flag] = Unset
               PROVE  /\ request.to = Target(shown.rows)
                      /\ request.insecure = shown.rows.insecure
                      /\ request.json = shown.rows.json
                      /\ keyPath # Unset => keyPath = shown.rows.api_key_file
                      /\ (env.app_log = Unset /\ env.rust_log = Unset)
                            => filter = shown.rows.log_level
    BY DEF ShownIsUsed, Sent
  <2>1. /\ commandLine.host = Unset /\ commandLine.base_url = Unset
        /\ commandLine.api_key_file = Unset /\ commandLine.insecure = Unset
        /\ commandLine.json = Unset /\ commandLine.log_level = Unset
    BY DEF NoFlags
  <2>2. Resolve(commandLine, loaded) = Resolve(NoFlags, loaded)
    BY <2>1 DEF Resolve, NoFlags
  <2>3. effective = shown.rows
    BY <2>2 DEF IInv, ResolvedOK, HasResolved, ShownOK
  <2>4. keyPath # Unset => keyPath = effective.api_key_file
    <3>1. effective.api_key_file
             = ResolveString(Unset, env.api_key_file, InFile(loaded, "api_key_file"))
      BY <2>1 DEF IInv, ResolvedOK, HasResolved, Resolve
    <3>2. keyPath = KeyFileOpened(commandLine, loaded)
      BY DEF IInv, KeyOK, HasKey
    <3>3. QED
      BY <2>1, <3>1, <3>2 DEF KeyFileOpened, ResolveString
  <2>5. (env.app_log = Unset /\ env.rust_log = Unset) => filter = effective.log_level
    <3>1. effective.log_level = ResolveLevel(Unset, InFile(loaded, "log_level"))
      BY <2>1 DEF IInv, ResolvedOK, HasResolved, Resolve
    <3>2. filter = LogFilter(Unset, InFile(loaded, "log_level"))
      BY <2>1 DEF IInv, ResolvedOK, HasResolved
    <3>3. QED
      BY <3>1, <3>2 DEF LogFilter, ResolveLevel
  <2>6. QED
    BY <2>3, <2>4, <2>5 DEF IInv, RequestOK
<1>2. QED
  BY <1>1, Inductive, PTL

\* The check of resolve covers every pair of sources.
THEOREM ConflictRefusedHolds == Spec => []ConflictRefused
<1>1. IInv => ConflictRefused
  <2> SUFFICES ASSUME IInv, Sent PROVE ~ (Given("host") /\ Given("base_url"))
    BY DEF ConflictRefused, Sent
  <2>1. effective = Resolve(commandLine, loaded) /\ ResolveError(effective) = NoError
    BY DEF IInv, ResolvedOK, HasResolved
  <2>2. ~ (effective.host # Unset /\ effective.base_url # Unset)
    BY <2>1 DEF ResolveError, NoError
  <2>3. Given("host") => effective.host # Unset
    BY <2>1 DEF Given, Resolve, ResolveString, Significant
  <2>4. Given("base_url") => effective.base_url # Unset
    BY <2>1 DEF Given, Resolve, ResolveString, Significant
  <2>5. QED
    BY <2>2, <2>3, <2>4
<1>2. QED
  BY <1>1, Inductive, PTL

\* warn_if_world_readable runs after every read of a key file and before the
\* client is built.
THEOREM LaxKeyWarnedHolds == Spec => []LaxKeyWarned
<1>1. IInv => LaxKeyWarned
  BY DEF IInv, KeyOK, LaxKeyWarned, Sent
<1>2. QED
  BY <1>1, Inductive, PTL

\* load turns a missing file that was asked for by name into an error.
THEOREM NamedFileUsedHolds == Spec => []NamedFileUsed
<1>1. IInv => NamedFileUsed
  <2> SUFFICES ASSUME IInv, Sent, Authoritative(commandLine) PROVE loaded.kind = "toml"
    BY DEF NamedFileUsed, Sent
  <2>1. LoadError(loaded, TRUE) = NoError /\ loaded \in ConfigContents
    BY DEF IInv, LoadedOK, HasLoaded
  <2>2. loaded.kind \notin {"missing", "directory", "garbage"}
    BY <2>1 DEF LoadError, NoError
  <2>3. QED
    BY <2>1, <2>2, CliRunAssumption
<1>2. QED
  BY <1>1, Inductive, PTL

-----------------------------------------------------------------------------
\* What gets past ResolveError is a boolean, although the environment's text
\* may be anything.
LEMMA ResolvedTypes ==
    ASSUME NEW line \in CommandLines, NEW file \in ConfigContents,
           ResolveError(Resolve(line, file)) = NoError
    PROVE  /\ Resolve(line, file).insecure \in Bools
           /\ Resolve(line, file).json \in Bools
           /\ Resolve(line, file).log_level \in Levels
<1> DEFINE config == Resolve(line, file)
<1>1. /\ InFile(file, "insecure") \in Bools \cup {Unset}
      /\ InFile(file, "json") \in Bools \cup {Unset}
      /\ InFile(file, "log_level") \in Levels \cup {Unset}
  BY SettingsAssumption DEF InFile
<1>2. /\ line.insecure \in Bools \cup {Unset} /\ line.json \in Bools \cup {Unset}
      /\ line.log_level \in Levels \cup {Unset}
  BY SettingsAssumption
<1>3. /\ config.insecure = ResolveBool(line.insecure, env.insecure, InFile(file, "insecure"))
      /\ config.json = ResolveBool(line.json, env.json, InFile(file, "json"))
      /\ config.log_level = ResolveLevel(line.log_level, InFile(file, "log_level"))
  BY DEF Resolve
<1>4. config.insecure # "unrecognised" /\ config.json # "unrecognised"
  BY DEF ResolveError, NoError
<1>5. ASSUME NEW flag \in Bools \cup {Unset}, NEW value, NEW inFile \in Bools \cup {Unset}
      PROVE  ResolveBool(flag, value, inFile) \in Bools \cup {"unrecognised"}
  BY <1>5 DEF ResolveBool, ParseBoolish, Bools, Unset
<1>6. config.log_level \in Levels
  BY <1>1, <1>2, <1>3 DEF ResolveLevel, Levels
<1> QED
  BY <1>1, <1>2, <1>3, <1>4, <1>5, <1>6

LEMMA ErrorTypes ==
    ASSUME NEW file, NEW named, NEW config
    PROVE  /\ LoadError(file, named) \in Errors \cup {NoError}
           /\ ResolveError(config) \in Errors \cup {NoError}
BY DEF LoadError, ValidationError, ResolveError, Errors, NoError

\* Every step of a command keeps the types.
LEMMA InvocationTypes == ASSUME IInv, TypeOK, Invocation PROVE TypeOK'
<1> USE DEF TypeOK, files
<1>0. commandLine \in CommandLines
  OBVIOUS
<1>1. CASE ShowConfig
  <2>1. configFiles[ConfigPath(commandLine)] \in ConfigContents
    BY <1>0, PathFound DEF IInv
  <2>2. outcome' \in Errors \cup {"shown"} /\ pc' = "shell"
    BY <1>1, ErrorTypes DEF ShowConfig, Exit, Errors, NoError
  <2>3. shown'.file \in ConfigContents
    BY <1>1, <2>1 DEF ShowConfig
  <2> QED BY <1>1, <2>2, <2>3 DEF ShowConfig, Keyless
<1>2. CASE PrintPath
  BY <1>2 DEF PrintPath, Exit, Keyless, Errors
<1>3. CASE LoadConfig
  <2>1. configFiles[ConfigPath(commandLine)] \in ConfigContents
    BY <1>0, PathFound DEF IInv
  <2> QED BY <1>3, <2>1, ErrorTypes DEF LoadConfig, Exit
<1>4. CASE ResolveConfig
  <2>1. /\ effective'.insecure \in Bools /\ effective'.json \in Bools
        /\ effective'.log_level \in Levels
    BY <1>0, <1>4, ResolvedTypes DEF ResolveConfig
  <2> QED BY <1>4, <2>1, ErrorTypes DEF ResolveConfig, Exit
<1>5. CASE ReadKeyFile
  <2>1. LoadedOK /\ HasLoaded
    BY <1>5 DEF IInv, ReadKeyFile, HasLoaded
  <2>2. KeyFileOpened(commandLine, loaded) \in KeyPaths
    BY <1>0, <1>5, <2>1, KeyPathFound DEF IInv, ReadKeyFile
  <2> QED BY <1>5, <2>2 DEF ReadKeyFile, Exit, Errors
<1>6. CASE TakeRawKey
  BY <1>6 DEF TakeRawKey, Exit, Errors
<1>7. CASE WarnIfReadable
  BY <1>7 DEF WarnIfReadable, ReadableByOthers
<1>8. CASE Send
  BY <1>8 DEF Send, Exit, BuildError, Errors, NoError
<1> QED
  BY <1>1, <1>2, <1>3, <1>4, <1>5, <1>6, <1>7, <1>8 DEF Invocation

\* A command starts with fresh settings, and the user only exchanges files.
LEMMA OtherTypes ==
    ASSUME IInv, TypeOK, ~ Invocation, [Next]_vars
    PROVE  TypeOK'
<1> USE DEF TypeOK, files
<1>1. ASSUME NEW line \in CommandLines, Start(line)
      PROVE  TypeOK'
  <2>1. configFiles[ConfigPath(line)] \in ConfigContents
    BY CliRunAssumption DEF ConfigPath, Significant, XdgDefault, Unset, Blank
  <2>2. NotResolved.insecure \in Bools /\ NotResolved.json \in Bools /\ NotResolved.log_level \in Levels
    BY DEF NotResolved, Bools, Levels
  <2> QED BY <1>1, <2>1, <2>2, CliRunAssumption DEF Start
<1>2. ASSUME NEW path \in ConfigPaths, NEW file \in ConfigContents, EditConfig(path, file)
      PROVE  TypeOK'
  BY <1>2, CliRunAssumption DEF EditConfig
<1>3. ASSUME NEW path \in KeyPaths, NEW file \in KeyContents, EditKey(path, file)
      PROVE  TypeOK'
  BY <1>3, CliRunAssumption DEF EditKey, ReadableByOthers
<1>4. CASE UNCHANGED vars
  BY <1>4 DEF vars
<1> QED
  BY <1>1, <1>2, <1>3, <1>4 DEF Next

\* Every variable keeps its type.  It takes what is known of the steps before:
\* that the loaded file has been validated, so that its key file is a path.
THEOREM TypeCorrect == Spec => []TypeOK
<1>1. Init => TypeOK
  <2> SUFFICES ASSUME Init PROVE TypeOK
    OBVIOUS
  <2>1. Missing \in ConfigContents /\ 0 \in 0..MaxEdits
    BY CliRunAssumption
  <2>2. NotResolved.insecure \in Bools /\ NotResolved.json \in Bools /\ NotResolved.log_level \in Levels
    BY DEF NotResolved, Bools, Levels
  <2>3. QED
    BY <2>1, <2>2 DEF Init, TypeOK, NothingShown
<1>2. IInv /\ TypeOK /\ [Next]_vars => TypeOK'
  BY InvocationTypes, OtherTypes
<1>3. QED
  BY <1>1, <1>2, Inductive, PTL DEF Spec
=============================================================================
