------------------------------ MODULE MCCliRun ------------------------------
(***************************************************************************)
(* CliRun for TLC: a few command lines, environments and files, chosen so  *)
(* that every setting comes from every source, and that sources conflict.  *)
(***************************************************************************)
EXTENDS CliRun, TLC

Request == [command |-> "request"] @@ NoFlags

MCCommandLines ==
    {Request,
     [Request EXCEPT !.config = "named"],
     [Request EXCEPT !.host = "flag-host", !.api_key_file = "k2"],
     [Request EXCEPT !.insecure = "true", !.json = "false", !.log_level = "trace"],
     [Request EXCEPT !.command = "show"],
     [Request EXCEPT !.command = "show", !.config = "named"],
     [Request EXCEPT !.command = "path"]}

Empty == [config |-> Unset, host |-> Unset, base_url |-> Unset, api_key_file |-> Unset,
          api_key |-> Unset, insecure |-> Unset, json |-> Unset, app_log |-> Unset,
          rust_log |-> Unset]

MCEnvironments ==
    {Empty,
     [Empty EXCEPT !.config = "named", !.rust_log = "info"],
     [Empty EXCEPT !.base_url = "env-url", !.api_key_file = "k2", !.json = "yes"],
     [Empty EXCEPT !.api_key = "raw", !.insecure = "1", !.app_log = Blank],
     [Empty EXCEPT !.json = "tru"],
     [f \in DOMAIN Empty |-> IF f \in {"app_log", "rust_log"} THEN Unset ELSE Blank]}

NoSettings == [kind |-> "toml", host |-> Unset, base_url |-> Unset, api_key_file |-> Unset,
               insecure |-> Unset, json |-> Unset, log_level |-> Unset]

HostProfile == [NoSettings EXCEPT !.host = "file-host", !.api_key_file = "k1",
                                  !.insecure = "true", !.log_level = "debug"]

UrlProfile == [NoSettings EXCEPT !.base_url = "file-url", !.api_key_file = "k2",
                                 !.json = "true"]

MCConfigContents ==
    {Missing, [kind |-> "directory"], [kind |-> "garbage"], NoSettings, HostProfile,
     UrlProfile, [UrlProfile EXCEPT !.host = "file-host"],
     [HostProfile EXCEPT !.host = Blank], [UrlProfile EXCEPT !.base_url = "no-url"]}

KeyFile(k, mode) == [kind |-> "key", key |-> k, mode |-> mode]

MCKeyContents ==
    {Missing, [kind |-> "blank", mode |-> "private"], KeyFile("key", "private"),
     KeyFile("key", "group"), KeyFile("key", "world"), KeyFile("no-header", "private")}

\* The session starts with files that a user may well have.
MCInit ==
    /\ Init
    /\ configFiles = [p \in ConfigPaths |-> IF p = XdgDefault THEN HostProfile ELSE UrlProfile]
    /\ keyFiles = [p \in KeyPaths |-> KeyFile("key", IF p = "k1" THEN "group" ELSE "private")]
    /\ commandLine = Request

MCSpec == MCInit /\ [][Next]_vars
=============================================================================
