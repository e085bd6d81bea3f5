------------------------------- MODULE Config -------------------------------
(***************************************************************************)
(* The configuration file of internal/config and what the commands make of *)
(* it.  A layer is a function from the keys it may hold to their texts;    *)
(* Unset stands for an absent or empty key (and for a nil read_only).  A   *)
(* file is a record of its own layer, default_profile and the profiles'    *)
(* layers, or one of the two failures of readFile.                         *)
(***************************************************************************)
EXTENDS Integers, FiniteSets

CONSTANTS
    Unset,          \* the empty text
    Env,            \* ${VAR} references, to the values they expand to
    Durations       \* the texts time.ParseDuration accepts, to milliseconds

DefaultUsername == "redash-wire"
DefaultPassword == "supersecret"
DefaultPostgresListenAddr == "127.0.0.1:15432"
DefaultMySQLListenAddr == "127.0.0.1:13306"

ASSUME ConfigAssumption ==
    /\ Unset \notin DOMAIN Env /\ Unset \notin DOMAIN Durations
    /\ Unset \notin {DefaultUsername, DefaultPassword, DefaultPostgresListenAddr, DefaultMySQLListenAddr, "true"}
    /\ \A v \in DOMAIN Env : Env[v] \notin DOMAIN Env
    /\ \A d \in DOMAIN Durations : Durations[d] \in Int
    /\ \A d \in {"500ms", "120s"} : d \in DOMAIN Durations /\ Durations[d] > 0

FileKeys == {"postgres_listen_addr", "mysql_listen_addr", "username", "password",
             "poll_interval", "poll_timeout", "read_only"}
ProfileKeys == FileKeys \cup {"redash_url", "api_key"}

Layer(keys) == [k \in keys |-> Unset]

Unreadable == [readable |-> FALSE, parses |-> FALSE]
Unparsable == [readable |-> TRUE, parses |-> FALSE]
FileConfig(top, default, profiles) ==
    [readable |-> TRUE, parses |-> TRUE, top |-> top, default |-> default, profiles |-> profiles]

(* Later layer wins unless unset: overlay and overlayBool, key by key. *)
Overlay(below, above) ==
    [k \in DOMAIN below |-> IF k \in DOMAIN above /\ above[k] # Unset THEN above[k] ELSE below[k]]

Defaults ==
    [Layer(ProfileKeys) EXCEPT !["username"] = DefaultUsername, !["password"] = DefaultPassword,
                               !["poll_interval"] = "500ms", !["poll_timeout"] = "120s"]

ExpandEnv(text) == IF text \in DOMAIN Env THEN Env[text] ELSE text

\* Mutant: every text of the layers is expanded.
ExpandAll(cfg) == [k \in DOMAIN cfg |-> ExpandEnv(cfg[k])]

(* The login is taken literally, so that a $ in it is never mangled.       *)
Expand(cfg) == [cfg EXCEPT !["api_key"] = ExpandEnv(@), !["redash_url"] = ExpandEnv(@)]

Failed(error) == [error |-> {error}]

(* The effective settings of a profile: [profile, cfg], or the error. *)
ResolveProfile(file, profile) ==
    LET name == IF profile = Unset THEN file.default ELSE profile
        layered == Overlay(Overlay(Defaults, file.top), file.profiles[name])
    IN  IF DOMAIN file.profiles = {} THEN Failed("no_profiles")
        ELSE IF name = Unset THEN Failed("no_profile_specified")
        ELSE IF name \notin DOMAIN file.profiles THEN Failed("profile_not_found")
        ELSE [error |-> {}, profile |-> name,
              cfg |-> Expand(layered)]

DurationErrors(cfg, key) ==
    IF cfg[key] \in DOMAIN Durations /\ Durations[cfg[key]] > 0 THEN {} ELSE {key}

Validate(cfg) ==
    {k \in {"redash_url", "api_key", "username", "password"} : cfg[k] = Unset}
    \cup {e \in {"no_listeners"} : cfg["postgres_listen_addr"] = Unset /\ cfg["mysql_listen_addr"] = Unset}
    \cup DurationErrors(cfg, "poll_interval") \cup DurationErrors(cfg, "poll_timeout")

ReadFailure(file) == Failed(IF file.readable THEN "parsing" ELSE "reading")

Load(file, profile) ==
    IF ~file.parses THEN ReadFailure(file)
    ELSE LET resolved == ResolveProfile(file, profile)
         IN  IF resolved.error # {} THEN resolved
             ELSE IF Validate(resolved.cfg) # {} THEN [error |-> Validate(resolved.cfg)]
             ELSE resolved

LoadAll(file) ==
    IF ~file.parses THEN ReadFailure(file)
    ELSE IF DOMAIN file.profiles = {} THEN Failed("no_profiles")
    ELSE IF file.default # Unset /\ file.default \notin DOMAIN file.profiles THEN Failed("default_not_found")
    ELSE [error |-> {}, default |-> file.default,
          profiles |-> [p \in DOMAIN file.profiles |->
              LET resolved == ResolveProfile(file, p)
              IN  IF resolved.error # {} THEN resolved
                  ELSE [resolved EXCEPT !.error = Validate(resolved.cfg)]]]

PollDuration(cfg, key, fallback) ==
    IF cfg[key] \in DOMAIN Durations THEN Durations[cfg[key]] ELSE fallback
GetPollInterval(cfg) == PollDuration(cfg, "poll_interval", 500)
GetPollTimeout(cfg) == PollDuration(cfg, "poll_timeout", 120000)

(* The one-profile file that init and the wizard write.  An empty username *)
(* or password leaves no key behind (omitempty).                           *)
NewFileConfig(a, hasPostgres, hasMySQL) ==
    LET postgres == hasPostgres \/ ~hasMySQL
        profile == [Layer(ProfileKeys) EXCEPT !["redash_url"] = a.url, !["api_key"] = a.key,
                                              !["read_only"] = IF a.readOnly THEN "true" ELSE Unset]
        top == [Layer(FileKeys) EXCEPT
                    !["username"] = a.username, !["password"] = a.password,
                    !["poll_interval"] = "500ms", !["poll_timeout"] = "120s",
                    !["postgres_listen_addr"] = IF postgres THEN DefaultPostgresListenAddr ELSE Unset,
                    !["mysql_listen_addr"] = IF hasMySQL THEN DefaultMySQLListenAddr ELSE Unset]
    IN  FileConfig(top, a.profile, [p \in {a.profile} |-> profile])

(* Where a command looks: -config and nothing else, or ./config.yaml before *)
(* the one in the home directory.  present holds the places with a file.   *)
Resolve(explicit, present) ==
    IF explicit THEN [place |-> "flag", found |-> "flag" \in present]
    ELSE IF "cwd" \in present THEN [place |-> "cwd", found |-> TRUE]
    ELSE [place |-> "home", found |-> "home" \in present]
=============================================================================
