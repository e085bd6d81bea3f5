------------------------------- MODULE Setup --------------------------------
(***************************************************************************)
(* First setups and starts, run by several processes at once over one      *)
(* directory tree: "init" is redash-wire init, "serve" is redash-wire with *)
(* its wizard.  A file is put in place by linking a finished temporary     *)
(* file; any system call may fail and any process may die between two.     *)
(***************************************************************************)
EXTENDS Config

CONSTANTS
    Commands,       \* the processes
    Answers,        \* what a user enters: profile, url, key, username, password, readOnly
    NoRequest,      \* no answers yet
    Flags,          \* the -profile flags, Unset among them
    HandFile        \* a file somebody wrote by hand

Places == {"flag", "cwd", "home"}
Hand == "hand"
Absent == "absent"

\* init and the wizard name an unnamed profile, and insist on a URL and a key.
ASSUME SetupAssumption ==
    /\ Commands \cap {Absent, Hand} = {}
    /\ \A a \in Answers : Unset \notin {a.profile, a.url, a.key}

VARIABLES
    files,      \* [Places -> who wrote the file there: Absent, Hand or a command]
    kind,       \* [Commands -> {"init", "serve"}]
    explicit,   \* [Commands -> BOOLEAN], whether -config is given
    pc,         \* [Commands -> the next step]
    place,      \* [Commands -> the place resolved]
    wanted,     \* [Commands -> the profile to load]
    asked,      \* [Commands -> the answers it was given, and the listeners they enable]
    temp,       \* [Commands -> its temporary file: "none", "empty", "partial", "whole"]
    named,      \* the commands whose temporary name still exists
    result      \* [Commands -> outcome: "none", "ok" or the failure]

vars == <<files, kind, explicit, pc, place, wanted, asked, temp, named, result>>

Present == {p \in Places : files[p] # Absent}

(* At least one listener is always enabled. *)
Requests == {r \in [answer : Answers, postgres : BOOLEAN, mysql : BOOLEAN] : r.postgres \/ r.mysql}

(* What a command writes. *)
Written(c) == NewFileConfig(asked[c].answer, asked[c].postgres, asked[c].mysql)

(* What readFile finds at a place. *)
Contents(p) ==
    IF files[p] = Absent THEN Unreadable
    ELSE IF files[p] = Hand THEN HandFile
    ELSE IF temp[files[p]] = "whole" THEN Written(files[p]) ELSE Unparsable

Init ==
    /\ files \in [Places -> {Absent, Hand}]
    /\ kind \in [Commands -> {"init", "serve"}]
    /\ explicit \in [Commands -> BOOLEAN]
    /\ pc = [c \in Commands |-> "start"]
    /\ place = [c \in Commands |-> "home"]
    /\ wanted \in [Commands -> Flags]
    /\ asked = [c \in Commands |-> NoRequest]
    /\ temp = [c \in Commands |-> "none"]
    /\ named = {}
    /\ result = [c \in Commands |-> "none"]

world == <<files, kind, explicit>>

Goto(c, step) == pc' = [pc EXCEPT ![c] = step]
End(c, r) == Goto(c, "done") /\ result' = [result EXCEPT ![c] = r]

(* initTarget: the flag or the home directory, and it has to be free: a    *)
(* directory, or a path that cannot be looked at, is an error of its own.  *)
InitTarget(c) ==
    /\ pc[c] = "start" /\ kind[c] = "init"
    /\ LET p == IF explicit[c] THEN "flag" ELSE "home"
       IN  /\ place' = [place EXCEPT ![c] = p]
           /\ \/ End(c, "io_error")
              \/ p \in Present /\ End(c, "config_exists")
              \/ p \notin Present /\ Goto(c, "validate") /\ UNCHANGED result
    /\ UNCHANGED <<world, wanted, asked, temp, named>>

(* serve with no file runs the wizard, but not in place of a -config path  *)
(* and not away from a terminal.  A place whose stat fails counts as free. *)
ServeStart(c) ==
    /\ pc[c] = "start" /\ kind[c] = "serve"
    /\ \E seen \in SUBSET Present :
       LET r == Resolve(explicit[c], seen)
       IN  /\ place' = [place EXCEPT ![c] = r.place]
           /\ \/ End(c, "io_error")
              \/ r.found /\ Goto(c, "load") /\ UNCHANGED result
              \/ ~r.found /\ End(c, "config_not_found")
              \/ ~r.found /\ ~explicit[c] /\ Goto(c, "validate") /\ UNCHANGED result
    /\ UNCHANGED <<world, wanted, asked, temp, named>>

(* ValidateConnection fails: init stops; the wizard asks whether to save.  *)
ConnectionFails(c) ==
    /\ pc[c] = "validate"
    /\ End(c, IF kind[c] = "init" THEN "connection_failed" ELSE "setup_cancelled")
    /\ UNCHANGED <<world, place, wanted, asked, temp, named>>

(* The answers to write: with no compatible data source seen, or a         *)
(* connection that failed and was saved anyway, both listeners.  The wizard *)
(* asks for no username and no password.                                   *)
Enter(c) ==
    /\ pc[c] = "validate"
    /\ \E a \in Answers, hasPostgres, hasMySQL \in BOOLEAN :
           LET none == ~hasPostgres /\ ~hasMySQL
           IN  /\ kind[c] = "serve" => a.username = DefaultUsername /\ a.password = DefaultPassword
               /\ asked' = [asked EXCEPT ![c] =
                     [answer |-> a, postgres |-> hasPostgres \/ none, mysql |-> hasMySQL \/ none]]
    /\ Goto(c, "mkdir")
    /\ UNCHANGED <<world, place, wanted, temp, named, result>>

Mkdir(c) ==
    /\ pc[c] = "mkdir"
    /\ \/ Goto(c, "create") /\ UNCHANGED result
       \/ End(c, "io_error")
    /\ UNCHANGED <<world, place, wanted, asked, temp, named>>

CreateTemp(c) ==
    /\ pc[c] = "create"
    /\ \/ /\ temp' = [temp EXCEPT ![c] = "empty"] /\ named' = named \cup {c}
          /\ Goto(c, "chmod") /\ UNCHANGED result
       \/ End(c, "io_error") /\ UNCHANGED <<temp, named>>
    /\ UNCHANGED <<world, place, wanted, asked>>

(* A failure past CreateTemp returns through the deferred os.Remove. *)
GiveUp(c, r) == Goto(c, "remove") /\ result' = [result EXCEPT ![c] = r]

Chmod(c) ==
    /\ pc[c] = "chmod"
    /\ \/ Goto(c, "write") /\ UNCHANGED result
       \/ GiveUp(c, "io_error")
    /\ UNCHANGED <<world, place, wanted, asked, temp, named>>

Write(c) ==
    /\ pc[c] = "write"
    /\ \/ /\ temp' = [temp EXCEPT ![c] = "whole"]
          /\ Goto(c, "close") /\ UNCHANGED result
       \/ \E left \in {"empty", "partial"} :
             temp' = [temp EXCEPT ![c] = left] /\ GiveUp(c, "io_error")
    /\ UNCHANGED <<world, place, wanted, asked, named>>

Close(c) ==
    /\ pc[c] = "close"
    /\ \/ Goto(c, "link") /\ UNCHANGED result
       \/ GiveUp(c, "io_error")
    /\ UNCHANGED <<world, place, wanted, asked, temp, named>>

\* Mutant: the temporary file is renamed over the target.
RenameInPlace(c) ==
    files' = [files EXCEPT ![place[c]] = c] /\ Goto(c, "remove") /\ UNCHANGED result

(* The link refuses an existing target: the check is the create itself. *)
LinkInPlace(c) ==
    IF files[place[c]] = Absent
    THEN files' = [files EXCEPT ![place[c]] = c] /\ Goto(c, "remove") /\ UNCHANGED result
    ELSE GiveUp(c, "config_exists") /\ UNCHANGED files

Link(c) ==
    /\ pc[c] = "link"
    /\ \/ LinkInPlace(c)
       \/ GiveUp(c, "io_error") /\ UNCHANGED files
    /\ UNCHANGED <<kind, explicit, place, wanted, asked, temp, named>>

(* The deferred remove ends WriteConfig: an error ends the command, init   *)
(* is done, serve goes on to load the profile the wizard just created,     *)
(* whatever -profile named.                                                *)
Remove(c) ==
    /\ pc[c] = "remove"
    /\ named' = named \ {c}
    /\ \/ /\ result[c] # "none"
          /\ Goto(c, "done") /\ UNCHANGED <<wanted, result>>
       \/ /\ result[c] = "none" /\ kind[c] = "init"
          /\ End(c, "ok") /\ UNCHANGED wanted
       \/ /\ result[c] = "none" /\ kind[c] = "serve"
          /\ wanted' = [wanted EXCEPT ![c] = asked[c].answer.profile]
          /\ Goto(c, "load") /\ UNCHANGED result
    /\ UNCHANGED <<world, place, asked, temp>>

LoadConfig(c) ==
    /\ pc[c] = "load"
    /\ End(c, IF Load(Contents(place[c]), wanted[c]).error = {} THEN "ok" ELSE "loading_config")
    /\ UNCHANGED <<world, place, wanted, asked, temp, named>>

(* Killed between two system calls or inside one: a write under way leaves *)
(* any prefix.                                                             *)
Crash(c) ==
    /\ pc[c] # "done"
    /\ \E left \in (IF pc[c] = "write" THEN {"empty", "partial", "whole"} ELSE {temp[c]}) :
           temp' = [temp EXCEPT ![c] = left]
    /\ End(c, "crashed")
    /\ UNCHANGED <<world, place, wanted, asked, named>>

Step(c) ==
    \/ InitTarget(c) \/ ServeStart(c) \/ ConnectionFails(c) \/ Enter(c)
    \/ Mkdir(c) \/ CreateTemp(c) \/ Chmod(c) \/ Write(c) \/ Close(c) \/ Link(c) \/ Remove(c)
    \/ LoadConfig(c) \/ Crash(c)

(* Every command has ended. *)
Done == (\A c \in Commands : pc[c] = "done") /\ UNCHANGED vars

Next == (\E c \in Commands : Step(c)) \/ Done

Spec == Init /\ [][Next]_vars

Writing == {"mkdir", "create", "chmod", "write", "close", "link"}
Before == {"start", "validate"} \cup Writing
Results == {"none", "ok", "config_exists", "config_not_found", "connection_failed",
            "setup_cancelled", "io_error", "loading_config", "crashed"}

TypeOK ==
    /\ files \in [Places -> {Absent, Hand} \cup Commands]
    /\ kind \in [Commands -> {"init", "serve"}]
    /\ pc \in [Commands -> Before \cup {"remove", "load", "done"}]
    /\ place \in [Commands -> Places]
    /\ wanted \in [Commands -> Flags \cup {a.profile : a \in Answers}]
    /\ asked \in [Commands -> Requests \cup {NoRequest}]
    /\ temp \in [Commands -> {"none", "empty", "partial", "whole"}]
    /\ named \subseteq Commands
    /\ result \in [Commands -> Results]

(* What each step of a command implies: it has no outcome and no file in   *)
(* place until the link, its answers are in before it writes, the file it  *)
(* then links is whole, and past the link it has failed or owns the place. *)
Stage ==
    \A c \in Commands :
        /\ pc[c] \in Writing \/ (\E p \in Places : files[p] = c) => asked[c] \in Requests
        /\ pc[c] \in Before => result[c] = "none" /\ \A p \in Places : files[p] # c
        /\ pc[c] \in {"start", "validate", "mkdir", "create"} => c \notin named
        /\ pc[c] \in {"close", "link"} => temp[c] = "whole"
        /\ pc[c] = "remove" /\ result[c] = "none" => files[place[c]] = c
        /\ pc[c] = "remove" => result[c] \in {"none", "io_error", "config_exists"}
        /\ pc[c] = "load" => kind[c] = "serve" /\ result[c] = "none" /\ c \notin named
        /\ pc[c] = "load" /\ (\E p \in Places : files[p] = c) => wanted[c] = asked[c].answer.profile
        /\ result[c] = "ok" => pc[c] = "done"

(* Two setups racing for the same path cannot both succeed, and neither a  *)
(* crash nor a full disk leaves a truncated file: whatever a command put   *)
(* at a place is its whole file, an init that reports success owns the     *)
(* file it named, and one told that the path is taken left it alone        *)
(* (WriteConfig's link, under initTarget's earlier look).                  *)
SetupIsAtomic ==
    /\ \A p \in Places : files[p] \in Commands =>
           temp[files[p]] = "whole" /\ place[files[p]] = p
    /\ \A c \in Commands : kind[c] = "init" /\ result[c] = "ok" => files[place[c]] = c
    /\ \A c \in Commands : result[c] = "config_exists" => files[place[c]] \notin {Absent, c}
    /\ \A c \in Commands : pc[c] = "done" /\ result[c] # "crashed" => c \notin named

(* The inductive invariant.                                                *)
SetupInv == TypeOK /\ Stage /\ SetupIsAtomic

(* An existing configuration is never replaced (the hard link refuses an   *)
(* existing target), and nobody's file goes away.                          *)
NeverReplaced ==
    [][\A p \in Places : files[p] # Absent => files'[p] = files[p]]_vars

Given(text, builtIn) == IF text = Unset THEN builtIn ELSE text

(* The settings a request asks for.  An empty username or password counts  *)
(* as not given and stands for the built-in one, only the URL and the key  *)
(* are expanded, and a listener that was not enabled is off.               *)
AskedFor(r) ==
    LET a == r.answer
    IN  [Layer(ProfileKeys) EXCEPT
           !["redash_url"] = ExpandEnv(a.url), !["api_key"] = ExpandEnv(a.key),
           !["username"] = Given(a.username, DefaultUsername),
           !["password"] = Given(a.password, DefaultPassword),
           !["read_only"] = IF a.readOnly THEN "true" ELSE Unset,
           !["postgres_listen_addr"] = IF r.postgres THEN DefaultPostgresListenAddr ELSE Unset,
           !["mysql_listen_addr"] = IF r.mysql THEN DefaultMySQLListenAddr ELSE Unset,
           !["poll_interval"] = "500ms", !["poll_timeout"] = "120s"]

(* Those settings under the profile asked for, or, where a reference in    *)
(* the URL or the key expands to nothing, the complaint about that key.    *)
AsEntered(r) ==
    LET blank == {k \in {"redash_url", "api_key"} : AskedFor(r)[k] = Unset}
    IN  IF blank = {} THEN [error |-> {}, profile |-> r.answer.profile, cfg |-> AskedFor(r)]
        ELSE [error |-> blank]

(* The file a setup put in place loads, whoever raced it, as all the       *)
(* answers given to that setup, under their profile and under no -profile  *)
(* at all; and the serve that wrote it loads that profile, whatever its    *)
(* own -profile named (NewFileConfig, resolveProfile, serve).              *)
LoadsAsEntered ==
    \A c \in Commands : files[place[c]] = c =>
        LET profiles == {asked[c].answer.profile, Unset} \cup
                        (IF pc[c] = "load" THEN {wanted[c]} ELSE {})
        IN  \A p \in profiles : Load(Contents(place[c]), p) = AsEntered(asked[c])
=============================================================================
