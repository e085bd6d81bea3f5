----------------------------- MODULE SetupProofs -----------------------------
(* Theorems about Setup, for any number of commands, any answers and any   *)
(* hand-written file.                                                      *)
EXTENDS Setup, TLAPS

(* What is entered is a request, and nobody else's.                        *)
LEMMA EnterRequest ==
  ASSUME TypeOK, NEW c \in Commands, Enter(c)
  PROVE  /\ asked' \in [Commands -> Requests \cup {NoRequest}]
         /\ \A d \in Commands : d # c => asked'[d] = asked[d]
         /\ asked'[c] \in Requests
<1>1. PICK a \in Answers, hasPostgres \in BOOLEAN, hasMySQL \in BOOLEAN :
        asked' = [asked EXCEPT ![c] =
           [answer |-> a, postgres |-> hasPostgres \/ (~hasPostgres /\ ~hasMySQL),
            mysql |-> hasMySQL \/ (~hasPostgres /\ ~hasMySQL)]]
  BY DEF Enter
<1>2. [answer |-> a, postgres |-> hasPostgres \/ (~hasPostgres /\ ~hasMySQL),
       mysql |-> hasMySQL \/ (~hasPostgres /\ ~hasMySQL)] \in Requests
  BY DEF Requests
<1>. QED
  BY <1>1, <1>2 DEF TypeOK

(* Every step of every command keeps the types.                            *)
LEMMA TypeStep == ASSUME TypeOK, Stage, NEW c \in Commands, Step(c) PROVE TypeOK'
<1> USE DEF TypeOK, Places, Before, Writing, Results, world, Goto, End, GiveUp
<1>1. CASE InitTarget(c)
  BY <1>1 DEF InitTarget
<1>2. CASE ServeStart(c)
  <2>1. \A seen : Resolve(explicit[c], seen).place \in Places
    BY DEF Resolve
  <2>2. PICK seen \in SUBSET Present : place' = [place EXCEPT ![c] = Resolve(explicit[c], seen).place]
    BY <1>2 DEF ServeStart
  <2>3. place' \in [Commands -> Places]
    BY <2>1, <2>2
  <2>4. /\ pc' = [pc EXCEPT ![c] = pc'[c]] /\ pc'[c] \in {"load", "validate", "done"}
        /\ result' \in {result, [result EXCEPT ![c] = "io_error"], [result EXCEPT ![c] = "config_not_found"]}
    BY <1>2 DEF ServeStart
  <2>. QED
    BY <1>2, <2>3, <2>4 DEF ServeStart
<1>3. CASE ConnectionFails(c)
  BY <1>3 DEF ConnectionFails
<1>4. CASE Enter(c)
  <2>1. asked' \in [Commands -> Requests \cup {NoRequest}]
    BY <1>4, EnterRequest
  <2>. QED
    BY <1>4, <2>1 DEF Enter
<1>5. CASE Mkdir(c)
  BY <1>5 DEF Mkdir
<1>6. CASE CreateTemp(c)
  BY <1>6 DEF CreateTemp
<1>7. CASE Chmod(c)
  BY <1>7 DEF Chmod
<1>8. CASE Write(c)
  BY <1>8 DEF Write
<1>9. CASE Close(c)
  BY <1>9 DEF Close
<1>10. CASE Link(c)
  BY <1>10 DEF Link, LinkInPlace
<1>11. CASE Remove(c)
  <2>1. wanted' \in [Commands -> Flags \cup {a.profile : a \in Answers}]
    <3>1. CASE wanted' = wanted
      BY <3>1
    <3>2. CASE result[c] = "none" /\ wanted' = [wanted EXCEPT ![c] = asked[c].answer.profile]
      <4>1. asked[c] \in Requests
        BY <1>11, <3>2 DEF Remove, Stage
      <4>2. asked[c].answer.profile \in {a.profile : a \in Answers}
        BY <4>1 DEF Requests
      <4>. QED
        BY <3>2, <4>2
    <3>. QED
      BY <1>11, <3>1, <3>2 DEF Remove
  <2>. QED
    BY <1>11, <2>1 DEF Remove, Stage
<1>12. CASE LoadConfig(c)
  BY <1>12 DEF LoadConfig
<1>13. CASE Crash(c)
  BY <1>13 DEF Crash
<1>. QED
  BY <1>1, <1>2, <1>3, <1>4, <1>5, <1>6, <1>7, <1>8, <1>9, <1>10, <1>11, <1>12, <1>13 DEF Step

(* Every step keeps what the steps of a command imply.                     *)
LEMMA StageStep == ASSUME TypeOK, Stage, NEW c \in Commands, Step(c) PROVE Stage'
<1> USE SetupAssumption DEF TypeOK, Stage, Places, Before, Writing, Results, world, Goto, End, GiveUp
<1>1. CASE InitTarget(c)
  BY <1>1 DEF InitTarget
<1>2. CASE ServeStart(c)
  BY <1>2 DEF ServeStart
<1>3. CASE ConnectionFails(c)
  BY <1>3 DEF ConnectionFails
<1>4. CASE Enter(c)
  <2>1. /\ \A d \in Commands : d # c => asked'[d] = asked[d]
        /\ asked'[c] \in Requests
    BY <1>4, EnterRequest
  <2>. QED
    BY <1>4, <2>1 DEF Enter
<1>5. CASE Mkdir(c)
  BY <1>5 DEF Mkdir
<1>6. CASE CreateTemp(c)
  BY <1>6 DEF CreateTemp
<1>7. CASE Chmod(c)
  BY <1>7 DEF Chmod
<1>8. CASE Write(c)
  BY <1>8 DEF Write
<1>9. CASE Close(c)
  BY <1>9 DEF Close
<1>10. CASE Link(c)
  BY <1>10 DEF Link, LinkInPlace
<1>11. CASE Remove(c)
  BY <1>11 DEF Remove
<1>12. CASE LoadConfig(c)
  BY <1>12 DEF LoadConfig
<1>13. CASE Crash(c)
  BY <1>13 DEF Crash
<1>. QED
  BY <1>1, <1>2, <1>3, <1>4, <1>5, <1>6, <1>7, <1>8, <1>9, <1>10, <1>11, <1>12, <1>13 DEF Step

(* Every step keeps the writes atomic.                                     *)
LEMMA AtomicStep ==
  ASSUME TypeOK, Stage, SetupIsAtomic, NEW c \in Commands, Step(c)
  PROVE  SetupIsAtomic'
<1> USE SetupAssumption DEF TypeOK, Stage, SetupIsAtomic, Places, Before, Writing, Results, world, Goto, End, GiveUp
<1>1. CASE InitTarget(c)
  BY <1>1 DEF InitTarget, Present
<1>2. CASE ServeStart(c)
  BY <1>2 DEF ServeStart
<1>3. CASE ConnectionFails(c)
  BY <1>3 DEF ConnectionFails
<1>4. CASE Enter(c)
  BY <1>4 DEF Enter
<1>5. CASE Mkdir(c)
  BY <1>5 DEF Mkdir
<1>6. CASE CreateTemp(c)
  BY <1>6 DEF CreateTemp
<1>7. CASE Chmod(c)
  BY <1>7 DEF Chmod
<1>8. CASE Write(c)
  BY <1>8 DEF Write
<1>9. CASE Close(c)
  BY <1>9 DEF Close
<1>10. CASE Link(c)
  BY <1>10 DEF Link, LinkInPlace
<1>11. CASE Remove(c)
  BY <1>11 DEF Remove
<1>12. CASE LoadConfig(c)
  BY <1>12 DEF LoadConfig
<1>13. CASE Crash(c)
  BY <1>13 DEF Crash
<1>. QED
  BY <1>1, <1>2, <1>3, <1>4, <1>5, <1>6, <1>7, <1>8, <1>9, <1>10, <1>11, <1>12, <1>13 DEF Step

(* The invariant holds at the start: only hand-written files exist.        *)
LEMMA InitInv == Init => SetupInv
BY SetupAssumption DEF Init, SetupInv, TypeOK, Stage, SetupIsAtomic, Places, Before, Writing, Results

(* Every step keeps the invariant.                                         *)
LEMMA NextInv == SetupInv /\ [Next]_vars => SetupInv'
<1> SUFFICES ASSUME SetupInv, [Next]_vars PROVE SetupInv'
  OBVIOUS
<1>1. ASSUME NEW c \in Commands, Step(c) PROVE SetupInv'
  BY <1>1, TypeStep, StageStep, AtomicStep DEF SetupInv
<1>2. CASE Done \/ UNCHANGED vars
  BY <1>2 DEF Done, vars, SetupInv, TypeOK, Stage, SetupIsAtomic
<1>. QED
  BY <1>1, <1>2 DEF Next

(* The inductive invariant of the setups.                                  *)
THEOREM SetupInvariant == Spec => []SetupInv
BY InitInv, NextInv, PTL DEF Spec

(* However many setups race for however many paths, and wherever they fail *)
(* or die, a file in place is whole, a success is owned by its command and *)
(* a refusal left the file alone (WriteConfig, cmdInit).                   *)
THEOREM SetupsAreAtomic == Spec => []SetupIsAtomic
<1>1. SetupInv => SetupIsAtomic
  BY DEF SetupInv
<1>. QED
  BY <1>1, SetupInvariant, PTL

(* No step replaces or removes a file that is in place (os.Link, which     *)
(* unlike a rename refuses an existing target).                            *)
THEOREM FilesStay == Spec => NeverReplaced
<1>1. ASSUME SetupInv, [Next]_vars PROVE \A p \in Places : files[p] # Absent => files'[p] = files[p]
  <2> SUFFICES ASSUME NEW p \in Places, files[p] # Absent PROVE files'[p] = files[p]
    OBVIOUS
  <2>1. ASSUME NEW c \in Commands, Link(c) PROVE files'[p] = files[p]
    BY <1>1, <2>1 DEF Link, LinkInPlace, GiveUp, SetupInv, TypeOK
  <2>2. ASSUME UNCHANGED files PROVE files'[p] = files[p]
    BY <2>2
  <2>3. ASSUME NEW c \in Commands, Step(c), ~Link(c) PROVE UNCHANGED files
    BY <2>3 DEF Step, world, InitTarget, ServeStart, ConnectionFails, Enter, Mkdir, CreateTemp,
                Chmod, Write, Close, Remove, LoadConfig, Crash
  <2>. QED
    BY <1>1, <2>1, <2>2, <2>3 DEF Next, Done, vars
<1>. QED
  BY <1>1, SetupInvariant, PTL DEF Spec, NeverReplaced

-----------------------------------------------------------------------------
(* What serve can start with.                                              *)
Usable(cfg) ==
    /\ \A k \in ProfileKeys \ {"postgres_listen_addr", "mysql_listen_addr", "read_only"} : cfg[k] # Unset
    /\ {cfg["postgres_listen_addr"], cfg["mysql_listen_addr"]} # {Unset}
    /\ GetPollInterval(cfg) > 0 /\ GetPollTimeout(cfg) > 0

(* `config` reports each profile of a file exactly as serve will find it.  *)
ReportedAsLoaded(file) ==
    LET report == LoadAll(file)
    IN  IF report.error # {} THEN Load(file, Unset).error # {}
        ELSE /\ \A n \in DOMAIN file.profiles :
                  /\ report.profiles[n].error = Load(file, n).error
                  /\ Load(file, n).error = {} => Load(file, n) = report.profiles[n] /\ Usable(Load(file, n).cfg)
             /\ Load(file, Unset).error = {} <=>
                  report.default # Unset /\ report.profiles[report.default].error = {}

(* Resolving a profile either fails or gives its settings.                 *)
LEMMA Resolved ==
  ASSUME NEW file, NEW profile, ResolveProfile(file, profile).error = {}
  PROVE  ResolveProfile(file, profile) =
           [error |-> {}, profile |-> ResolveProfile(file, profile).profile,
            cfg |-> ResolveProfile(file, profile).cfg]
BY DEF ResolveProfile, Failed

(* Settings without a complaint can be served as they stand.               *)
LEMMA ValidIsUsable == ASSUME NEW cfg, Validate(cfg) = {} PROVE Usable(cfg)
<1>1. \A k \in {"redash_url", "api_key", "username", "password"} : cfg[k] # Unset
  BY DEF Validate
<1>2. {cfg["postgres_listen_addr"], cfg["mysql_listen_addr"]} # {Unset}
  BY DEF Validate
<1>3. \A k \in {"poll_interval", "poll_timeout"} : cfg[k] \in DOMAIN Durations /\ Durations[cfg[k]] > 0
  BY DEF Validate, DurationErrors
<1>4. \A k \in {"poll_interval", "poll_timeout"} : cfg[k] # Unset
  BY <1>3, ConfigAssumption
<1>. QED
  BY <1>1, <1>2, <1>3, <1>4
  DEF Usable, ProfileKeys, FileKeys, GetPollInterval, GetPollTimeout, PollDuration

(* `config` and serve read any file alike, well-formed or not.             *)
LEMMA AnyFileIsReportedAsLoaded == ASSUME NEW file PROVE ReportedAsLoaded(file)
<1> DEFINE report == LoadAll(file)
<1>1. CASE ~file.parses
  <2>1. LoadAll(file).error # {} /\ Load(file, Unset).error # {}
    BY <1>1 DEF LoadAll, Load, ReadFailure, Failed
  <2>. QED
    BY <2>1 DEF ReportedAsLoaded
<1>2. CASE file.parses /\ report.error # {}
  <2>1. ResolveProfile(file, Unset).error # {}
    BY <1>2 DEF LoadAll, ResolveProfile, Failed
  <2>2. Load(file, Unset).error # {}
    BY <1>2, <2>1 DEF Load
  <2>. QED
    BY <1>2, <2>2 DEF ReportedAsLoaded
<1>3. CASE file.parses /\ report.error = {}
  <2>1. /\ DOMAIN file.profiles # {}
        /\ file.default # Unset => file.default \in DOMAIN file.profiles
        /\ report.default = file.default
        /\ report.profiles = [p \in DOMAIN file.profiles |->
              IF ResolveProfile(file, p).error # {} THEN ResolveProfile(file, p)
              ELSE [ResolveProfile(file, p) EXCEPT !.error = Validate(ResolveProfile(file, p).cfg)]]
    BY <1>3 DEF LoadAll, Failed
  <2>2. ASSUME NEW n \in DOMAIN file.profiles
        PROVE  /\ report.profiles[n].error = Load(file, n).error
               /\ Load(file, n).error = {} => Load(file, n) = report.profiles[n] /\ Usable(Load(file, n).cfg)
    <3> DEFINE r == ResolveProfile(file, n)
    <3>1. CASE r.error # {}
      BY <1>3, <2>1, <3>1 DEF Load
    <3>2. CASE r.error = {}
      <4>1. r = [error |-> {}, profile |-> r.profile, cfg |-> r.cfg]
        BY <3>2, Resolved
      <4>2. report.profiles[n] = [error |-> Validate(r.cfg), profile |-> r.profile, cfg |-> r.cfg]
        <5> HIDE DEF r
        <5>1. report.profiles[n] = [r EXCEPT !.error = Validate(r.cfg)]
          BY <2>1, <3>2 DEF r
        <5>. QED
          BY <4>1, <5>1
      <4>3. CASE Validate(r.cfg) # {}
        <5>1. Load(file, n) = [error |-> Validate(r.cfg)]
          BY <1>3, <3>2, <4>3 DEF Load
        <5>. QED
          BY <4>2, <4>3, <5>1
      <4>4. CASE Validate(r.cfg) = {}
        <5>1. Load(file, n) = r
          BY <1>3, <3>2, <4>4 DEF Load
        <5>2. Usable(r.cfg)
          BY <4>4, ValidIsUsable
        <5>. QED
          BY <3>2, <4>1, <4>2, <4>4, <5>1, <5>2
      <4>. QED
        BY <4>3, <4>4
    <3>. QED
      BY <3>1, <3>2
  <2>3. CASE file.default = Unset
    <3>1. ResolveProfile(file, Unset).error # {}
      BY <2>3 DEF ResolveProfile, Failed
    <3>2. Load(file, Unset).error # {}
      BY <1>3, <3>1 DEF Load
    <3>. QED
      BY <1>3, <2>1, <2>2, <2>3, <3>2 DEF ReportedAsLoaded
  <2>4. CASE file.default # Unset
    <3>1. ResolveProfile(file, Unset) = ResolveProfile(file, file.default)
      BY <2>4 DEF ResolveProfile
    <3>2. Load(file, Unset) = Load(file, file.default)
      BY <3>1 DEF Load
    <3>3. report.profiles[file.default].error = Load(file, file.default).error
      BY <2>1, <2>2, <2>4
    <3>. QED
      BY <1>3, <2>1, <2>2, <2>4, <3>2, <3>3 DEF ReportedAsLoaded
  <2>. QED
    BY <2>3, <2>4
<1>. QED
  BY <1>1, <1>2, <1>3

(* The file a request makes, under its own profile and with none given,    *)
(* resolves to the settings it asks for: key by key, the profile's own     *)
(* text, or else the file's, or else the built-in one.                     *)
LEMMA NewFileResolves ==
  ASSUME NEW r \in Requests, NEW p \in {r.answer.profile, Unset}, NEW file,
         r.postgres \/ r.mysql,
         file = NewFileConfig(r.answer, r.postgres, r.mysql)
  PROVE  ResolveProfile(file, p) =
           [error |-> {}, profile |-> r.answer.profile, cfg |-> AskedFor(r)]
<1> DEFINE a == r.answer
           top == file.top
           own == file.profiles[a.profile]
           layered == Overlay(Overlay(Defaults, top), own)
           cfg == Expand(layered)
<1>1. /\ Unset \notin {DefaultUsername, DefaultPassword, DefaultPostgresListenAddr, DefaultMySQLListenAddr, "true"}
      /\ Unset \notin {"500ms", "120s"}
      /\ Unset \notin {a.profile, a.url, a.key}
  BY ConfigAssumption, SetupAssumption DEF Requests
<1>2. /\ file.default = a.profile
      /\ DOMAIN file.profiles = {a.profile}
      /\ own = [Layer(ProfileKeys) EXCEPT !["redash_url"] = a.url, !["api_key"] = a.key,
                                          !["read_only"] = IF a.readOnly THEN "true" ELSE Unset]
      /\ top = [Layer(FileKeys) EXCEPT
                   !["username"] = a.username, !["password"] = a.password,
                   !["poll_interval"] = "500ms", !["poll_timeout"] = "120s",
                   !["postgres_listen_addr"] =
                      IF r.postgres \/ ~r.mysql THEN DefaultPostgresListenAddr ELSE Unset,
                   !["mysql_listen_addr"] = IF r.mysql THEN DefaultMySQLListenAddr ELSE Unset]
  BY DEF NewFileConfig, FileConfig
<1>3. ResolveProfile(file, p) = [error |-> {}, profile |-> a.profile, cfg |-> cfg]
  <2>1. (IF p = Unset THEN file.default ELSE p) = a.profile
    BY <1>2
  <2>. QED
    BY <1>1, <1>2, <2>1 DEF ResolveProfile
<1>4. /\ own["redash_url"] = a.url /\ own["api_key"] = a.key
      /\ own["read_only"] = IF a.readOnly THEN "true" ELSE Unset
      /\ \A k \in FileKeys \ {"read_only"} : own[k] = Unset
      /\ DOMAIN own = ProfileKeys
  BY <1>2 DEF Layer, ProfileKeys, FileKeys
<1>5. /\ top["username"] = a.username /\ top["password"] = a.password
      /\ top["poll_interval"] = "500ms" /\ top["poll_timeout"] = "120s"
      /\ top["read_only"] = Unset
      /\ top["postgres_listen_addr"] =
            IF r.postgres \/ ~r.mysql THEN DefaultPostgresListenAddr ELSE Unset
      /\ top["mysql_listen_addr"] = IF r.mysql THEN DefaultMySQLListenAddr ELSE Unset
      /\ DOMAIN top = FileKeys
  BY <1>2 DEF Layer, FileKeys
<1>6. /\ Defaults["username"] = DefaultUsername /\ Defaults["password"] = DefaultPassword
      /\ Defaults["poll_interval"] = "500ms" /\ Defaults["poll_timeout"] = "120s"
      /\ \A k \in {"read_only", "postgres_listen_addr", "mysql_listen_addr"} : Defaults[k] = Unset
      /\ DOMAIN Defaults = ProfileKeys
  BY DEF Defaults, Layer, ProfileKeys, FileKeys
<1> HIDE DEF top, own
<1>7. /\ layered = [k \in ProfileKeys |-> layered[k]]
      /\ \A k \in FileKeys :
           layered[k] = IF own[k] # Unset THEN own[k] ELSE IF top[k] # Unset THEN top[k] ELSE Defaults[k]
      /\ \A k \in {"redash_url", "api_key"} : own[k] # Unset => layered[k] = own[k]
  BY <1>4, <1>5, <1>6 DEF Overlay, ProfileKeys, FileKeys
<1> HIDE DEF layered
<1>8. /\ cfg = [k \in ProfileKeys |-> cfg[k]]
      /\ cfg["redash_url"] = ExpandEnv(layered["redash_url"])
      /\ cfg["api_key"] = ExpandEnv(layered["api_key"])
      /\ \A k \in FileKeys : cfg[k] = layered[k]
  BY <1>7 DEF Expand, ProfileKeys, FileKeys
<1> HIDE DEF cfg
<1>9. /\ cfg["redash_url"] = ExpandEnv(a.url) /\ cfg["api_key"] = ExpandEnv(a.key)
      /\ cfg["username"] = Given(a.username, DefaultUsername)
      /\ cfg["password"] = Given(a.password, DefaultPassword)
      /\ cfg["poll_interval"] = "500ms" /\ cfg["poll_timeout"] = "120s"
      /\ cfg["read_only"] = IF a.readOnly THEN "true" ELSE Unset
      /\ cfg["postgres_listen_addr"] = IF r.postgres THEN DefaultPostgresListenAddr ELSE Unset
      /\ cfg["mysql_listen_addr"] = IF r.mysql THEN DefaultMySQLListenAddr ELSE Unset
  BY <1>1, <1>4, <1>5, <1>6, <1>7, <1>8 DEF FileKeys, Given
<1>10. cfg = AskedFor(r)
  BY <1>8, <1>9 DEF AskedFor, Layer, ProfileKeys, FileKeys
<1>. QED
  BY <1>3, <1>10

(* What a request asks for is complete, but for a URL or a key that        *)
(* expands to nothing.                                                     *)
LEMMA AskedForIsComplete ==
  ASSUME NEW r \in Requests, r.postgres \/ r.mysql
  PROVE  Validate(AskedFor(r)) = {k \in {"redash_url", "api_key"} : AskedFor(r)[k] = Unset}
<1> DEFINE cfg == AskedFor(r)
<1>1. /\ cfg["username"] # Unset /\ cfg["password"] # Unset
      /\ cfg["poll_interval"] = "500ms" /\ cfg["poll_timeout"] = "120s"
      /\ ~(cfg["postgres_listen_addr"] = Unset /\ cfg["mysql_listen_addr"] = Unset)
  BY ConfigAssumption DEF AskedFor, Given, Layer, ProfileKeys, FileKeys
<1> HIDE DEF cfg
<1>2. DurationErrors(cfg, "poll_interval") = {} /\ DurationErrors(cfg, "poll_timeout") = {}
  BY <1>1, ConfigAssumption DEF DurationErrors
<1>3. Validate(cfg) = {k \in {"redash_url", "api_key"} : cfg[k] = Unset}
  BY <1>1, <1>2 DEF Validate
<1>. QED
  BY <1>3 DEF cfg

(* A file written by a setup loads as it was entered.                      *)
LEMMA NewFileLoads ==
  ASSUME NEW r \in Requests, NEW p \in {r.answer.profile, Unset}, NEW file,
         r.postgres \/ r.mysql,
         file = NewFileConfig(r.answer, r.postgres, r.mysql)
  PROVE  Load(file, p) = AsEntered(r)
<1>1. ResolveProfile(file, p) = [error |-> {}, profile |-> r.answer.profile, cfg |-> AskedFor(r)]
  BY NewFileResolves
<1>2. Validate(AskedFor(r)) = {k \in {"redash_url", "api_key"} : AskedFor(r)[k] = Unset}
  BY AskedForIsComplete
<1>3. file.parses
  BY DEF NewFileConfig, FileConfig
<1>. QED
  BY <1>1, <1>2, <1>3 DEF Load, AsEntered

(* At every moment, under any racing, failing and dying setups: a file a    *)
(* setup put in place loads as all the answers given to that setup, with   *)
(* the built-in login where none was given (NewFileConfig, resolveProfile, *)
(* Validate), and its own serve loads the profile it was made for.         *)
THEOREM FilesLoadAsEntered == Spec => []LoadsAsEntered
<1>1. SetupInv => LoadsAsEntered
  <2> SUFFICES ASSUME SetupInv, NEW c \in Commands, files[place[c]] = c,
                      NEW p \in {asked[c].answer.profile, Unset} \cup
                               (IF pc[c] = "load" THEN {wanted[c]} ELSE {})
               PROVE  Load(Contents(place[c]), p) = AsEntered(asked[c])
    BY DEF LoadsAsEntered
  <2>1. place[c] \in Places /\ Contents(place[c]) = Written(c)
    BY SetupAssumption DEF SetupInv, TypeOK, SetupIsAtomic, Contents
  <2>2. asked[c] \in Requests /\ p \in {asked[c].answer.profile, Unset}
    BY <2>1 DEF SetupInv, Stage
  <2>3. Load(Written(c), p) = AsEntered(asked[c])
    BY <2>2, NewFileLoads DEF Written, Requests
  <2>. QED
    BY <2>1, <2>3
<1>. QED
  BY <1>1, SetupInvariant, PTL
=============================================================================
