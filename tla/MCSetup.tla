------------------------------ MODULE MCSetup -------------------------------
(* Two processes over a home, a working directory and a -config path.      *)
EXTENDS Setup, TLC

MCEnv == [v \in {"$SET", "$UNSET"} |-> IF v = "$SET" THEN "k" ELSE ""]
MCDurations == [d \in {"500ms", "120s", "0s"} |->
    CASE d = "500ms" -> 500 [] d = "120s" -> 120000 [] d = "0s" -> 0]

\* The wizard's answers have the built-in login; init's may leave the password
\* empty, and have a username that looks like a reference.
Answer(profile, key, username, password, readOnly) ==
    [profile |-> profile, url |-> "http://redash", key |-> key, username |-> username,
     password |-> password, readOnly |-> readOnly]
MCAnswers ==
    {Answer("default", "k", DefaultUsername, DefaultPassword, FALSE),
     Answer("prod", "$UNSET", DefaultUsername, DefaultPassword, TRUE),
     Answer("prod", "$SET", "$UNSET", "", TRUE)}

\* Two profiles; the first is complete, the second leans on the file's keys.
MCHandFile ==
    FileConfig([Layer(FileKeys) EXCEPT !["postgres_listen_addr"] = "127.0.0.1:1", !["read_only"] = "true"],
               "prod",
               [p \in {"prod", "test"} |-> [Layer(ProfileKeys) EXCEPT
                    !["redash_url"] = "http://redash",
                    !["api_key"] = IF p = "prod" THEN "k" ELSE "$SET"]])

MCSymmetry == Permutations(Commands)
=============================================================================
