---------------------------- MODULE MCDashboard ----------------------------
(* The instance of Dashboard that TLC checks: every scanner mode, policy and *)
(* prefix with the default size cap, a cap that thirty MiB overshoot         *)
(* fourfold, one that they do not, and one of 1 TiB; a lifetime of zero, of  *)
(* one second and of more than the cap.                                      *)
EXTENDS Dashboard, TLC

MCConfigs ==
    {[mode |-> "pre-upload", rejectOnUnknown |-> TRUE, prefixed |-> TRUE,
      maxSize |-> 25],
     [mode |-> "pre-upload", rejectOnUnknown |-> FALSE, prefixed |-> FALSE,
      maxSize |-> 5],
     [mode |-> "post-upload", rejectOnUnknown |-> TRUE, prefixed |-> FALSE,
      maxSize |-> 25],
     [mode |-> "post-upload", rejectOnUnknown |-> FALSE, prefixed |-> TRUE,
      maxSize |-> 30]}

MCHugeCap ==
    [mode |-> "pre-upload", rejectOnUnknown |-> FALSE, prefixed |-> TRUE,
     maxSize |-> 1048576]

\* The browser's clock is half a second behind the server's or a second ahead.
MCSkews == {-1, 2}

MCTried ==
    {"STORAGE_KEY_INVALID", "STORAGE_MIME_NOT_ALLOWED",
     "STORAGE_SIZE_EXCEEDED", "STORAGE_VALIDATION_FAILED",
     "STORAGE_SCAN_INFECTED", "STORAGE_SCAN_INCONCLUSIVE",
     "STORAGE_OBJECT_NOT_FOUND", "STORAGE_TIMEOUT"}

\* Environments that are all right in development, not in production, in
\* production, and not at all; "false" is not unset, and "AK" hides nothing.
MCEnvironment(nodeEnv, keyId, secret, mode, reject, maxSize) ==
    [NODE_ENV |-> nodeEnv, STORAGE_ACCESS_KEY_ID |-> keyId,
     STORAGE_SECRET_ACCESS_KEY |-> secret, STORAGE_KEY_PREFIX |-> "unset",
     SCANNER_MODE |-> mode, SCANNER_REJECT_ON_UNKNOWN |-> reject,
     UPLOAD_MAX_SIZE |-> maxSize]

MCEnvironments ==
    {MCEnvironment("unset", "unset", "unset", "unset", "unset", 25),
     MCEnvironment("production", "AK", "own-secret", "post-upload", "false", 5),
     MCEnvironment("production", "AKIAOWN", "minioadmin", "unset", "1", 25)}

MCTours ==
    LET Small == {CHOOSE c \in MCConfigs : c.maxSize = 5} IN
    [pages : {{"scanner"}}, config : MCConfigs, queries : {{}}]
    \cup [pages : {{"validation"}}, config : MCConfigs \cup {MCHugeCap},
          queries : {{}}]
    \cup [pages : {{"errors"}}, config : MCConfigs \cup {MCHugeCap},
          queries : {{"catalogue"}}]
    \cup [pages : {{"signed"}, {"tenants"}, {"direct"}, {"upload"}},
          config : Small, queries : {{}}]
    \cup [pages : {{"overview", "system"}}, config : Small,
          queries : {{"config"}}]
    \cup [pages : {{"system"}}, config : Small,
          queries : {{"recipes"}, {"versioning"}}]
    \cup [pages : {{"scanner", "validation"}}, config : Small,
          queries : {{"scanner"}, {"rules"}}]
    \cup [pages : {{"vault"}}, config : Small,
          queries : {{"meta", "preview"}, {"range", "public-url"}}]

MCSymmetry == Permutations(Files)

=============================================================================
