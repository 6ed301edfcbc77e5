---------------------------- MODULE Environment ----------------------------
(***************************************************************************)
(* What the API makes of its process environment: env.schema.ts validates  *)
(* it when the API starts, storage.config.ts turns it into the options of  *)
(* the storage module, and config-redactor.ts renders those for the        *)
(* dashboard (apps/api/src/config, apps/api/src/system).                   *)
(***************************************************************************)
EXTENDS Naturals, Sequences

\* An unset variable.  UPLOAD_MAX_SIZE is given in MiB, an unset one as its
\* default, and a text that is no positive integer as 0.
Unset == "unset"

\* DEV_CREDENTIAL_DEFAULT.
DevCredential == "minioadmin"

\* The variables that the options shown depend on.
Variables == {"NODE_ENV", "STORAGE_ACCESS_KEY_ID", "STORAGE_SECRET_ACCESS_KEY",
              "STORAGE_KEY_PREFIX", "SCANNER_MODE", "SCANNER_REJECT_ON_UNKNOWN",
              "UPLOAD_MAX_SIZE"}

OrDefault(text, default) == IF text = Unset THEN default ELSE text

\* envBoolean: only 'true' and '1' are true, so "false" is not.
EnvBoolean(text, default) ==
    IF text = Unset THEN default ELSE text \in {"true", "1"}

AccessKeyId(e) == OrDefault(e.STORAGE_ACCESS_KEY_ID, DevCredential)
SecretAccessKey(e) == OrDefault(e.STORAGE_SECRET_ACCESS_KEY, DevCredential)

\* The variables of which loadEnv complains.
Misconfigured(e) ==
    {v \in Variables :
        \/ v = "NODE_ENV" /\ e[v] \notin {Unset, "development", "test", "production"}
        \/ v = "STORAGE_ACCESS_KEY_ID" /\ AccessKeyId(e) = ""
        \/ v = "STORAGE_SECRET_ACCESS_KEY" /\ SecretAccessKey(e) = ""
        \/ v = "SCANNER_MODE" /\ e[v] \notin {Unset, "pre-upload", "post-upload"}
        \/ v = "UPLOAD_MAX_SIZE" /\ e[v] = 0
        \/ /\ e.NODE_ENV = "production"
           /\ \/ v = "STORAGE_ACCESS_KEY_ID" /\ AccessKeyId(e) = DevCredential
              \/ /\ v = "STORAGE_SECRET_ACCESS_KEY"
                 /\ SecretAccessKey(e) = DevCredential}

\* A failure aborts the start.
Boots(e) == Misconfigured(e) = {}

\* buildStorageOptions, as far as a page shows it.
StorageOptions(e) ==
    [accessKeyId |-> AccessKeyId(e), secretAccessKey |-> SecretAccessKey(e),
     keyPrefix |-> OrDefault(e.STORAGE_KEY_PREFIX, "storage-example"),
     maxSize |-> e.UPLOAD_MAX_SIZE,
     mode |-> OrDefault(e.SCANNER_MODE, "pre-upload"),
     rejectOnUnknown |-> EnvBoolean(e.SCANNER_REJECT_ON_UNKNOWN, FALSE)]

-----------------------------------------------------------------------------
(* What the routes answer.                                                 *)

Redacted == "[redacted]"
VisibleKeyChars == 4

\* maskAccessKeyId, as how many characters it shows and hides.
Masked(keyId) ==
    LET visible == IF Len(keyId) < VisibleKeyChars
                   THEN Len(keyId) ELSE VisibleKeyChars IN
    [visible |-> visible, hidden |-> Len(keyId) - visible]

\* Mutant: the rendered copy keeps what it was spread from.
RedactSpread(options) == [options EXCEPT !.accessKeyId = Masked(@)]

\* redactStorageOptions.
RedactStorageOptions(options) ==
    [options EXCEPT !.accessKeyId = Masked(@), !.secretAccessKey = Redacted]

\* GET /system/config, which the overview and the system page flatten.
ConfigView(e) == RedactStorageOptions(StorageOptions(e))

\* GET /system/recipes: six blueprints with the same sample credentials.
SampleOptions == [accessKeyId |-> "AKIAEXAMPLE1234",
                  secretAccessKey |-> "sample-secret-value"]
RecipesView == RedactStorageOptions(SampleOptions)

\* GET /validation/rules.
RulesView(e) == [maxSize |-> StorageOptions(e).maxSize]

\* GET /scanner/config.
ScannerView(e) == [mode |-> StorageOptions(e).mode,
                   rejectOnUnknown |-> StorageOptions(e).rejectOnUnknown]

=============================================================================
