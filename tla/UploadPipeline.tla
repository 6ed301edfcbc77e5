--------------------------- MODULE UploadPipeline ---------------------------
(***************************************************************************)
(* The library's upload pipeline as apps/api/src/config/storage.config.ts  *)
(* sets it up: MIME whitelist, size cap, custom validators, and a scanner  *)
(* that runs before or after the object is stored.  The stages' order and  *)
(* what a failing one leaves behind are the library's; they are taken from *)
(* the comments and tests of the code that relies on them.                 *)
(***************************************************************************)
EXTENDS Naturals

\* What the environment decides: SCANNER_MODE, SCANNER_REJECT_ON_UNKNOWN,
\* whether STORAGE_KEY_PREFIX is empty, UPLOAD_MAX_SIZE_BYTES (in MiB).
Config == [mode : {"pre-upload", "post-upload"}, rejectOnUnknown : BOOLEAN,
           prefixed : BOOLEAN, maxSize : Nat]

None == "none"
Markers == {"clean", "infected", "unknown"}

\* An upload: its declared type, its size in MiB, whether a PDF begins as one,
\* and the markers in its body and in its key.
Upload(mime, size, forged, inBody, inKey) ==
    [mime |-> mime, size |-> size, forged |-> forged, inBody |-> inBody,
     inKey |-> inKey]

\* DEFAULT_IMAGE_MIME_WHITELIST, DEFAULT_DOC_MIME_WHITELIST and video/*.
MimeWhitelist == {"image/png", "application/pdf", "text/plain"}

\* PdfMagicByteValidator.
PdfMagicBytes(u) == u.mime = "application/pdf" => ~u.forged

\* MarkerFileScanner: the body where there is one, else the key.
Scan(config, u) == IF config.mode = "pre-upload" THEN u.inBody ELSE u.inKey

\* The code of the stage that refuses the upload; None if all pass.
ValidationRefusal(config, u) ==
    IF u.mime \notin MimeWhitelist THEN "STORAGE_MIME_NOT_ALLOWED"
    ELSE IF u.size > config.maxSize THEN "STORAGE_SIZE_EXCEEDED"
    ELSE IF ~PdfMagicBytes(u) THEN "STORAGE_VALIDATION_FAILED"
    ELSE None

ScanRefusal(config, u) ==
    IF Scan(config, u) = "infected" THEN "STORAGE_SCAN_INFECTED"
    ELSE IF Scan(config, u) = "unknown" /\ config.rejectOnUnknown
         THEN "STORAGE_SCAN_INCONCLUSIVE"
    ELSE None

Refusal(config, u) ==
    IF ValidationRefusal(config, u) # None THEN ValidationRefusal(config, u)
    ELSE ScanRefusal(config, u)

\* A refused upload never reaches the bucket unless it is scanned there.
StoredBeforeScan(config, u) ==
    config.mode = "post-upload" /\ ValidationRefusal(config, u) = None

\* The clean-up after a refusing scan deletes a key that the delete prefixes
\* once more.
CleanUpReaches(config) == ~config.prefixed

=============================================================================
