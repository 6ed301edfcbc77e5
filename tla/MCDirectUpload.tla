--------------------------- MODULE MCDirectUpload ---------------------------
(* The instance of MultipartUpload (and so of DirectUpload) that TLC checks: *)
(* calls that share a key, and one object more than the first confirm has    *)
(* seen; two parts; aborts under the issued key, with a doubled slash, with  *)
(* a leading slash, through `..`, and under the key of something else;      *)
(* copies of the vault onto the key.                                         *)
EXTENDS MultipartUpload, TLC

CONSTANTS k1, k2

PrefixSegments == <<"", "storage-example", "">>

AbortPaths ==
    {<<"media", k1>>, <<"media", "", k1>>, <<"", "media", k1>>,
     <<"media", "..", "media", k1>>, <<"media", k2>>}

\* A copy that a confirm refuses for its type, and one for its content.
CopiedObjects ==
    {[body |-> "plain", mime |-> "unlisted"], [body |-> "infected", mime |-> "listed"]}

CallSymmetry == Permutations(Calls)

=============================================================================
