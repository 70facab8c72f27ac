----------------------------- MODULE UploadFile -----------------------------
(***************************************************************************)
(* The retry loop of COS.UploadFile.  One call sends the same upload again  *)
(* while the bucket is unavailable or the answer is lost; an answer with    *)
(* any other error of the service ends it.                                  *)
(***************************************************************************)
EXTENDS Integers

CONSTANT RetryChoices   \* values COS.Retries may have in the configuration

\* getConfig takes any integer and validateConfig does not look at it.
ASSUME RetryAssumption == RetryChoices \subseteq Int

VARIABLES
    retries,   \* COS.Retries
    call,      \* "ready", "sending", and what the call returned: "nil" or "error"
    turn,      \* the loop's counter i
    answer,    \* the last answer: "none", "unavailable", "lost" or "refused"
    stored     \* whether the bucket holds what this call was to upload

uploadVars == <<retries, call, turn, answer, stored>>

UploadTypeOK ==
    /\ retries \in RetryChoices
    /\ call \in {"ready", "sending", "nil", "error"}
    /\ turn \in Nat
    /\ answer \in {"none", "unavailable", "lost", "refused"}
    /\ stored \in BOOLEAN

UploadInit ==
    /\ retries \in RetryChoices
    /\ call = "ready" /\ turn = 0 /\ answer = "none" /\ stored = FALSE

\* Mutant: the loop runs Retries times, not once more.
MoreBelow(i) == i < retries

\* The loop's condition.
More(i) == i <= retries

\* Without a single turn the error that is returned is still nil.
BeginUpload ==
    /\ call = "ready"
    /\ call' = IF More(0) THEN "sending" ELSE "nil"
    /\ UNCHANGED <<retries, turn, answer, stored>>

Accepted ==
    /\ call = "sending"
    /\ call' = "nil" /\ stored' = TRUE
    /\ UNCHANGED <<retries, turn, answer>>

\* Mutant: the counter is not advanced.
AgainForEver(a) ==
    /\ call' = IF More(turn) THEN "sending" ELSE "error"
    /\ answer' = a
    /\ UNCHANGED <<retries, turn>>

\* Next turn of the loop, or the last error.
Again(a) ==
    /\ turn' = turn + 1
    /\ call' = IF More(turn + 1) THEN "sending" ELSE "error"
    /\ answer' = a
    /\ UNCHANGED retries

\* ServiceUnavailable, the one error of the service that is tried again.
Unavailable ==
    /\ call = "sending" /\ Again("unavailable") /\ UNCHANGED stored

\* Not an answer of the service (a broken connection, a file that cannot be
\* read): the upload may have taken effect all the same.
Lost ==
    /\ call = "sending" /\ Again("lost") /\ stored' \in {stored, TRUE}

\* Mutant: every error is tried again.
RefusedAgain ==
    /\ call = "sending" /\ Again("refused") /\ UNCHANGED stored

Refused ==
    /\ call = "sending"
    /\ call' = "error" /\ answer' = "refused"
    /\ UNCHANGED <<retries, turn, stored>>

UploadStep == BeginUpload \/ Accepted \/ Unavailable \/ Lost \/ Refused

UploadSpec == UploadInit /\ [][UploadStep]_uploadVars

-----------------------------------------------------------------------------
\* UploadFile answers nil only for what the bucket holds: uploadPayload drops
\* the chunk from its work and UploadRemote renames the cached index on it.
\* With negative Retries the loop sends nothing and answers nil (cos.go:59).
NilMeansStored == call = "nil" /\ retries >= 0 => stored

\* It gives up on a refusal, at once, and otherwise only when Retries
\* repetitions have failed as well.
GivesUpRightly ==
    /\ answer = "refused" => call = "error"
    /\ call = "error" => answer = "refused" \/ turn = retries + 1

\* Every call returns, whatever the answers are.
UploadReturns == call = "sending" ~> call \in {"nil", "error"}
=============================================================================
