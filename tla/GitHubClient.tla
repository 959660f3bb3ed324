------------------------------ MODULE GitHubClient ------------------------------
(***************************************************************************)
(* What becomes of an answer of GitHub's REST API: the client turns it     *)
(* into a value or an error (internal/github), and a handler that treats   *)
(* one refusal apart from the others asks the error for its status.        *)
(*                                                                         *)
(* An answer is its status and how much of its body can be used: "cut"     *)
(* cannot be read to its end, is too long or never comes, "garbage" is no  *)
(* JSON.  A call may have taken effect whatever the client makes of it.    *)
(***************************************************************************)
EXTENDS Naturals

Statuses == {200, 404, 500}
Answers == [status : Statuses, body : {"whole", "garbage", "cut"}]

\* An error, by whether errors.As finds an APIError in its chain.
APIError(status) == [ok |-> FALSE, api |-> TRUE, status |-> status]
OtherError == [ok |-> FALSE, api |-> FALSE, status |-> 0]
Value == [ok |-> TRUE, api |-> FALSE, status |-> 200]

\* A refusal keeps its status, whatever its body says; a success whose body the
\* caller wants is an error when it cannot be decoded.
sendRequest(a, decodes) ==
    CASE a.body = "cut" -> OtherError
      [] a.body # "cut" /\ a.status # 200 -> APIError(a.status)
      [] a.body # "cut" /\ a.status = 200 ->
            IF decodes /\ a.body = "garbage" THEN OtherError ELSE Value

UpdateComment(a) == sendRequest(a, FALSE)
CreateComment(a) == sendRequest(a, TRUE)
=============================================================================
