----------------------------- MODULE DiscordClient -----------------------------
(***************************************************************************)
(* What becomes of an answer of Discord's API: the client turns it into a  *)
(* value or an error (internal/discord), and the handlers ask the error    *)
(* whether the author's grant is at fault (resolve.go, member.go).         *)
(*                                                                         *)
(* An answer is its status, the OAuth error code in its body, and how much *)
(* of the body can be used: "cut" cannot be read to its end or is too      *)
(* long, "garbage" is no JSON, "partial" lacks what a value needs.         *)
(***************************************************************************)
EXTENDS Naturals

Codes == {"", "invalid_grant", "invalid_client"}
Statuses == {200, 400, 401, 404, 429, 500}
Answers == [status : Statuses, code : Codes,
            body : {"whole", "partial", "garbage", "cut"}]

\* An error, by the types that errors.As finds in its chain.
Failure(types, status, code) == [ok |-> FALSE, types |-> types, status |-> status, code |-> code]
Value == [ok |-> TRUE, types |-> {}, status |-> 200, code |-> ""]
OtherError == Failure({}, 0, "")

\* A body that is no JSON leaves the code empty and keeps the status.
ParsedCode(a) == IF a.body = "garbage" THEN "" ELSE a.code
parseOAuthError(a) == Failure({"OAuthError"}, a.status, ParsedCode(a))
parseAPIError(a) == Failure({"APIError"}, a.status, "")
\* A RateLimitError unwraps to the error it was made from.
parseRateLimitError(base) == Failure(base.types \cup {"RateLimitError"}, base.status, base.code)

\* The order in which requestToken and get look at an answer.
ReadAnswer(a, base, complete) ==
    CASE a.body = "cut" -> OtherError
      [] a.body # "cut" /\ a.status = 429 -> parseRateLimitError(base)
      [] a.body # "cut" /\ a.status \notin {200, 429} -> base
      [] a.body # "cut" /\ a.status = 200 -> IF complete THEN Value ELSE OtherError

requestToken(a) == ReadAnswer(a, parseOAuthError(a), a.body = "whole")
\* get wants JSON; Me then wants a user in it, GuildMember takes it as it is.
Me(a) == ReadAnswer(a, parseAPIError(a), a.body = "whole")
GuildMember(a) == ReadAnswer(a, parseAPIError(a), a.body # "garbage")

-----------------------------------------------------------------------------
\* Mutant of refreshRefused: every refusal of the token endpoint.
refusedWhateverCode(e) == "OAuthError" \in e.types

\* refreshedAccessToken: "Only invalid_grant means the stored grant is no
\* longer usable."
refreshRefused(e) == "OAuthError" \in e.types /\ e.code = "invalid_grant"

\* resolveUser: what a request answers after Me.
resolveUser(e) ==
    CASE e.ok -> "linked"
      [] ~e.ok /\ "APIError" \in e.types /\ e.status = 401 -> "revoked"
      [] ~e.ok /\ ("APIError" \notin e.types \/ e.status # 401) -> "error"

\* writeMember: what a request answers after GuildMember.
writeMember(e) ==
    IF ~e.ok /\ "APIError" \in e.types /\ e.status = 404 THEN "not_a_member"
    ELSE resolveUser(e)
=============================================================================
