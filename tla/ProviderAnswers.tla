-------------------------- MODULE ProviderAnswers ---------------------------
(***************************************************************************)
(* What providers answer, and what is made of it that takes more than one  *)
(* request's answer: the functions that ask clouds (exprruntime), and the  *)
(* programs that ask twice, revoke a credential or say what it may do      *)
(* (cmd/generate/config/rules).                                            *)
(*                                                                         *)
(* An exchange is a request and what becomes of it. An answer has a status *)
(* and says some of these, whatever the words: "live", what only a live    *)
(* credential is told; "refused", that it is not accepted; "bound", that   *)
(* it is, but not for this; "ended", that it was revoked or has expired;   *)
(* "limited", that there were too many requests; "tokenless", that a token *)
(* was asked for and is not there.                                         *)
(***************************************************************************)
EXTENDS Integers, Sequences

Says(r, what) == what \in r.says
Ok(r)         == r.status = 200
Live(r)       == Ok(r) /\ Says(r, "live")
Denied(r)     == r.status = 401
Forbidden(r)  == r.status = 403
Rejected(r)   == Denied(r) \/ Forbidden(r)
DeniedSaying(r, what)    == Denied(r) /\ Says(r, what)
ForbiddenSaying(r, what) == Forbidden(r) /\ Says(r, what)

(* The chain of conditions that a program is, and validate.unknown.        *)
Judged(valid, invalid)  == IF valid THEN "valid" ELSE IF invalid THEN "invalid" ELSE "unknown"
Ended(ended, otherwise) == IF ended THEN "revoked" ELSE otherwise

-----------------------------------------------------------------------------
(* httpRequest: a request that is lost fails the program.                  *)
HttpRequest(x) == IF x.outcome = "answered" THEN {[status |-> x.status, says |-> x.says]} ELSE {}

(* The functions for clouds answer what has no answer with a status, too.  *)
Status(n) == [status |-> n, says |-> {}]

(* azureDo: "no host" is the name service's answer, "cut" a body that      *)
(* could not be read.                                                      *)
AzureDo(x) ==
  CASE x.outcome = "no host" -> Status(404)
    [] x.outcome = "lost"    -> Status(0)
    [] x.outcome = "cut"     -> Status(x.status)
    [] OTHER                 -> [status |-> x.status, says |-> x.says]

Sent(x, refused) == IF x.input \in refused THEN Status(400) ELSE AzureDo(x)
azureValidateStorage(x)       == Sent(x, {"incomplete", "bad key"})
azureValidateAppConfig(x)     == Sent(x, {"incomplete", "bad key", "unreadable"})
azureValidateServiceBusSAS(x) == Sent(x, {"incomplete", "unreadable"})

(* An answer without the token is none.                                    *)
WithToken(r) == IF Ok(r) /\ Says(r, "tokenless") THEN [r EXCEPT !.status = 0] ELSE r

azureValidateServicePrincipal(x) == WithToken(Sent(x, {"incomplete", "unreadable"}))

awsValidate(x) == IF x.outcome \in {"lost", "no host"} THEN Status(0) ELSE AzureDo(x)

(* validateGCPCredential: where the token is asked for is in the           *)
(* credential, and only Google's own places are asked. One that cannot be  *)
(* read, that lacks a field its kind needs or whose key signs nothing is   *)
(* not sent.                                                               *)
Unusable == {"unreadable", "incomplete", "bad key"}

gcpValidate(x) ==
  IF x.input = "elsewhere" \/ (x.input = "good" /\ x.outcome = "no host") THEN Status(0)
  ELSE WithToken(Sent(x, Unusable))

AWS(x) ==
  LET r == awsValidate(x)
  IN  Ended(ForbiddenSaying(r, "ended"), Judged(Ok(r), Forbidden(r)))

GCPApplicationDefaultCredentials(x) ==
  LET r == gcpValidate(x) IN Judged(Ok(r), r.status \in {400, 401})
GCPServiceAccount(x) ==
  LET r == gcpValidate(x) IN Judged(Ok(r), r.status \in {400, 401})
AzureActiveDirectoryClientSecret(x) ==
  LET r == azureValidateServicePrincipal(x) IN Judged(Ok(r), r.status \in {400, 401, 403, 404})
AzureStorageAccountKey(x) ==
  LET r == azureValidateStorage(x) IN Judged(Ok(r), r.status \in {400, 401, 403, 404})
AzureAppConfigurationConnectionString(x) ==
  LET r == azureValidateAppConfig(x) IN Judged(Ok(r), r.status \in {400, 401, 403, 404})
AzureServiceBusConnectionString(x) ==
  LET r == azureValidateServiceBusSAS(x) IN Judged(r.status \in {200, 201, 202, 204}, r.status \in {400, 401, 403, 404})

Clouds(x) == { AWS(x), GCPApplicationDefaultCredentials(x), GCPServiceAccount(x),
               AzureActiveDirectoryClientSecret(x), AzureStorageAccountKey(x),
               AzureAppConfigurationConnectionString(x), AzureServiceBusConnectionString(x) }

-----------------------------------------------------------------------------
(* Mutant: what the second region answers decides.                         *)
InSecond(us, eu) == Judged(us.status \in {200, 403} \/ eu.status \in {200, 403}, Denied(eu))

(* Programs of two requests. A key of another region is refused as a wrong *)
(* one is.                                                                 *)
InEither(us, eu) ==
  Judged(us.status \in {200, 403} \/ eu.status \in {200, 403}, Denied(us) /\ Denied(eu))

NylasAPIKey(us, eu)           == InEither(us, eu)
OpsgenieAPIKey(us, eu)        == InEither(us, eu)
PostHogPersonalAPIKey(us, eu) == InEither(us, eu)

PostmarkAPIToken(server, account) ==
  Judged(Live(server) \/ Ok(account), Denied(server) /\ Denied(account))

gcpAPIKeyValidationExpr(k, r) ==
  CASE k.status = 400 -> "invalid"
    [] k.status # 400 /\ Live(r) -> "valid"
    [] k.status # 400 /\ (Forbidden(r) \/ (r.status = 400 /\ k.status \in {200, 403})) ->
         "needs_validation"
    [] k.status \notin {200, 400, 403} /\ r.status = 400 -> "invalid"
    [] OTHER -> "unknown"

RegionPrograms(r, s) ==
  {NylasAPIKey(r, s), OpsgenieAPIKey(r, s), PostHogPersonalAPIKey(r, s), PostmarkAPIToken(r, s)}

(* Revocation. Whoever accepts a request for a later time has not revoked. *)
buildkiteRevokeExpr(r)   == Ended(r.status = 204, "unknown")
gitlabPatRevokeExpr(r)   == Ended(r.status = 204, "unknown")
githubRevokeExpr(r)      == "unknown"
huggingFaceRevokeExpr(r) == Ended(r.status = 202, "unknown")
slackRevokeExpr(r)       == Ended(Ok(r) /\ Says(r, "ended"), "unknown")
twitchRevokeExpr(lookup, r) == Ended(Live(lookup) /\ Ok(r), "unknown")

Revocations(r) ==
  {buildkiteRevokeExpr(r), gitlabPatRevokeExpr(r), githubRevokeExpr(r), huggingFaceRevokeExpr(r),
   slackRevokeExpr(r)}

-----------------------------------------------------------------------------
(* What a credential may do. A grant is the set of the capabilities that   *)
(* its name stands for, and "graphql" one that none can be read from.      *)
Granted(known, grants) == {c \in known : \E g \in grants : c \in g}
Analysis(capabilities, reason) == [capabilities |-> capabilities, reason |-> reason]
Recognized(known, grants) == Analysis(Granted(known, grants), Granted(known, grants) = {})

identityOnlyAnalyzeExpr(grants) == Analysis({}, TRUE)
awsAnalyzeExpr(grants)          == Analysis({}, TRUE)
vercelTokenAnalyzeExpr(grants)  == Analysis({}, TRUE)
xaiAnalyzeExpr(grants)          == Analysis({}, TRUE)

algoliaAnalyzeExpr(grants)   == Recognized({"read", "write"}, grants)
fastlyAnalyzeExpr(grants)    == Recognized({"read", "write"}, grants)
honeycombAnalyzeExpr(grants) == Recognized({"read", "write"}, grants)
miroAnalyzeExpr(grants)      == Recognized({"read", "write", "manage_users"}, grants)
sendgridAnalyzeExpr(grants)  == Recognized({"read", "write", "create_credentials", "manage_users"}, grants)
twitchAnalyzeExpr(grants)    == Recognized({"read", "write", "read_secrets", "manage_users"}, grants)
openrouterAnalyzeExpr(grants) == Recognized({"create_credentials"}, grants)

airtableAnalyzeExpr(grants) == Analysis(Granted({"read", "write", "manage_users"}, grants), FALSE)
slackAnalyzeExpr(grants) == Analysis(Granted({"read", "write", "manage_users"}, grants), grants = {})
githubTokenAnalyzeExpr(grants) ==
  Analysis(Granted({"read", "write", "create_credentials"}, grants), grants = {})

buildkiteAnalyzeExpr(grants) ==
  Analysis(Granted({"read", "write", "manage_users"}, grants),
           {"graphql"} \in grants \/ Granted({"read", "write"}, grants) = {})

(* The role of an administrator is a user's and more.                      *)
fullstoryAnalyzeExpr(grants) ==
  LET known == {g \in grants : {"read", "write"} \subseteq g}
  IN  Analysis(Granted({"read", "write", "admin"}, known), known = {})

(* A token of Hugging Face has a role, or permissions of its own.          *)
huggingFaceAnalyzeExpr(grants) == Recognized({"read", "write", "manage_users"}, grants)

(* The grants are asked for: a token that may not read its policy has      *)
(* none that are known.                                                    *)
cloudflareAPITokenAnalyzeExpr(details, grants) ==
  LET known == IF Live(details) THEN grants ELSE {}
  IN  Analysis(Granted({"read", "write", "create_credentials", "manage_users"}, known), ~Live(details))

(* A fine-grained token's permissions are in the list of all tokens.       *)
gitlabPatAnalyzeExpr(granular, tokens, grants) ==
  LET known == IF granular /\ ~Live(tokens) THEN {} ELSE grants
      found == Granted({"read", "write", "create_credentials", "admin"}, known)
  IN  Analysis(found, (granular /\ known = {}) \/ (known # {} /\ found = {}))

Analyses(r, grants) ==
  << identityOnlyAnalyzeExpr(grants), awsAnalyzeExpr(grants), vercelTokenAnalyzeExpr(grants),
     xaiAnalyzeExpr(grants), algoliaAnalyzeExpr(grants), fastlyAnalyzeExpr(grants),
     honeycombAnalyzeExpr(grants), miroAnalyzeExpr(grants), sendgridAnalyzeExpr(grants),
     twitchAnalyzeExpr(grants), openrouterAnalyzeExpr(grants), buildkiteAnalyzeExpr(grants),
     fullstoryAnalyzeExpr(grants), huggingFaceAnalyzeExpr(grants),
     gitlabPatAnalyzeExpr(TRUE, r, grants) >>

(* Programs that do not say why there are no capabilities.                *)
Unexplained(r, grants) ==
  << airtableAnalyzeExpr(grants), slackAnalyzeExpr(grants), githubTokenAnalyzeExpr(grants),
     cloudflareAPITokenAnalyzeExpr(r, grants), gitlabPatAnalyzeExpr(FALSE, r, grants) >>

(* AnalysisSeverity                                                        *)
Severity(capabilities) ==
  CASE capabilities \ {"read"} # {} -> 2 [] capabilities = {"read"} -> 1 [] OTHER -> 0

=============================================================================
