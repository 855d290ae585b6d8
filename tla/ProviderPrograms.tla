-------------------------- MODULE ProviderPrograms --------------------------
(***************************************************************************)
(* The validation programs of the rules that make one request              *)
(* (cmd/generate/config/rules), and what all programs have in common: a    *)
(* verdict is earned by an answer.                                         *)
(***************************************************************************)
EXTENDS ProviderAnswers

(* Programs of one request.                                                *)
utilsBearerGetValidationExpr(r) == Judged(Live(r), Rejected(r))
OnePasswordServiceAccountToken(r) == Judged(Live(r), Rejected(r))
AbuseIPDBAPIKey(r) == Judged(Live(r), Denied(r))
airtableValidateExpr(r) == Judged(Ok(r), Rejected(r))
AivenAuthToken(r) == Judged(Ok(r), Rejected(r))
algoliaValidateExpr(r) == Judged(Live(r), Ok(r) /\ Says(r, "refused"))
AmplitudeSecretKey(r) == Judged(Live(r), r.status \in {400, 401, 403})
AnthropicApiKey(r) == Judged(Live(r), Rejected(r))
AnthropicAdminApiKey(r) == Judged(Live(r), Rejected(r))
apifyValidateExpr(r) == Judged(Live(r), Denied(r))
ApolloAPIKey(r) == Judged(Live(r) \/ ForbiddenSaying(r, "bound"), DeniedSaying(r, "refused"))
ArtifactoryApiKey(r) == Judged(Ok(r), Rejected(r))
ArtifactoryReferenceToken(r) == Judged(Ok(r), Rejected(r))
AsaasAPIToken(r) == Judged(Live(r), Rejected(r))
Auth0ClientSecret(r) == Judged(Says(r, "live"), Says(r, "refused"))
Authress(r) == Judged(Ok(r) /\ ~Says(r, "refused"), Rejected(r) \/ Says(r, "refused"))
bitlyValidateExpr(r) == Judged(Live(r), Denied(r))
BitriseAccessToken(r) == Judged(Ok(r), Rejected(r))
boxValidateExpr(r) == Judged(Live(r), Denied(r))
BraveSearchAPIKey(r) == Judged(Ok(r), Rejected(r))
BrowserStackAccessKey(r) ==
  IF ForbiddenSaying(r, "limited") THEN "unknown" ELSE Judged(Live(r), Rejected(r))
buildkiteValidateExpr(r) == Judged(Live(r), Rejected(r))
CanvaClientSecret(r) == Judged(r.status = 400 /\ Says(r, "live") /\ ~Says(r, "refused"),
                              r.status \in {400, 401, 403} /\ Says(r, "refused"))
CartesiaAPIKey(r) == Judged(Ok(r), Denied(r))
Cerebras(r) == Judged(Live(r), Rejected(r))
CheckoutSecretKey(r) == Judged(Ok(r), Rejected(r))
circleciValidateExpr(r) == Judged(Live(r), Denied(r))
CircleCIProjectToken(r) == Judged(Ok(r), Rejected(r))
Civo(r) == Judged(Ok(r), Rejected(r))
ClerkSecretKey(r) == Judged(Ok(r), Rejected(r))
ClickHouseCloud(r) == Judged(Live(r), Rejected(r))
clickupValidateExpr(r) == Judged(Live(r), Denied(r))
(* An account's token is not asked about without the account's id.          *)
cloudflareAPITokenValidateExpr(noAccount, r) ==
  IF noAccount THEN "needs_validation"
  ELSE Ended(Ok(r) /\ Says(r, "ended"), Judged(Live(r), Rejected(r)))
CloudinaryAPISecret(r) == Judged(Ok(r), Rejected(r))
CloudsmithAPIKey(r) == Judged(Live(r), Rejected(r) \/ Ok(r))
CockroachLabsCloudAPIKey(r) == Judged(Live(r), Rejected(r))
CodecovAccessToken(r) == Judged(Live(r), Rejected(r))
CohereAPIToken(r) == Judged(Live(r), Rejected(r))
configCatValidationExpr(r) == Judged(Ok(r), r.status \in {401, 403, 404})
CouchbaseCapellaAPIKey(r) == Judged(Ok(r), Rejected(r))
CratesIOAPIKey(r) == Judged(Ok(r), Rejected(r))
CursorAPIKey(r) == Judged(Live(r), Rejected(r))
DatabentoAPIKey(r) == Judged(Ok(r), Rejected(r))
DatadogAPIKey(r) == Judged(Ok(r) /\ ~Says(r, "refused"), Rejected(r) \/ Says(r, "refused"))
DataGovAPIKey(r) == Judged(Ok(r), Rejected(r))
DataStaxAstraApplicationToken(r) == Judged(Ok(r), Denied(r))
DeepSeek(r) == Judged(Live(r), Rejected(r))
DenoAccountToken(r) == Judged(Live(r), Rejected(r))
devCycleValidationExpr(r) == Judged(Ok(r), Denied(r))
DevinPersonalAPIKey(r) == Judged(Live(r), Rejected(r))
DevinServiceAPIKey(r) == Judged(Live(r), Rejected(r))
DevinServiceUserToken(r) == Judged(Live(r), Rejected(r))
DisqusAPIKey(r) == Judged(Live(r), Rejected(r))
EBayClientSecret(r) == Judged(Live(r), DeniedSaying(r, "refused"))
ElasticCloudAPIKey(r) == Judged(Live(r), Rejected(r))
EtsyAccessToken(r) == Judged(Ok(r), Rejected(r))
ExoscaleAPIKey(r) == Judged(Ok(r), Rejected(r))
FalAPIKey(r) == Judged(Live(r), DeniedSaying(r, "refused"))
fastlyValidateExpr(r) == Ended(Denied(r), Judged(Live(r), Forbidden(r)))
figmaValidateExpr(r) == Judged(Live(r), Denied(r))
FlyIOAccessToken(r) == Judged(Live(r), Rejected(r))
FrameIO(r) == Judged(Ok(r), Denied(r))
FreshbooksAccessToken(r) == Judged(Ok(r), Rejected(r))
fullstoryValidateExpr(r) == Judged(Live(r), Denied(r))
GCNotifyAPIKey(r) == Judged(Ok(r), Rejected(r))
githubTokenExpr(r) == Judged(Live(r), Rejected(r))
githubAppTokenExpr(r) == Judged(Live(r), Rejected(r))
GoCardless(r) == Judged(Ok(r), Rejected(r))
GrafanaCloudApiToken(r) == Judged(Ok(r), Rejected(r))
Groq(r) == Judged(Live(r), Rejected(r))
GumroadAccessToken(r) == Judged(Live(r), Rejected(r))
HarnessApiKey(r) == Judged(Ok(r) \/ Forbidden(r), Denied(r))
highnoteLiveValidationExpr(r) == Judged(Live(r), Rejected(r))
honeycombValidateExpr(r) == Judged(Live(r), Rejected(r))
huggingFaceValidateExpr(r) == Ended(DeniedSaying(r, "ended"), Judged(Ok(r), Rejected(r)))
hunterValidateExpr(r) == Judged(Live(r), Denied(r))
IBMCloudUserAPIKey(r) == Judged(Ok(r), Rejected(r))
InfluxDBAPIToken(r) == Judged(Ok(r), Rejected(r))
Infomaniak(r) == Judged(Live(r), Rejected(r))
InstantlyAPIKey(r) == Judged(Ok(r) \/ r.status = 402, DeniedSaying(r, "refused"))
IonicPersonalAccessToken(r) == Judged(Live(r), Rejected(r) \/ Says(r, "refused"))
JumpCloudAPIKey(r) == Judged(Live(r), Rejected(r))
KagiAPIKey(r) == Judged(Live(r), Rejected(r))
KimiAPIKey(r) == Judged(Live(r), Rejected(r))
KlaviyoAPIKey(r) == Judged(Live(r), Rejected(r))
LangSmithPersonalAccessToken(r) == Judged(Ok(r), Rejected(r))
LangSmithServiceKey(r) == Judged(Ok(r), Rejected(r))
LangfuseSecretKey(r) == Judged(Ok(r), FALSE)
LarkAppSecret(r) == Judged(Live(r), Ok(r) /\ Says(r, "refused"))
LichessPersonalAccessToken(r) == Judged(Ok(r), Rejected(r))
LightOn(r) == Judged(Live(r), Rejected(r))
linearValidateExpr(r) == Judged(Live(r), Denied(r))
LlamaCloudAPIKey(r) == Judged(Ok(r), FALSE)
mailchimpValidateExpr(r) == Judged(Live(r), Denied(r))
MailerSendAPIToken(r) == Judged(Ok(r), Rejected(r))
MailGunPrivateAPIToken(r) == Judged(Ok(r), Rejected(r))
Mem0APIKey(r) == Judged(Live(r), DeniedSaying(r, "refused"))
Meraki(r) == Judged(Ok(r), Rejected(r))
MercuryProductionAPIToken(r) == Judged(Ok(r), Rejected(r))
MergifyApplicationKey(r) == Judged(Live(r), Rejected(r))
MidtransProductionServerClientKey(r) ==
  Judged(Ok(r) \/ (r.status = 404 /\ Says(r, "live")), Rejected(r))
MiniMaxAPIKey(r) == Judged(Live(r), Rejected(r))
miroValidateExpr(r) == Judged(Live(r), r.status \in {400, 401})
MiroClientSecret(r) == Judged(DeniedSaying(r, "live"), DeniedSaying(r, "refused"))
Mistral(r) == Judged(Live(r), Rejected(r))
MondayAPIToken(r) == Judged(Live(r), Denied(r))
MongoDBAtlasServiceAccountSecret(r) == Judged(Live(r), Denied(r))
MuxAccessTokenSecret(r) == Judged(Ok(r) \/ Forbidden(r), Denied(r))
NeonAPIKey(r) == Judged(Ok(r) \/ (r.status = 400 /\ Says(r, "bound")), Rejected(r))
NgrokAPIKey(r) == Judged(Ok(r) \/ (r.status = 400 /\ Says(r, "bound")), Rejected(r))
NugetAPIKey(r) == Judged((r.status = 404 /\ Says(r, "live")) \/ r.status = 400, Forbidden(r))
OneSignalRichAuthenticationToken(r) == Judged(Ok(r) \/ ForbiddenSaying(r, "bound"), Denied(r))
onfidoLiveAPIToken(r) == Judged(Ok(r), Rejected(r))
OpenAI(r) == Judged(Live(r), Rejected(r))
openrouterValidateExpr(r) == Judged(Live(r), Denied(r))
OpenWeatherAPIKey(r) == Judged(Ok(r), Rejected(r))
OVHApplicationSecret(r) == Judged(Ok(r), r.status \in {400, 401, 403})
PaddleLiveAPIKey(r) == Judged(Ok(r), Denied(r) \/ ForbiddenSaying(r, "refused"))
PagerDutyAuthorizationToken(r) == Judged(Live(r), Denied(r))
PayPalClientSecret(r) == Judged(Live(r), FALSE)
PerplexityAPIKey(r) == Judged(r.status \in {200, 400, 404, 422}, Rejected(r))
PersonaProductionAPIKey(r) == Judged(Ok(r) \/ ForbiddenSaying(r, "bound"), Denied(r))
pineconeValidateExpr(r) == Judged(Live(r) \/ Forbidden(r), Denied(r))
PinterestAccessToken(r) == Judged(Live(r) \/ Forbidden(r), DeniedSaying(r, "refused"))
PlanetScaleAPIToken(r) == Judged(Live(r), Rejected(r))
PlivoAuthToken(r) == Judged(Ok(r) \/ Forbidden(r), Denied(r))
polarUserTokenValidateExpr(r) == Judged(Live(r) \/ Forbidden(r), DeniedSaying(r, "refused"))
PolarOrganizationAccessToken(r) == Judged(Live(r) \/ Forbidden(r), DeniedSaying(r, "refused"))
PolymarketAPIKey(r) == Judged(Ok(r), Rejected(r))
ProofFullAccessAPIKey(r) == Judged(r.status = 422 /\ Says(r, "live"), Denied(r))
RainforestPayProductionAPIKey(r) ==
  Judged(Live(r) \/ ForbiddenSaying(r, "bound"), DeniedSaying(r, "refused"))
RampClientSecret(r) ==
  Judged(Live(r) \/ (r.status = 400 /\ Says(r, "bound")), DeniedSaying(r, "refused"))
RazorpayKeySecret(r) == Judged(Live(r), Denied(r))
RedirectPizzaAPIToken(r) == Judged(Ok(r), DeniedSaying(r, "refused"))
RenderAPIKey(r) == Judged(Ok(r), Rejected(r))
replicateValidateExpr(r) == Judged(Live(r), Denied(r))
ResendAPIKey(r) == Judged(Ok(r) \/ DeniedSaying(r, "bound"), ForbiddenSaying(r, "refused"))
RetellAPIKey(r) == Judged(Live(r), DeniedSaying(r, "refused"))
RootlyAPIKey(r) == Judged(r.status \in {200, 404}, Denied(r))
RubyGemsAPIToken(r) == Ended(ForbiddenSaying(r, "ended"), Judged(Ok(r) \/ Forbidden(r), Denied(r)))
RunPodAPIKey(r) == Judged(Live(r), Denied(r))
SalesforceAccessToken(r) == Judged(Live(r) \/ ForbiddenSaying(r, "bound"), Denied(r))
SamsaraAPIToken(r) == Judged(Ok(r) \/ Forbidden(r), DeniedSaying(r, "refused"))
ScalewaySecretKey(r) == Judged(Ok(r) \/ Forbidden(r), Denied(r))
ScalrAPIAccessToken(r) == Judged(Live(r) \/ Forbidden(r), Denied(r))
SegmentPublicAPIToken(r) == Judged(Ok(r), Forbidden(r))
sendgridValidateExpr(r) == Judged(Live(r), Denied(r))
brevoValidateExpr(r) == Judged(Live(r), Denied(r))
slackValidateExpr(r) == IF Live(r) THEN "valid" ELSE IF Says(r, "ended") THEN "revoked"
                        ELSE Judged(FALSE, Says(r, "refused") \/ Rejected(r))
SnowflakeProgrammaticAccessToken(r) ==
  Judged(r.status \in {200, 202} /\ Says(r, "live"), Rejected(r))
SourceGraph(r) == Judged(Live(r), Rejected(r))
SSLMateAPIKey(r) == Judged(Live(r), DeniedSaying(r, "refused"))
StripeAccessToken(r) == Judged(Live(r), Denied(r))
SupabaseManagementToken(r) == Judged(Ok(r), Rejected(r))
SupabaseProjectAPIKey(r) == Judged(Live(r), Rejected(r))
TableauPersonalAccessToken(r) == Judged(Live(r), r.status \in {400, 401, 403})
TailscaleAPIKey(r) == Judged(r.status = 204, Denied(r))
TelnyxAPIV2Key(r) == Judged(Live(r) \/ Forbidden(r), Denied(r))
TemporalCloudAPIKey(r) == Judged(Live(r), Denied(r))
ThunderstoreAPIToken(r) == Judged(Live(r), Denied(r))
TogetherAI(r) == Judged(Live(r), Rejected(r))
twitchValidateExpr(r) == Judged(Live(r), Denied(r))
UnkeyRootKey(r) == Judged(Live(r), Denied(r))
UpCloud(r) == Judged(Live(r), Rejected(r))
Upstage(r) == Judged(Live(r), Rejected(r))
UpstashRedisRESTToken(r) == Judged(Live(r), Denied(r))
ValTownAPIToken(r) == Judged(Live(r), Denied(r))
vercelTokenValidateExpr(r) == Judged(Live(r), Rejected(r))
VercelIntegrationToken(r) == Judged(Live(r), Rejected(r))
VercelAppAccessToken(r) == Judged(Live(r), Rejected(r))
VercelAppRefreshToken(r) == Judged(Live(r), (Ok(r) /\ Says(r, "refused")) \/ Rejected(r))
VercelAIGatewayKey(r) == Judged(Ok(r) \/ Forbidden(r), Denied(r))
VirusTotalAPIKey(r) == Judged(Live(r) \/ ForbiddenSaying(r, "bound") \/ DeniedSaying(r, "bound"),
                             DeniedSaying(r, "refused"))
VoyageAIAPIKey(r) == IF Denied(r) \/ Says(r, "refused") THEN "invalid"
                     ELSE Judged(r.status \in {200, 400, 403}, FALSE)
VultrAPIKey(r) == Judged(Live(r), DeniedSaying(r, "refused"))
wakaTimeAPIKeyValidateExpr(r) == Judged(Live(r), Denied(r))
WeatherstackAPIKey(r) == Judged(Live(r), DeniedSaying(r, "refused"))
WeightsAndBiases(r) == Judged(Live(r), Rejected(r))
WeightsAndBiasesV1(r) == Judged(Live(r), Rejected(r))
WizClientSecret(r) == Judged(Live(r), Denied(r))
WorkatoDeveloperAPIToken(r) == Judged(Live(r) \/ Forbidden(r), Denied(r))
WorkOSProductionAPIKey(r) == Judged(Live(r) \/ Forbidden(r), Denied(r))
xaiValidateExpr(r) ==
  IF Live(r) /\ Says(r, "refused") THEN "invalid" ELSE Judged(Live(r), Denied(r))
XenditProductionAPIKey(r) == Judged(Live(r), DeniedSaying(r, "refused"))
ZAIAPIKey(r) == Judged(Live(r) \/ (r.status = 429 /\ Says(r, "bound")), Rejected(r))
ZohoOAuthToken(r) == Judged(Live(r), FALSE)
ZohoClientSecret(r) == Judged(Live(r), FALSE)
ZuploConsumerAPIKey(r) == Judged(Ok(r), Denied(r))
gitlabUserExpr(r) == Judged(Ok(r), Rejected(r))
gitlabPatExpr(r) == Judged(Ok(r), Rejected(r))
gitlabRunnerRegistrationExpr(r) == Judged(Ok(r) /\ ~Says(r, "refused"), Rejected(r))
alibabaAccessKeyValidationExpr(r) == Judged(Live(r), Rejected(r) \/ Says(r, "refused"))

Programs(r) ==
  { OnePasswordServiceAccountToken(r), AbuseIPDBAPIKey(r), airtableValidateExpr(r),
    AivenAuthToken(r), algoliaValidateExpr(r), AmplitudeSecretKey(r), AnthropicApiKey(r),
    AnthropicAdminApiKey(r), apifyValidateExpr(r), ApolloAPIKey(r), ArtifactoryApiKey(r),
    ArtifactoryReferenceToken(r), AsaasAPIToken(r), Auth0ClientSecret(r), Authress(r),
    bitlyValidateExpr(r), BitriseAccessToken(r), boxValidateExpr(r), BraveSearchAPIKey(r),
    BrowserStackAccessKey(r), buildkiteValidateExpr(r), CanvaClientSecret(r), CartesiaAPIKey(r),
    Cerebras(r), CheckoutSecretKey(r), circleciValidateExpr(r), CircleCIProjectToken(r),
    Civo(r), ClerkSecretKey(r), ClickHouseCloud(r), clickupValidateExpr(r),
    cloudflareAPITokenValidateExpr(TRUE, r), cloudflareAPITokenValidateExpr(FALSE, r),
    CloudinaryAPISecret(r), CloudsmithAPIKey(r), CockroachLabsCloudAPIKey(r),
    CodecovAccessToken(r), CohereAPIToken(r), configCatValidationExpr(r),
    CouchbaseCapellaAPIKey(r), CratesIOAPIKey(r), CursorAPIKey(r), DatabentoAPIKey(r),
    DatadogAPIKey(r), DataGovAPIKey(r), DataStaxAstraApplicationToken(r), DeepSeek(r),
    DenoAccountToken(r), devCycleValidationExpr(r), DevinPersonalAPIKey(r),
    DevinServiceAPIKey(r), DevinServiceUserToken(r), DisqusAPIKey(r), EBayClientSecret(r),
    ElasticCloudAPIKey(r), EtsyAccessToken(r), ExoscaleAPIKey(r), FalAPIKey(r),
    fastlyValidateExpr(r), figmaValidateExpr(r), FlyIOAccessToken(r), FrameIO(r),
    FreshbooksAccessToken(r), fullstoryValidateExpr(r), GCNotifyAPIKey(r), githubTokenExpr(r),
    githubAppTokenExpr(r), GoCardless(r), GrafanaCloudApiToken(r), Groq(r),
    GumroadAccessToken(r), HarnessApiKey(r), highnoteLiveValidationExpr(r),
    honeycombValidateExpr(r), huggingFaceValidateExpr(r), hunterValidateExpr(r),
    IBMCloudUserAPIKey(r), InfluxDBAPIToken(r), Infomaniak(r), InstantlyAPIKey(r),
    IonicPersonalAccessToken(r), JumpCloudAPIKey(r), KagiAPIKey(r), KimiAPIKey(r),
    KlaviyoAPIKey(r), LangSmithPersonalAccessToken(r), LangSmithServiceKey(r),
    LangfuseSecretKey(r), LarkAppSecret(r), LichessPersonalAccessToken(r), LightOn(r),
    linearValidateExpr(r), LlamaCloudAPIKey(r), mailchimpValidateExpr(r), MailerSendAPIToken(r),
    MailGunPrivateAPIToken(r), Mem0APIKey(r), Meraki(r), MercuryProductionAPIToken(r),
    MergifyApplicationKey(r), MidtransProductionServerClientKey(r), MiniMaxAPIKey(r),
    miroValidateExpr(r), MiroClientSecret(r), Mistral(r), MondayAPIToken(r),
    MongoDBAtlasServiceAccountSecret(r), MuxAccessTokenSecret(r), NeonAPIKey(r), NgrokAPIKey(r),
    NugetAPIKey(r), OneSignalRichAuthenticationToken(r), onfidoLiveAPIToken(r), OpenAI(r),
    openrouterValidateExpr(r), OpenWeatherAPIKey(r), OVHApplicationSecret(r),
    PaddleLiveAPIKey(r), PagerDutyAuthorizationToken(r), PayPalClientSecret(r),
    PerplexityAPIKey(r), PersonaProductionAPIKey(r), pineconeValidateExpr(r),
    PinterestAccessToken(r), PlanetScaleAPIToken(r), PlivoAuthToken(r),
    polarUserTokenValidateExpr(r), PolarOrganizationAccessToken(r), PolymarketAPIKey(r),
    ProofFullAccessAPIKey(r), RainforestPayProductionAPIKey(r), RampClientSecret(r),
    RazorpayKeySecret(r), RedirectPizzaAPIToken(r), RenderAPIKey(r), replicateValidateExpr(r),
    ResendAPIKey(r), RetellAPIKey(r), RootlyAPIKey(r), RubyGemsAPIToken(r), RunPodAPIKey(r),
    SalesforceAccessToken(r), SamsaraAPIToken(r), ScalewaySecretKey(r), ScalrAPIAccessToken(r),
    SegmentPublicAPIToken(r), sendgridValidateExpr(r), brevoValidateExpr(r),
    slackValidateExpr(r), SnowflakeProgrammaticAccessToken(r), SourceGraph(r), SSLMateAPIKey(r),
    StripeAccessToken(r), SupabaseManagementToken(r), SupabaseProjectAPIKey(r),
    TableauPersonalAccessToken(r), TailscaleAPIKey(r), TelnyxAPIV2Key(r),
    TemporalCloudAPIKey(r), ThunderstoreAPIToken(r), TogetherAI(r), twitchValidateExpr(r),
    UnkeyRootKey(r), UpCloud(r), Upstage(r), UpstashRedisRESTToken(r), ValTownAPIToken(r),
    vercelTokenValidateExpr(r), VercelIntegrationToken(r), VercelAppAccessToken(r),
    VercelAppRefreshToken(r), VercelAIGatewayKey(r), VirusTotalAPIKey(r), VoyageAIAPIKey(r),
    VultrAPIKey(r), wakaTimeAPIKeyValidateExpr(r), WeatherstackAPIKey(r), WeightsAndBiases(r),
    WeightsAndBiasesV1(r), WizClientSecret(r), WorkatoDeveloperAPIToken(r),
    WorkOSProductionAPIKey(r), xaiValidateExpr(r), XenditProductionAPIKey(r), ZAIAPIKey(r),
    ZohoOAuthToken(r), ZohoClientSecret(r), ZuploConsumerAPIKey(r), gitlabUserExpr(r),
    gitlabPatExpr(r), gitlabRunnerRegistrationExpr(r), alibabaAccessKeyValidationExpr(r) }

(* What became of a request, as the programs that make it see it.          *)
Verdicts(x) ==
  Clouds(x) \cup IF HttpRequest(x) = {} THEN {"error"}
                 ELSE UNION {Programs(r) : r \in HttpRequest(x)}

-----------------------------------------------------------------------------
(* A status that says nothing of the credential: of an answer that went    *)
(* elsewhere, that asks to wait, or that the provider fails with. Some     *)
(* programs read the body at any status, and then it is the word for the   *)
(* verdict that must be in it; with none in it there is no verdict.        *)
Unhelpful == {0, 302, 408, 429, 500, 503}
WordsFor  == [valid |-> {"live", "bound"}, invalid |-> {"refused"}, revoked |-> {"ended"}]
Silent(r) == r.says = {} /\ r.status \in Unhelpful
NoVerdict == {"unknown", "needs_validation", "error"}

(* A verdict is earned by an answer, and by the body alone only with the   *)
(* word for it; a credential is not dead that answers only the living, nor *)
(* alive that is refused without a word.                                   *)
VerdictsRight(x) ==
  LET r == [status |-> x.status, says |-> x.says] IN
  /\ x.outcome = "lost" /\ x.input = "good" => Verdicts(x) \subseteq NoVerdict
  /\ x.outcome = "answered" /\ x.status \in Unhelpful /\ x.input \in {"good", "elsewhere"}
       => \A v \in Verdicts(x) \ NoVerdict : x.says \cap WordsFor[v] # {}
  /\ x.outcome = "answered" /\ r = [status |-> 200, says |-> {"live"}] =>
       Programs(r) \cap {"invalid", "revoked"} = {}
  /\ x.outcome = "answered" /\ r = Status(401) => "valid" \notin Programs(r)
  /\ x.outcome = "answered" /\ r \in {Status(200), Status(403)} => "revoked" \notin Verdicts(x)
  /\ "valid" \in Clouds(x) => x.status \in {200, 201, 202, 204} /\ x.outcome \in {"answered", "cut"}
  /\ "revoked" \in Revocations(r) =>
       r.status \in 200 .. 299

(* A credential is refused only where all who could know it refuse it.     *)
RegionsRight(r, s) ==
  /\ Silent(r) \/ Silent(s) => "invalid" \notin RegionPrograms(r, s)
  /\ Silent(r) /\ Silent(s) => gcpAPIKeyValidationExpr(r, s) = "unknown"
  /\ Silent(r) \/ Silent(s) => twitchRevokeExpr(r, s) = "unknown"

(* No capability is made up; none at all is explained; and more grants     *)
(* never make for a lower severity.                                        *)
AnalysesRight(r, grants, more) ==
  LET All(g) == Analyses(r, g) \o Unexplained(r, g)
      first  == All(grants)
      second == All(grants \cup more)
  IN  \A i \in DOMAIN first :
        /\ first[i].capabilities \subseteq UNION grants
        /\ (first[i].capabilities = {} /\ grants # {} /\ i <= Len(Analyses(r, grants))
              => first[i].reason)
        /\ Severity(first[i].capabilities) <= Severity(second[i].capabilities)
=============================================================================
