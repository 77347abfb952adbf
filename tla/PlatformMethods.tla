-------------------------- MODULE PlatformMethods --------------------------
(***************************************************************************)
(* The methods of the typed clients of the platform (integration/,         *)
(* platform/, transfercrm/, transfermedia/): each is a list of requests.   *)
(***************************************************************************)
EXTENDS Sequences

\* retried: bearerRequest's idempotent flag.
Req(effect, of, retried) == [effect |-> effect, kind |-> of, retried |-> retried]

\* Mutant: an upsert is marked idempotent.
UpsertSubjectRetried == <<Req("upsert", "subject", TRUE)>>

Once(effect, of) == <<Req(effect, of, FALSE)>>
Retried(effect, of) == <<Req(effect, of, TRUE)>>

\* CRMClient, under an API key, an installation's OAuth or a user's token.
UpsertSubject == Once("upsert", "subject")
\* GetSubject, ListSubjectVariables, ListSubjectTags.
ReadSubject == Retried("read", "subject")
UpdateSubjectTags == Retried("write", "subject")
SetSubjectVariables == Retried("write", "subject")
CountSubjects == Retried("read", "subject")
SearchSubjects == Retried("read", "subject")
GetSubjects == Retried("read", "subject")
\* ListVariableDefinitions, GetVariableDefinition.
ReadDefinitions == Retried("read", "definition")
CreateVariableDefinition == Once("create", "definition")
CreateIntegrationVariableDefinition == Once("create", "definition")
UpdateVariableDefinition == Retried("write", "definition")
DeleteVariableDefinition == Retried("delete", "definition")
\* They call the two creations and take a conflict for success.
EnsureVariableDefinition == Once("ensure", "definition")
EnsureIntegrationVariableDefinition == Once("ensure", "definition")
ListTags == Retried("read", "object")
CreateTag == Once("create", "object")
UpdateTag == Retried("write", "object")
DeleteTag == Retried("delete", "object")
\* ListVariableValueSources, LookupVariableValues: under OAuth only.
ReadValueSources == Once("read", "object")

CRMMethods ==
  {UpsertSubject, ReadSubject, UpdateSubjectTags, SetSubjectVariables, CountSubjects,
   SearchSubjects, GetSubjects, ReadDefinitions, CreateVariableDefinition,
   CreateIntegrationVariableDefinition, UpdateVariableDefinition, DeleteVariableDefinition,
   EnsureVariableDefinition, EnsureIntegrationVariableDefinition, ListTags, CreateTag,
   UpdateTag, DeleteTag, ReadValueSources}

\* FilesClient: a target, the bytes to the storage, and only then a file of them.
createUploadURL == Req("target", "file", TRUE)
putObject == Req("bytes", "file", FALSE)
UploadToNamespace == <<createUploadURL, putObject, Req("create", "file", FALSE)>>
Replace == <<createUploadURL, putObject, Req("write", "file", FALSE)>>
\* List, Get.
ReadFiles == Retried("read", "file")
FilesUsage == Retried("read", "file")
Rename == Once("write", "file")
\* Delete, PurgeNamespace.
DeleteFiles == Once("delete", "file")

FilesMethods == {UploadToNamespace, Replace, ReadFiles, FilesUsage, Rename, DeleteFiles}

\* LinksClient: a link is created under a key of the caller's, which every attempt
\* carries; all callers here have the same intent and so the same key.
CreateLink == Retried("createKeyed", "keyed")
GetLink == Retried("read", "keyed")
\* List, Deliveries.
ReadLinks == Retried("read", "keyed")
DisableLink == Retried("delete", "keyed")
ReplayDelivery == Once("write", "keyed")
\* An endpoint belongs to the application; registering it again replaces it.
RegisterCallback == Once("write", "object")

LinksMethods == {CreateLink, GetLink, ReadLinks, DisableLink, ReplayDelivery, RegisterCallback}

\* Campaigns, execution and analytics, under OAuth.  A campaign is created under the
\* caller's command, a step that is resolved or reactivated under a key is so once, a
\* definition has the caller's ID.
CreateCampaign == Once("createKeyed", "keyed")
StartPrepared == Once("write", "keyed")
CancelCampaign == Once("write", "keyed")
\* List, Get.
ReadCampaigns == Once("read", "keyed")
ReadCatalog == Once("read", "object")
ListNamedTriggers == Once("read", "object")
ResolveKeyed == Once("createKeyed", "keyed")
ReactivateKeyed == Once("createKeyed", "keyed")
Resolve == Once("create", "keyed")
ActivateDetailed == Once("create", "object")
\* List, ListTriggers.
ListTriggers == Once("read", "object")
GetAnalyticsDefinition == Once("read", "keyed")
CreateAnalyticsDefinition == Once("createKeyed", "keyed")

ProjectMethods ==
  {CreateCampaign, StartPrepared, CancelCampaign, ReadCampaigns, ReadCatalog,
   ListNamedTriggers, ResolveKeyed, ReactivateKeyed, Resolve, ActivateDetailed,
   ListTriggers, GetAnalyticsDefinition, CreateAnalyticsDefinition}

\* The platform client of a user: every request is sent once (requestJSON).  What it
\* writes against a revision is in GuardedEdits.
\* Projects, schemes and installations.
ReadProjects == Once("read", "object")
ReadSchemes == Once("read", "object")
CreateScheme == Once("create", "object")
DeleteScheme == Once("delete", "object")
ListInstallations == Once("read", "object")
\* ListMCP; MCPConnection makes a delegation.
ListMCP == Once("read", "object")
MCPConnection == Once("create", "object")
\* The media library.
ListLibrary == Once("read", "file")
LibraryUsage == Once("read", "file")
DeleteLibraryFile == Once("delete", "file")
\* Analytics; a definition has the caller's ID.
Capabilities == Once("read", "object")
\* ListDefinitions, GetDefinition.
UserDefinitions == Once("read", "keyed")
UserCreateDefinition == Once("createKeyed", "keyed")
\* Subject, IndividualValue, AudienceSize.
AnalyticsValues == Once("read", "object")
QueryAnalytics == Once("read", "object")
\* ListDashboards, GetDashboard.
ReadDashboards == Once("read", "object")
\* ListStageSets, GetStageSet.
ReadStageSets == Once("read", "object")
\* StageGraph, GetStageView.
ReadStageGraph == Once("read", "object")
\* Documentation; publishing an article again changes nothing.
ListFolders == Once("read", "keyed")
CreateFolder == Once("create", "keyed")
ListProvisionable == Once("read", "keyed")
ProvisionIntegrationFolder == Once("createKeyed", "keyed")
ListArticles == Once("read", "object")
CreateArticle == Once("create", "object")
changePublication == Once("write", "object")

UserMethods ==
  {ReadProjects, ReadSchemes, CreateScheme, DeleteScheme, ListInstallations, ListMCP,
   MCPConnection, ListLibrary, LibraryUsage, DeleteLibraryFile, Capabilities,
   UserDefinitions, UserCreateDefinition, AnalyticsValues, QueryAnalytics, ReadDashboards,
   ReadStageSets, ReadStageGraph, ListFolders, CreateFolder, ListProvisionable,
   ProvisionIntegrationFolder, ListArticles, CreateArticle, changePublication}

\* Transfers between projects: what they make has an address of the caller's, and a
\* snapshot that is retired is not made again.
ProvisionResource == Once("createKeyed", "keyed")
Capture == Once("createKeyed", "keyed")
ImportAsset == Once("createKeyed", "keyed")
GetAsset == Once("read", "keyed")
GetImport == Once("read", "keyed")
RetireSnapshot == Once("delete", "keyed")

TransferMethods ==
  {ProvisionResource, Capture, ImportAsset, GetAsset, GetImport, RetireSnapshot}

CallMethods == CRMMethods \cup FilesMethods \cup LinksMethods
                 \cup ProjectMethods \cup UserMethods \cup TransferMethods

Requests == UNION {{m[i] : i \in DOMAIN m} : m \in CallMethods}
NoRequest == Req("none", "subject", FALSE)
=============================================================================
