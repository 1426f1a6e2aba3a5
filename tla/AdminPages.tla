---------------------------- MODULE AdminPages -----------------------------
(***************************************************************************)
(* What the pages of the console ask of the server and where they lead, as *)
(* functions of the permissions that the console knows the account to      *)
(* have.  A page asks when it is opened and when one of its controls is    *)
(* used; a control that is not shown, or disabled, asks nothing.           *)
(***************************************************************************)
EXTENDS AdminApi

When(permission, known, calls) == IF permission \in known THEN calls ELSE {}

(* The pages, and the permission that each one demands.                    *)
FramePages == [
  system |-> "system.runtime.read", access |-> "iam.accounts.read",
  integrations |-> "integrations.read", assets |-> "assets.read", operations |-> "jobs.read",
  observability |-> "observability.read", notifications |-> "notifications.read",
  metadata |-> "metadata.read", audit |-> "audit.read", presentation |-> "presentation.read",
  account |-> "admin.access", settings |-> "admin.access", help |-> "admin.access"]

ApplicationPages == [home |-> "admin.access", cms |-> "cms.read"]

Pages == [page \in (DOMAIN FramePages) \union (DOMAIN ApplicationPages) |->
  IF page \in DOMAIN FramePages THEN FramePages[page] ELSE ApplicationPages[page]]

Permissions ==
  ({Pages[p] : p \in DOMAIN Pages} \union {route[2] : route \in Routes}) \ {Session, Public}

-----------------------------------------------------------------------------
(* MetadataPage.                                                           *)
MetadataLoads(known) ==
  {"fetchMetadataSummary", "fetchMetadataDictionaries", "fetchTaxonomies"}
  \union When("data_exchange.read", known, {"fetchExchangeDatasets", "fetchExchangeRuns"})

MetadataSelections == {"fetchMetadataDictionaryItems", "fetchTaxonomyTerms"}

SubmitDictionary == {"createMetadataDictionary", "updateMetadataDictionary"}
SubmitItem == {"createMetadataDictionaryItem", "updateMetadataDictionaryItem"}
SubmitTaxonomy == {"createTaxonomy", "updateTaxonomy"}
SubmitTerm == {"createTaxonomyTerm", "updateTaxonomyTerm"}
SubmitImport == {"previewExchangeImport", "applyExchangeImport"}

DictionaryDialog == SubmitDictionary
ItemDialog == SubmitItem \union {"fetchMetadataDictionaryItems"}
TaxonomyDialog == SubmitTaxonomy
TermDialog == SubmitTerm \union {"fetchTaxonomyTerms"}
ImportDialog == SubmitImport

MetadataRows(known) ==
  MetadataSelections
  \union When("metadata.write", known, DictionaryDialog \union ItemDialog)
  \union When("metadata.write", known, TaxonomyDialog \union TermDialog)

MetadataSections(known) ==
  When("metadata.write", known, DictionaryDialog \union ItemDialog \union TaxonomyDialog \union TermDialog)
  \union When("data_exchange.read", known,
           {"exportExchangeDataset"} \union When("data_exchange.write", known, ImportDialog))

-----------------------------------------------------------------------------
(* IntegrationsPage: it hides nothing from those who may only read.        *)
IntegrationLoads == {"fetchIntegrationProviders", "fetchIntegrationConnections"}
IntegrationDetails == {"fetchIntegrationEvents", "fetchQiniuObjects"}

SubmitConnection == {"createIntegrationConnection", "updateIntegrationConnection"}
SubmitTests == {"sendSmtpTestEmail", "sendOpenRouterTest"}
OperateConnection == {"testIntegrationConnection", "updateIntegrationConnection"}

ConnectionDialog == SubmitConnection
TestDialogs == SubmitTests \union {"fetchIntegrationEvents", "fetchQiniuObjects"}
ConnectionRows == OperateConnection \union IntegrationDetails \union TestDialogs
IntegrationSections == ConnectionDialog \union ConnectionRows

-----------------------------------------------------------------------------
(* AccessPage: it loads the roles and their permissions with the accounts. *)
AccessLoads == {"fetchAccessAccounts", "fetchAccessRoles", "fetchAccessPermissions"}
SubmitAccount == {"createAccessAccount", "updateAccessAccount"}
SubmitRole == {"createAccessRole", "updateAccessRole"}
AccountDialog == SubmitAccount
RoleDialog == SubmitRole

AccessRows(known) ==
  When("iam.accounts.write", known, AccountDialog \union {"resendAccessAccountInvitation"})
  \union When("iam.roles.write", known, RoleDialog)

AccessSections(known) ==
  When("iam.accounts.write", known, AccountDialog) \union When("iam.roles.write", known, RoleDialog)

-----------------------------------------------------------------------------
(* AccountPage: what an account may do to itself, and a picture to pick.   *)
AccountLoads == {"fetchAccountProfile", "fetchAccountSessions", "fetchAccountSecurityEvents"}

AccountActions ==
  {"updateAccountProfile", "changePassword", "requestEmailVerification",
   "revokeAccountSession", "revokeOtherAccountSessions"}

AssetPicker(load) == {load}
AccountForms == AccountActions \union AssetPicker("fetchAssets")

(* AssetsPage.                                                             *)
AssetLoads == {"fetchAssets", "fetchAssetSummary", "fetchAssetStorageConnections"}
Upload == {"createAssetUploadIntent", "completeAssetUpload"}
Operate == {"fetchAssetAccessUrl", "archiveAsset", "restoreAsset", "deleteAsset"}
UploadForm(known) == When("assets.write", known, Upload)
AssetRows(known) == {"fetchAssetAccessUrl"} \union When("assets.manage", known, Operate)

(* AuditPage, OperationsPage and ObservabilityPage: the last two hide      *)
(* nothing from those who may only read.                                   *)
AuditLoads == {"fetchAuditItems"}
OperationLoads == {"fetchJobs", "fetchJobSummary", "fetchOutboxEvents"}
OperationRows == {"retryJob", "cancelJob"}
ObservabilityLoads == {"fetchObservabilitySummary", "fetchRequestMetrics", "fetchSystemIncidents"}
IncidentRows == {"updateSystemIncident"}

(* NotificationsPage.                                                      *)
NotificationLoads(known) ==
  {"fetchMyNotifications", "fetchUnreadNotificationCount"}
  \union When("notifications.read", known, {"fetchAdminNotifications", "fetchNotificationDeliveries"})
NotificationActions == {"markAllNotificationsRead", "markNotificationRead", "archiveNotification"}
AnnouncementDialog == {"publishAnnouncement"}
NotificationSections(known) ==
  NotificationActions
  \union When("notifications.read", known, When("notifications.manage", known, AnnouncementDialog))

(* PresentationPage, SettingsPage and SystemInfoPage.                      *)
PresentationLoads == {"fetchPresentation"}
SubmitPresentation == {"updatePresentation"}
PresentationForm(known) ==
  When("presentation.write", known, SubmitPresentation \union AssetPicker("fetchAssets"))

SettingLoads(known) == When("system.settings.read", known, {"fetchSystemSettings"})
SettingDialogs == {"updateSystemSetting"}
SettingRows(known) ==
  When("system.settings.read", known,
    {"fetchSystemSettingHistory"} \union When("system.settings.write", known, SettingDialogs))

OperationsSummary == {"fetchJobSummary", "fetchOperationsEvents"}
SystemLoads(known) ==
  {"fetchRuntime"} \union When("observability.read", known, {"fetchObservabilitySummary"})
  \union When("jobs.read", known, OperationsSummary)

-----------------------------------------------------------------------------
(* The pages of the content center: the list with the redirects under it,  *)
(* and the editor.                                                         *)
RedirectManager(known) ==
  {"listRedirects"} \union
  When("cms.write", known, {"createRedirect", "updateRedirect", "deleteRedirect"})

ListLoads == {"listContents"}

(* A plausible bug: who may write may publish.                                      *)
ListRowsOfWriters(known) == When("cms.write", known, {"updateStatus"})

ListRows(known) == When("cms.publish", known, {"updateStatus"})

EditorLoads == {"getPresentation", "listTaxonomies", "listTaxonomyTerms", "getContent", "listVersions"}
EditorSave == {"createContent", "updateContent", "listVersions"}
EditorFields(known) == When("cms.write", known, AssetPicker("listAssets"))
EditorActions(known) ==
  When("cms.publish", known, {"scheduleContent", "updateStatus"})
  \union When("cms.write", known, EditorSave)

-----------------------------------------------------------------------------
(* The shell around the pages: the search, the unread notifications, the   *)
(* brand.                                                                  *)
GlobalSearch(known) == When("search.use", known, {"searchResources"})

ShellLoads(known) ==
  When("notifications.read", known, {"fetchUnreadNotificationCount"})
  \union When("presentation.read", known, {"fetchPresentation"})

PageAsks(page, known) ==
  CASE page = "metadata" -> MetadataLoads(known) \union MetadataRows(known) \union MetadataSections(known)
    [] page = "integrations" -> IntegrationLoads \union IntegrationSections
    [] page = "access" -> AccessLoads \union AccessRows(known) \union AccessSections(known)
    [] page = "account" -> AccountLoads \union AccountForms
    [] page = "assets" -> AssetLoads \union UploadForm(known) \union AssetRows(known)
    [] page = "audit" -> AuditLoads
    [] page = "operations" -> OperationLoads \union OperationRows
    [] page = "observability" -> ObservabilityLoads \union IncidentRows
    [] page = "notifications" -> NotificationLoads(known) \union NotificationSections(known)
    [] page = "presentation" -> PresentationLoads \union PresentationForm(known)
    [] page = "settings" -> SettingLoads(known) \union SettingRows(known)
    [] page = "system" -> SystemLoads(known)
    [] page = "cms" -> ListLoads \union ListRows(known) \union RedirectManager(known)
                       \union EditorLoads \union EditorFields(known) \union EditorActions(known)
    [] OTHER -> {}

Asks(page, known) == PageAsks(page, known) \union ShellLoads(known) \union GlobalSearch(known)

-----------------------------------------------------------------------------
(* The links: those of the shell, and those of some pages.                 *)
Allowed(links, known) == {p \in links : Pages[p] \in known}

Navigation(known) == Allowed({"settings", "cms"}, known)
ShellLinks(known) ==
  Navigation(known) \union {"home", "help", "account"}
  \union When("notifications.read", known, {"notifications"})
  \union When("admin.access", known, {"settings"})
  \union When("system.runtime.read", known, {"system"})

SettingAreas(known) ==
  Allowed({"access", "integrations", "presentation", "metadata", "audit"}, known)
ManagementLinks(known) == Allowed({"operations", "observability", "assets", "help"}, known)
Workflows == {"system", "presentation", "cms", "observability"}
Workspaces == {"cms", "settings"}

Links(page, known) ==
  ShellLinks(known) \union
  (CASE page = "settings" -> SettingAreas(known)
     [] page = "system" -> ManagementLinks(known)
     [] page = "help" -> Workflows
     [] page = "home" -> Workspaces
     [] OTHER -> {})

(* What the server's search looks through, the permission that a source    *)
(* demands, and the page that its results lead to.                         *)
SearchSources == {
  [permission |-> "iam.accounts.read", page |-> "access"],
  [permission |-> "integrations.read", page |-> "integrations"],
  [permission |-> "metadata.read", page |-> "metadata"],
  [permission |-> "cms.read", page |-> "cms"]}

Found(permissions) == {s.page : s \in {t \in SearchSources : t.permission \in permissions}}
=============================================================================
