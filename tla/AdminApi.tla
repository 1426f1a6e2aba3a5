----------------------------- MODULE AdminApi ------------------------------
(***************************************************************************)
(* The two sides of the console's requests: the permission that each route *)
(* of the server demands, and the route that each function of the          *)
(* console's clients asks for.  A route is its method and its path without *)
(* /api and without the identifiers in it; what a request carries is left  *)
(* out.                                                                    *)
(***************************************************************************)
Guarded(permission, routes) == routes \X {permission}

(* What a route demands that is not a permission: a session, or nothing.   *)
Session == "session"
Public == "public"

-----------------------------------------------------------------------------
(* The routes of the server.                                               *)
AuthRoutes ==
  Guarded(Public, {"POST auth/login", "POST auth/logout"}) \union
  Guarded(Session, {"GET auth/me", "POST auth/change-password"})

AccountRoutes ==
  Guarded(Session, {"POST account/email-verification", "GET account/profile",
                    "PATCH account/profile", "GET account/sessions", "DELETE account/sessions",
                    "POST account/sessions/revoke-others", "GET account/security-events"})

AccessRoutes ==
  Guarded("iam.accounts.read", {"GET access/accounts"}) \union
  Guarded("iam.accounts.write", {"POST access/accounts", "PATCH access/accounts",
                                 "POST access/accounts/invitation"}) \union
  Guarded("iam.roles.read", {"GET access/roles", "GET access/permissions"}) \union
  Guarded("iam.roles.write", {"POST access/roles", "PATCH access/roles"})

DictionaryRoutes ==
  Guarded("metadata.read", {"GET metadata/summary", "GET metadata/dictionaries",
                            "GET metadata/dictionaries/items"}) \union
  Guarded("metadata.write", {"POST metadata/dictionaries", "PATCH metadata/dictionaries",
                             "POST metadata/dictionaries/items", "PATCH metadata/dictionaries/items"})

TaxonomyRoutes ==
  Guarded("metadata.read", {"GET metadata/taxonomies", "GET metadata/taxonomies/terms"}) \union
  Guarded("metadata.write", {"POST metadata/taxonomies", "PATCH metadata/taxonomies",
                             "POST metadata/taxonomies/terms", "PATCH metadata/taxonomies/terms"})

AssignmentRoutes ==
  Guarded("metadata.read", {"GET metadata/assignments"}) \union
  Guarded("metadata.assign", {"POST metadata/assignments", "DELETE metadata/assignments"})

ObservabilityRoutes ==
  Guarded("observability.read", {"GET observability/summary", "GET observability/requests",
                                 "GET observability/incidents"}) \union
  Guarded("observability.manage", {"PATCH observability/incidents"})

SettingRoutes ==
  Guarded("system.settings.read", {"GET system/settings", "GET system/settings/history"}) \union
  Guarded("system.settings.write", {"PATCH system/settings"})

RuntimeRoutes == Guarded("system.runtime.read", {"GET system/runtime"})

AuditRoutes == Guarded("audit.read", {"GET audit"})

SearchRoutes == Guarded("search.use", {"GET search/sources", "GET search"})

ExchangeRoutes ==
  Guarded("data_exchange.read", {"GET data-exchange/datasets", "GET data-exchange/runs",
                                 "GET data-exchange/datasets/export"}) \union
  Guarded("data_exchange.write", {"POST data-exchange/datasets/preview",
                                  "POST data-exchange/datasets/import"})

AssetRoutes ==
  Guarded("assets.read", {"GET assets", "GET assets/summary", "GET assets/storage-connections",
                          "GET assets/access-url", "GET assets/references"}) \union
  Guarded("assets.write", {"POST assets/upload-intents", "POST assets/complete", "PATCH assets",
                           "POST assets/references", "DELETE assets/references"}) \union
  Guarded("assets.manage", {"POST assets/archive", "POST assets/restore", "DELETE assets"})

JobRoutes ==
  Guarded("jobs.read", {"GET jobs", "GET jobs/summary", "GET jobs/outbox"}) \union
  Guarded("jobs.write", {"POST jobs/retry", "POST jobs/cancel"})

NotificationRoutes ==
  Guarded(Session, {"GET notifications/me", "GET notifications/me/unread-count",
                    "POST notifications/read", "POST notifications/read-all",
                    "POST notifications/archive"}) \union
  Guarded("notifications.read", {"GET notifications/admin", "GET notifications/deliveries"}) \union
  Guarded("notifications.manage", {"POST notifications/announcements"})

IntegrationRoutes ==
  Guarded("integrations.read", {"GET integrations/providers", "GET integrations/connections",
                                "GET integrations/connections/events"}) \union
  Guarded("integrations.write", {"POST integrations/connections", "PATCH integrations/connections",
                                 "POST integrations/connections/test"})

MailRoutes == Guarded("integrations.write", {"POST integrations/connections/smtp/send-test"})

StorageRoutes ==
  Guarded("integrations.read", {"GET integrations/connections/qiniu/objects",
                                "POST integrations/connections/qiniu/private-url"}) \union
  Guarded("integrations.write", {"POST integrations/connections/qiniu/upload-token",
                                 "DELETE integrations/connections/qiniu/object"})

AiRoutes ==
  Guarded("integrations.read", {"GET integrations/connections/openrouter/models"}) \union
  Guarded("integrations.write", {"POST integrations/connections/openrouter/chat-test"})

PresentationRoutes ==
  Guarded("presentation.read", {"GET presentation", "GET presentation/history"}) \union
  Guarded("presentation.write", {"PATCH presentation"})

CmsRoutes ==
  Guarded("cms.read", {"GET cms/redirects", "GET cms/entries", "GET cms/entry",
                       "GET cms/entries/preview", "GET cms/entries/versions"}) \union
  Guarded("cms.write", {"POST cms/redirects", "PATCH cms/redirects", "DELETE cms/redirects",
                        "POST cms/entries", "PATCH cms/entries"}) \union
  Guarded("cms.publish", {"POST cms/entries/schedule", "POST cms/entries/status"})

Routes == UNION {
  AuthRoutes, AccountRoutes, AccessRoutes, DictionaryRoutes, TaxonomyRoutes, AssignmentRoutes,
  ObservabilityRoutes, SettingRoutes, RuntimeRoutes, AuditRoutes, SearchRoutes, ExchangeRoutes,
  AssetRoutes, JobRoutes, NotificationRoutes, IntegrationRoutes, MailRoutes, StorageRoutes,
  AiRoutes, PresentationRoutes, CmsRoutes}

-----------------------------------------------------------------------------
(* The functions of the clients.                                           *)
SystemClient == [
  fetchRuntime |-> "GET system/runtime",
  fetchObservabilitySummary |-> "GET observability/summary",
  fetchOperationsEvents |-> "GET jobs/outbox",
  fetchRequestMetrics |-> "GET observability/requests",
  fetchSystemIncidents |-> "GET observability/incidents",
  updateSystemIncident |-> "PATCH observability/incidents"]

AuthClient == [
  login |-> "POST auth/login",
  logout |-> "POST auth/logout",
  fetchCurrentAccount |-> "GET auth/me",
  changePassword |-> "POST auth/change-password"]

AccountClient == [
  fetchAccountProfile |-> "GET account/profile",
  updateAccountProfile |-> "PATCH account/profile",
  requestEmailVerification |-> "POST account/email-verification",
  fetchAccountSessions |-> "GET account/sessions",
  revokeAccountSession |-> "DELETE account/sessions",
  revokeOtherAccountSessions |-> "POST account/sessions/revoke-others",
  fetchAccountSecurityEvents |-> "GET account/security-events"]

AccessClient == [
  fetchAccessAccounts |-> "GET access/accounts",
  fetchAccessRoles |-> "GET access/roles",
  fetchAccessPermissions |-> "GET access/permissions",
  createAccessAccount |-> "POST access/accounts",
  resendAccessAccountInvitation |-> "POST access/accounts/invitation"]

RoleClient == [
  updateAccessAccount |-> "PATCH access/accounts",
  createAccessRole |-> "POST access/roles",
  updateAccessRole |-> "PATCH access/roles"]

SettingClient == [
  fetchSystemSettings |-> "GET system/settings",
  fetchPresentation |-> "GET presentation",
  updatePresentation |-> "PATCH presentation",
  updateSystemSetting |-> "PATCH system/settings",
  fetchSystemSettingHistory |-> "GET system/settings/history",
  fetchAuditItems |-> "GET audit"]

MetadataClient == [
  fetchMetadataSummary |-> "GET metadata/summary",
  fetchMetadataDictionaries |-> "GET metadata/dictionaries",
  createMetadataDictionary |-> "POST metadata/dictionaries",
  updateMetadataDictionary |-> "PATCH metadata/dictionaries",
  fetchMetadataDictionaryItems |-> "GET metadata/dictionaries/items",
  createMetadataDictionaryItem |-> "POST metadata/dictionaries/items",
  updateMetadataDictionaryItem |-> "PATCH metadata/dictionaries/items",
  fetchTaxonomies |-> "GET metadata/taxonomies",
  createTaxonomy |-> "POST metadata/taxonomies",
  updateTaxonomy |-> "PATCH metadata/taxonomies",
  fetchTaxonomyTerms |-> "GET metadata/taxonomies/terms",
  createTaxonomyTerm |-> "POST metadata/taxonomies/terms",
  updateTaxonomyTerm |-> "PATCH metadata/taxonomies/terms"]

ExchangeClient == [
  fetchExchangeDatasets |-> "GET data-exchange/datasets",
  fetchExchangeRuns |-> "GET data-exchange/runs",
  exportExchangeDataset |-> "GET data-exchange/datasets/export",
  previewExchangeImport |-> "POST data-exchange/datasets/preview",
  applyExchangeImport |-> "POST data-exchange/datasets/import",
  searchResources |-> "GET search"]

IntegrationClient == [
  fetchIntegrationProviders |-> "GET integrations/providers",
  fetchIntegrationConnections |-> "GET integrations/connections",
  createIntegrationConnection |-> "POST integrations/connections",
  updateIntegrationConnection |-> "PATCH integrations/connections",
  testIntegrationConnection |-> "POST integrations/connections/test",
  sendSmtpTestEmail |-> "POST integrations/connections/smtp/send-test",
  fetchQiniuObjects |-> "GET integrations/connections/qiniu/objects",
  sendOpenRouterTest |-> "POST integrations/connections/openrouter/chat-test",
  fetchIntegrationEvents |-> "GET integrations/connections/events"]

JobClient == [
  fetchJobs |-> "GET jobs",
  fetchJobSummary |-> "GET jobs/summary",
  retryJob |-> "POST jobs/retry",
  cancelJob |-> "POST jobs/cancel",
  fetchOutboxEvents |-> "GET jobs/outbox"]

NotificationClient == [
  fetchMyNotifications |-> "GET notifications/me",
  fetchAdminNotifications |-> "GET notifications/admin",
  fetchNotificationDeliveries |-> "GET notifications/deliveries",
  fetchUnreadNotificationCount |-> "GET notifications/me/unread-count",
  markNotificationRead |-> "POST notifications/read",
  markAllNotificationsRead |-> "POST notifications/read-all",
  archiveNotification |-> "POST notifications/archive",
  publishAnnouncement |-> "POST notifications/announcements"]

AssetClient == [
  fetchAssets |-> "GET assets",
  fetchAssetStorageConnections |-> "GET assets/storage-connections",
  fetchAssetSummary |-> "GET assets/summary",
  createAssetUploadIntent |-> "POST assets/upload-intents",
  completeAssetUpload |-> "POST assets/complete",
  fetchAssetAccessUrl |-> "GET assets/access-url",
  archiveAsset |-> "POST assets/archive",
  restoreAsset |-> "POST assets/restore",
  deleteAsset |-> "DELETE assets"]

CmsClient == [
  listContents |-> "GET cms/entries",
  getContent |-> "GET cms/entry",
  createContent |-> "POST cms/entries",
  updateContent |-> "PATCH cms/entries",
  updateStatus |-> "POST cms/entries/status",
  scheduleContent |-> "POST cms/entries/schedule",
  listVersions |-> "GET cms/entries/versions",
  listRedirects |-> "GET cms/redirects",
  createRedirect |-> "POST cms/redirects",
  updateRedirect |-> "PATCH cms/redirects",
  deleteRedirect |-> "DELETE cms/redirects",
  listAssets |-> "GET assets",
  getPresentation |-> "GET presentation",
  listTaxonomies |-> "GET metadata/taxonomies",
  listTaxonomyTerms |-> "GET metadata/taxonomies/terms"]

Clients == {
  SystemClient, AuthClient, AccountClient, AccessClient, RoleClient, SettingClient,
  MetadataClient, ExchangeClient, IntegrationClient, JobClient, NotificationClient,
  AssetClient, CmsClient}

Calls == UNION {DOMAIN client : client \in Clients}

-----------------------------------------------------------------------------
(* requirePermission and authenticate: what a route demands of a call, and *)
(* whether the server answers somebody who holds these permissions.  A      *)
(* route that no extension has registered is not found.                    *)
Demands(call, permission) ==
  \E client \in Clients : call \in DOMAIN client /\ <<client[call], permission>> \in Routes

Answers(call, permissions) ==
  \E permission \in permissions \union {Session, Public} : Demands(call, permission)
=============================================================================
