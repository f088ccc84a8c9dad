---------------------------- MODULE HttpSurface ----------------------------
(***************************************************************************)
(* The HTTP surface: the routers the application is put together from, the *)
(* operations its OpenAPI documents promise, and the way of one request    *)
(* through layers, guards, controller and the recorder of project          *)
(* activities, while the caller's role and the project may change.         *)
(*                                                                         *)
(* A path is the sequence of its segments.  What a service does is in the  *)
(* modules of the services; here it succeeds or fails.                     *)
(*                                                                         *)
(* Abstracted: CORS, logging, multipart bodies, the documentation pages    *)
(* and /health; query strings; the text of answers.                        *)
(***************************************************************************)
EXTENDS Naturals, SequencesExt

VARIABLES
    request,    \* the request this behaviour follows
    role,       \* the caller's role in the project of the request
    project,    \* that project: live or gone
    activities, \* how many rows of project_activities tell of the request
    wasAdmin    \* (ghost) the caller has been an administrator all the time

httpVars == <<request, role, project, activities, wasAdmin>>

-----------------------------------------------------------------------------
(* Routers                                                                 *)

Params == {":provider", ":projectId", ":appId", ":versionId", ":scheduleId", ":crawlSessionId",
           ":sessionId", ":codebaseId", ":runId", ":scenarioId", ":artifactId", ":flowId",
           ":reportId"}

ParamsIn(path) == {path[i] : i \in DOMAIN path} \cap Params

\* sees: the parameters a guard of the layer finds in req.params.
Layer(method, path, guards, handler) ==
    [method |-> method, path |-> path, guards |-> guards, handler |-> handler,
     sees |-> ParamsIn(path), merges |-> TRUE]

Get(path, guards, handler)    == <<Layer("get", path, guards, handler)>>
Post(path, guards, handler)   == <<Layer("post", path, guards, handler)>>
Put(path, guards, handler)    == <<Layer("put", path, guards, handler)>>
Patch(path, guards, handler)  == <<Layer("patch", path, guards, handler)>>
Delete(path, guards, handler) == <<Layer("delete", path, guards, handler)>>
Use(path, guards)             == <<Layer("use", path, guards, "next")>>

\* Slip: a router is made without mergeParams.
MountApart(prefix, merge, router) ==
    [i \in DOMAIN router |-> [router[i] EXCEPT !.path = prefix \o @]]

\* router.use(prefix, router); a nested router sees the parameters of the prefix if
\* it was made with mergeParams.
Mount(prefix, merge, router) ==
    [i \in DOMAIN router |->
        [router[i] EXCEPT !.path = prefix \o @,
                          !.sees = IF router[i].merges /\ merge THEN @ \cup ParamsIn(prefix) ELSE @,
                          !.merges = @ /\ merge]]

Auth   == "requireAuth"
Viewer == "requireProjectMembership"
Member == "requireProjectMember"
Admin  == "requireProjectAdmin"
Body   == "validateBody"

AuthRoutes ==
    Post(<<"signup">>, <<Body>>, "signup")
    \o Post(<<"login">>, <<Body>>, "login")
    \o Post(<<"refresh">>, <<Body>>, "refresh")
    \o Post(<<"logout">>, <<>>, "logout")
    \o Post(<<"forgot-password">>, <<Body>>, "forgotPassword")
    \o Post(<<"reset-password">>, <<Body>>, "resetPassword")
    \o Get(<<"oauth", ":provider">>, <<>>, "oauthRedirect")
    \o Get(<<"oauth", ":provider", "callback">>, <<>>, "oauthLoginCallback")

OAuthRoutes == Get(<<":provider", "callback">>, <<>>, "oauthCallback")

IngestRoutes ==
    Post(<<"runs", ":runId", "events">>, <<>>, "ingestEvents")
    \o Post(<<"runs", ":runId", "artifacts">>, <<>>, "uploadArtifact")
    \o Post(<<"runs", ":runId", "complete">>, <<>>, "completeRun")

InternalReportRoutes ==
    Post(<<"reports", "scenario", "claim">>, <<>>, "claimScenarioReport")
    \o Post(<<"reports", "manual-bug">>, <<>>, "createManualBugReport")
    \o Get(<<"reports", "scenario", ":reportId", "context">>, <<>>, "getScenarioReportContext")
    \o Get(<<"reports", "scenario", ":reportId", "artifacts", ":artifactId", "download">>, <<>>,
           "downloadScenarioReportArtifact")
    \o Patch(<<"reports", "scenario", ":reportId">>, <<>>, "patchScenarioReport")

InternalNotificationRoutes ==
    Post(<<"notifications", "codegen", ":sessionId", "notifications">>, <<>>, "notifyCodegenSession")

CrawlSessionRoutes ==
    Use(<<>>, <<Auth>>)
    \o Get(<<>>, <<Viewer>>, "getSessions")
    \o Post(<<>>, <<Member, Body>>, "createSession")
    \o Get(<<":crawlSessionId">>, <<Viewer>>, "getSessionDetails")
    \o Delete(<<":crawlSessionId">>, <<Admin>>, "deleteSession")
    \o Put(<<":crawlSessionId", "abort">>, <<Member>>, "abortSession")
    \o Put(<<":crawlSessionId", "start">>, <<Member>>, "startSession")
    \o Put(<<":crawlSessionId", "pause">>, <<Member>>, "pauseSession")

CrawlScheduleRoutes ==
    Get(<<>>, <<Viewer>>, "getSchedules")
    \o Post(<<>>, <<Member, Body>>, "createSchedule")
    \o Get(<<":scheduleId">>, <<Viewer>>, "getSchedule")
    \o Put(<<":scheduleId">>, <<Member, Body>>, "updateSchedule")
    \o Delete(<<":scheduleId">>, <<Admin>>, "deleteSchedule")

ManualSessionRoutes ==
    Post(<<"connect">>, <<Member>>, "connectManualSession")
    \o Post(<<":sessionId", "reattach">>, <<Member>>, "reattachManualSession")

RegressionCodebaseRoutes ==
    Post(<<>>, <<Admin, Body>>, "createRegressionCodebase")
    \o Put(<<":codebaseId">>, <<Admin, Body>>, "updateRegressionCodebase")
    \o Delete(<<":codebaseId">>, <<Admin>>, "deleteRegressionCodebase")
    \o Get(<<>>, <<Viewer>>, "getRegressionCodebases")
    \o Get(<<":codebaseId">>, <<Viewer>>, "getRegressionCodebase")

Scenario == <<":runId", "scenarios", ":scenarioId">>

RegressionRunRoutes ==
    Use(<<>>, <<Viewer>>)
    \o Get(<<>>, <<>>, "listRuns")
    \o Get(<<":runId">>, <<>>, "getRun")
    \o Get(<<":runId", "scenarios">>, <<>>, "listScenarios")
    \o Get(Scenario, <<>>, "getScenario")
    \o Get(Scenario \o <<"events">>, <<>>, "listScenarioEvents")
    \o Get(Scenario \o <<"artifacts">>, <<>>, "listScenarioArtifacts")
    \o Post(Scenario \o <<"reports", ":provider">>, <<>>, "createScenarioReport")
    \o Get(<<":runId", "artifacts">>, <<>>, "listArtifacts")
    \o Get(<<":runId", "artifacts", ":artifactId">>, <<>>, "getArtifact")
    \o Get(<<":runId", "artifacts", ":artifactId", "download">>, <<>>, "downloadArtifact")

TestFlowRoutes ==
    Get(<<>>, <<>>, "listTestFlows")
    \o Get(<<":flowId", "editor">>, <<>>, "getFlowEditor")
    \o Put(<<":flowId", "editor", "steps">>, <<>>, "saveFlowEditorSteps")
    \o Post(<<":flowId", "editor", "connect">>, <<>>, "connectFlowEditor")
    \o Post(<<":flowId", "generate">>, <<>>, "generateTestFlow")

UserGuideRoutes ==
    Use(<<>>, <<Auth>>)
    \o Get(<<"user-guide-states">>, <<Viewer>>, "getUserGuideStates")
    \o Post(<<"generate-user-guide">>, <<Viewer, Body>>, "generateUserGuides")

IntegrationRoutes ==
    Post(<<":provider", "oauth">>, <<Admin>>, "startOAuth")
    \o Get(<<":provider", "reporting", "options">>, <<Viewer>>, "getReportingOptions")
    \o Put(<<":provider", "reporting", "config">>, <<Admin>>, "updateReportingConfig")
    \o Get(<<":provider">>, <<Viewer>>, "getIntegrationStatus")
    \o Delete(<<":provider">>, <<Admin>>, "disconnectIntegration")

Version == <<":appId", "versions", ":versionId">>

TargetApplicationRoutes ==
    Post(<<>>, <<Admin, Body>>, "createTargetApplication")
    \o Put(<<":appId">>, <<Admin, Body>>, "updateTargetApplication")
    \o Delete(<<":appId">>, <<Admin>>, "deleteTargetApplication")
    \o Get(<<>>, <<Viewer>>, "getTargetApplications")
    \o Get(<<":appId">>, <<Viewer>>, "getTargetApplication")
    \o Post(<<":appId", "api-key", "rotate">>, <<Admin>>, "rotateApiKey")
    \o Post(<<":appId", "versions">>, <<Member, Body>>, "createVersion")
    \o Delete(Version, <<Admin>>, "deleteVersion")
    \o Mount(Version \o <<"manual-recordings">>, TRUE, ManualSessionRoutes)
    \o Use(<<":appId", "test-flows">>, <<Viewer>>)
    \o Mount(<<":appId", "test-flows">>, TRUE, TestFlowRoutes)
    \o Mount(Version \o <<"crawl-sessions">>, TRUE, CrawlSessionRoutes)
    \o Mount(<<":appId", "crawl-schedules">>, TRUE, CrawlScheduleRoutes)
    \o Mount(<<":appId", "regression-codebases">>, TRUE, RegressionCodebaseRoutes)
    \o Mount(<<":appId", "runs">>, TRUE, RegressionRunRoutes)
    \o Mount(Version, TRUE, UserGuideRoutes)

ProjectRoutes ==
    Use(<<>>, <<Auth>>)
    \o Use(<<>>, <<"projectActivityRecorder">>)
    \o Post(<<>>, <<Body>>, "createProject")
    \o Put(<<":projectId">>, <<Admin, Body>>, "updateProject")
    \o Delete(<<":projectId">>, <<Admin>>, "deleteProject")
    \o Get(<<>>, <<>>, "getProjects")
    \o Get(<<":projectId", "dashboard">>, <<Viewer>>, "getProjectDashboard")
    \o Get(<<":projectId">>, <<Viewer>>, "getProject")
    \o Post(<<":projectId", "members">>, <<Admin, Body>>, "addProjectMembers")
    \o Put(<<":projectId", "members">>, <<Admin, Body>>, "updateProjectMember")
    \o Delete(<<":projectId", "members">>, <<Admin, Body>>, "removeProjectMembers")
    \o Post(<<":projectId", "leave">>, <<Viewer>>, "leaveProject")
    \o Mount(<<":projectId", "integrations">>, TRUE, IntegrationRoutes)
    \o Mount(<<":projectId", "target-applications">>, TRUE, TargetApplicationRoutes)

Stack ==
    Mount(<<"auth">>, FALSE, AuthRoutes)
    \o Mount(<<"oauth">>, FALSE, OAuthRoutes)
    \o Mount(<<"regression">>, FALSE, IngestRoutes)
    \o Mount(<<"projects">>, FALSE, ProjectRoutes)
    \o Mount(<<"internal">>, FALSE, InternalReportRoutes)
    \o Mount(<<"internal">>, FALSE, InternalNotificationRoutes)

-----------------------------------------------------------------------------
(* Documents                                                               *)

\* body: "none" documented, "any" body, or a "checked" one: an invalid one is said to
\* be answered 400.
Doc(method, path, security, body, handler) ==
    [method |-> method, path |-> path, security |-> security, body |-> body, handler |-> handler]

Bearer(method, path, body, handler)   == Doc(method, path, "bearer", body, handler)
ApiKey(method, path, body, handler)   == Doc(method, path, "apiKey", body, handler)
Internal(method, path, body, handler) == Doc(method, path, "internalToken", body, handler)
Open(method, path, body, handler)     == Doc(method, path, "none", body, handler)

AuthDocs == {
    Open("post", <<"auth", "signup">>, "any", "signup"),
    Open("post", <<"auth", "login">>, "any", "login"),
    Open("post", <<"auth", "refresh">>, "any", "refresh"),
    Open("post", <<"auth", "logout">>, "any", "logout"),
    Open("post", <<"auth", "forgot-password">>, "any", "forgotPassword"),
    Open("post", <<"auth", "reset-password">>, "any", "resetPassword")}

Project == <<"projects", ":projectId">>

ProjectDocs == {
    Bearer("post", <<"projects">>, "checked", "createProject"),
    Bearer("put", Project, "checked", "updateProject"),
    Bearer("delete", Project, "none", "deleteProject"),
    Bearer("get", <<"projects">>, "none", "getProjects"),
    Bearer("get", Project, "none", "getProject"),
    Bearer("get", Project \o <<"dashboard">>, "none", "getProjectDashboard"),
    Bearer("post", Project \o <<"members">>, "checked", "addProjectMembers"),
    Bearer("put", Project \o <<"members">>, "checked", "updateProjectMember"),
    Bearer("delete", Project \o <<"members">>, "checked", "removeProjectMembers")}

Apps == Project \o <<"target-applications">>
App  == Apps \o <<":appId">>

ApplicationDocs == {
    Bearer("post", Apps, "checked", "createTargetApplication"),
    Bearer("put", App, "checked", "updateTargetApplication"),
    Bearer("delete", App, "none", "deleteTargetApplication"),
    Bearer("post", App \o <<"api-key", "rotate">>, "none", "rotateApiKey"),
    Bearer("get", Apps, "none", "getTargetApplications"),
    Bearer("get", App, "none", "getTargetApplication"),
    Bearer("post", App \o <<"versions">>, "checked", "createVersion"),
    Bearer("delete", App \o <<"versions", ":versionId">>, "none", "deleteVersion")}

CodebaseDocs == {
    Bearer("post", App \o <<"regression-codebases">>, "checked", "createRegressionCodebase"),
    Bearer("put", App \o <<"regression-codebases", ":codebaseId">>, "checked",
           "updateRegressionCodebase"),
    Bearer("delete", App \o <<"regression-codebases", ":codebaseId">>, "none",
           "deleteRegressionCodebase"),
    Bearer("get", App \o <<"regression-codebases">>, "none", "getRegressionCodebases"),
    Bearer("get", App \o <<"regression-codebases", ":codebaseId">>, "none", "getRegressionCodebase")}

Sessions == App \o <<"versions", ":versionId", "crawl-sessions">>
TheSession  == Sessions \o <<":crawlSessionId">>

SessionDocs == {
    Bearer("get", Sessions, "none", "getSessions"),
    Bearer("post", Sessions, "checked", "createSession"),
    Bearer("get", TheSession, "none", "getSessionDetails"),
    Bearer("delete", TheSession, "none", "deleteSession"),
    Bearer("put", TheSession \o <<"start">>, "none", "startSession"),
    Bearer("put", TheSession \o <<"pause">>, "none", "pauseSession"),
    Bearer("put", TheSession \o <<"abort">>, "none", "abortSession")}

ScheduleDocs == {
    Bearer("get", App \o <<"crawl-schedules">>, "none", "getSchedules"),
    Bearer("post", App \o <<"crawl-schedules">>, "checked", "createSchedule"),
    Bearer("get", App \o <<"crawl-schedules", ":scheduleId">>, "none", "getSchedule"),
    Bearer("put", App \o <<"crawl-schedules", ":scheduleId">>, "checked", "updateSchedule"),
    Bearer("delete", App \o <<"crawl-schedules", ":scheduleId">>, "none", "deleteSchedule")}

IngestDocs == {
    ApiKey("post", <<"regression", "runs", ":runId", "events">>, "any", "ingestEvents"),
    ApiKey("post", <<"regression", "runs", ":runId", "artifacts">>, "any", "uploadArtifact"),
    ApiKey("post", <<"regression", "runs", ":runId", "complete">>, "any", "completeRun")}

Run      == App \o <<"runs", ":runId">>
Artifact == Run \o <<"artifacts", ":artifactId">>

RunDocs == {
    Bearer("get", App \o <<"runs">>, "none", "listRuns"),
    Bearer("get", Run, "none", "getRun"),
    Bearer("get", Run \o <<"scenarios">>, "none", "listScenarios"),
    Bearer("get", App \o <<"runs">> \o Scenario, "none", "getScenario"),
    Bearer("post", App \o <<"runs">> \o Scenario \o <<"reports", ":provider">>, "checked",
           "createScenarioReport"),
    Bearer("get", App \o <<"runs">> \o Scenario \o <<"artifacts">>, "none", "listScenarioArtifacts")}

ArtifactDocs == {
    Bearer("get", App \o <<"runs">> \o Scenario \o <<"events">>, "none", "listScenarioEvents"),
    Bearer("get", Run \o <<"artifacts">>, "none", "listArtifacts"),
    Bearer("get", Artifact, "none", "getArtifact"),
    Bearer("get", Artifact \o <<"download">>, "none", "downloadArtifact")}

Report == <<"internal", "reports", "scenario">>

ReportDocs == {
    Internal("post", Report \o <<"claim">>, "any", "claimScenarioReport"),
    Internal("get", Report \o <<":reportId", "context">>, "none", "getScenarioReportContext"),
    Internal("patch", Report \o <<":reportId">>, "any", "patchScenarioReport")}

TheIntegration == Project \o <<"integrations", ":provider">>

IntegrationDocs == {
    Bearer("post", TheIntegration \o <<"oauth">>, "none", "startOAuth"),
    Bearer("get", TheIntegration \o <<"reporting", "options">>, "none", "getReportingOptions"),
    Bearer("put", TheIntegration \o <<"reporting", "config">>, "checked", "updateReportingConfig"),
    Bearer("get", TheIntegration, "none", "getIntegrationStatus"),
    Bearer("delete", TheIntegration, "none", "disconnectIntegration"),
    Open("get", <<"oauth", ":provider", "callback">>, "none", "oauthCallback")}

GuideDocs == {
    Bearer("get", App \o <<"versions", ":versionId", "user-guide-states">>, "none",
           "getUserGuideStates"),
    Bearer("post", App \o <<"versions", ":versionId", "generate-user-guide">>, "checked",
           "generateUserGuides")}

Docs == AuthDocs \cup ProjectDocs \cup ApplicationDocs \cup CodebaseDocs \cup SessionDocs
        \cup ScheduleDocs \cup IngestDocs \cup RunDocs \cup ArtifactDocs \cup ReportDocs
        \cup IntegrationDocs \cup GuideDocs

-----------------------------------------------------------------------------
(* Controllers                                                             *)

\* What a controller does besides the call of its service, in order: "token"
\* assertInternalServiceToken, "user" getCurrentUserId, "body" Schema.parse(req.body),
\* "key" the application key (checked first thing by the service), "record"
\* recordProjectActivity after the call, "recordSome" only for some results, and
\* "redirect" an error is answered by a redirection, too, but for an unknown provider.
Doing(handlers, steps) == [h \in handlers |-> steps]
Plain(handlers)    == Doing(handlers, <<>>)
Recorded(handlers) == Doing(handlers, <<"record">>)

AuthController == {
    Plain({"signup", "login", "refresh", "logout", "forgotPassword", "resetPassword",
           "oauthRedirect"}),
    Doing({"oauthLoginCallback"}, <<"redirect">>)}

ProjectController == {
    Plain({"deleteProject", "getProject"}),
    Recorded({"updateProject", "addProjectMembers", "removeProjectMembers"}),
    Doing({"createProject", "updateProjectMember", "leaveProject"}, <<"user", "record">>),
    Doing({"getProjects"}, <<"user">>)}

DashboardController == {Plain({"getProjectDashboard"})}

ApplicationController == {
    Plain({"getTargetApplications", "getTargetApplication"}),
    Recorded({"createTargetApplication", "updateTargetApplication", "deleteTargetApplication",
              "createVersion", "deleteVersion", "rotateApiKey"})}

SessionController == {
    Plain({"getSessions", "getSessionDetails"}),
    Recorded({"deleteSession", "startSession", "abortSession", "pauseSession"}),
    Doing({"createSession"}, <<"body", "user", "record">>)}

ScheduleController == {
    Plain({"getSchedules", "getSchedule"}),
    Recorded({"deleteSchedule"}),
    Doing({"createSchedule"}, <<"body", "user", "record">>),
    Doing({"updateSchedule"}, <<"body", "record">>)}

ManualSessionController == {
    Doing({"connectManualSession", "reattachManualSession"}, <<"user", "record">>)}

CodebaseController == {
    Plain({"getRegressionCodebases", "getRegressionCodebase"}),
    Recorded({"createRegressionCodebase", "updateRegressionCodebase",
              "deleteRegressionCodebase"})}

RunController == {
    Plain({"listRuns", "getRun", "listScenarios", "getScenario", "listScenarioEvents",
           "listArtifacts", "listScenarioArtifacts", "getArtifact", "downloadArtifact"}),
    Doing({"ingestEvents", "completeRun", "uploadArtifact"}, <<"body", "key">>)}

ReportController == {
    Doing({"createScenarioReport"}, <<"user", "body", "record">>),
    Doing({"claimScenarioReport", "createManualBugReport", "patchScenarioReport"},
          <<"token", "body">>),
    Doing({"getScenarioReportContext", "downloadScenarioReportArtifact"}, <<"token">>)}

NotificationController == {Doing({"notifyCodegenSession"}, <<"token", "body">>)}

FlowController == {
    Plain({"listTestFlows", "getFlowEditor"}),
    Doing({"connectFlowEditor"}, <<"user">>),
    Doing({"saveFlowEditorSteps"}, <<"body">>),
    Doing({"generateTestFlow"}, <<"body", "record">>)}

GuideController == {
    Plain({"getUserGuideStates"}),
    Doing({"generateUserGuides"}, <<"body", "recordSome">>)}

IntegrationController == {
    Plain({"getReportingOptions", "getIntegrationStatus"}),
    Recorded({"disconnectIntegration"}),
    Doing({"startOAuth"}, <<"user">>),
    Doing({"updateReportingConfig"}, <<"body", "record">>),
    Doing({"oauthCallback"}, <<"redirect">>)}

Controllers ==
    AuthController \cup ProjectController \cup DashboardController \cup ApplicationController
    \cup SessionController \cup ScheduleController \cup ManualSessionController
    \cup CodebaseController \cup RunController \cup ReportController
    \cup NotificationController \cup FlowController \cup GuideController
    \cup IntegrationController

-----------------------------------------------------------------------------
(* Types                                                                   *)

Roles    == {"NONE", "VIEWER", "MEMBER", "ADMIN"}
Priority == [NONE |-> 0, VIEWER |-> 1, MEMBER |-> 2, ADMIN |-> 3]

Credentials == {"none", "bearer", "apiKey", "internalToken"}
\* "down": the 500 of a guard whose read of the database failed.
Statuses    == {"none", "ok", "400", "401", "403", "404", "409", "500", "down", "unrouted"}

HttpTypeOK ==
    /\ request.pc \in {"routing", "guarding", "membership", "handling", "refused", "answered",
                        "recording", "done"}
    /\ request.credential \in Credentials
    /\ request.body \in {"valid", "invalid"}
    /\ request.layer \in 1 .. Len(Stack) + 1
    /\ request.userId \in BOOLEAN /\ request.listens \in BOOLEAN /\ request.events \in 0 .. 1
    /\ request.status \in Statuses
    /\ role \in Roles /\ project \in {"live", "gone"} /\ activities \in 0 .. 1

-----------------------------------------------------------------------------
(* The way of a request                                                    *)

Answer(status) == request' = [request EXCEPT !.pc = "answered", !.status = status]

Segments(pattern, path) == \A i \in DOMAIN pattern : pattern[i] \in Params \/ pattern[i] = path[i]

\* A mounted layer takes every path below its own, a route only its own.
Matches(layer, call) ==
    /\ IF layer.method = "use" THEN Len(layer.path) <= Len(call.path)
       ELSE layer.method = call.method /\ Len(layer.path) = Len(call.path)
    /\ Segments(layer.path, call.path)

LayersFrom(n, call) == {i \in n .. Len(Stack) : Matches(Stack[i], call)}

Route ==
    /\ request.pc = "routing"
    /\ LET found == LayersFrom(request.layer, request.call)
       IN IF found = {} THEN Answer("unrouted")
          ELSE request' = [request EXCEPT !.pc = "guarding", !.layer = Min(found), !.guard = 1]
    /\ UNCHANGED <<role, project, activities, wasAdmin>>

At == Stack[request.layer]

StandsAt(pc, guard) ==
    /\ request.pc = pc
    /\ request.guard <= Len(At.guards)
    /\ At.guards[request.guard] = guard
    /\ UNCHANGED <<role, project, activities, wasAdmin>>

AtGuard(guard) == StandsAt("guarding", guard)

Pass           == request' = [request EXCEPT !.pc = "guarding", !.guard = @ + 1]
Refuse(status) == request' = [request EXCEPT !.pc = "refused", !.status = status]

RequireAuth ==
    /\ AtGuard("requireAuth")
    /\ IF request.credential = "bearer"
       THEN request' = [request EXCEPT !.guard = @ + 1, !.userId = TRUE]
       ELSE Refuse("401")

InstallRecorder ==
    /\ AtGuard("projectActivityRecorder")
    /\ request' = [request EXCEPT !.guard = @ + 1, !.listens = TRUE]

MinRole == [requireProjectMembership |-> "VIEWER", requireProjectMember |-> "MEMBER",
            requireProjectAdmin |-> "ADMIN"]

\* requireProjectRole asks for the project first; without a projectId the query is one
\* that Prisma does not take, and the error is no AppError.
RequireRole ==
    \E guard \in DOMAIN MinRole :
        /\ AtGuard(guard)
        /\ IF ~request.userId THEN Refuse("401")
           ELSE IF ":projectId" \notin At.sees THEN Refuse("500")
           ELSE \/ Refuse("down")
                \/ project = "gone" /\ Refuse("404")
                \/ project = "live" /\ request' = [request EXCEPT !.pc = "membership"]

\* Then for the membership; both may have changed.
ReadMembership ==
    \E guard \in DOMAIN MinRole :
        /\ StandsAt("membership", guard)
        /\ \/ Refuse("down")
           \/ IF project = "live" /\ Priority[role] >= Priority[MinRole[guard]]
              THEN Pass ELSE Refuse("403")

ValidateBody ==
    /\ AtGuard("validateBody")
    /\ IF request.body = "valid" THEN Pass ELSE Refuse("400")

PassOn ==
    /\ request.pc = "guarding"
    /\ request.guard > Len(At.guards)
    /\ request' = IF At.handler = "next"
                  THEN [request EXCEPT !.pc = "routing", !.layer = @ + 1]
                  ELSE [request EXCEPT !.pc = "handling"]
    /\ UNCHANGED <<role, project, activities, wasAdmin>>

Does ==
    LET controller == CHOOSE c \in Controllers : At.handler \in DOMAIN c
    IN controller[At.handler]

\* What the first step that refuses answers; the error of a schema is no AppError, so
\* the error handler makes it a 500.
Refusals ==
    [token |-> IF request.credential # "internalToken" THEN "401" ELSE "none",
     user  |-> IF ~request.userId THEN "401" ELSE "none",
     body  |-> IF request.body = "invalid" THEN "500" ELSE "none",
     key   |-> IF request.credential # "apiKey" THEN "401" ELSE "none"]

Refusing == {i \in DOMAIN Does : Does[i] \in DOMAIN Refusals /\ Refusals[Does[i]] # "none"}

\* The services that know callers by something else than the credentials of the
\* document: a password, a refresh token, the application a run belongs to.
RefusesCallers == {"login", "refresh", "ingestEvents", "uploadArtifact", "completeRun"}

\* The controller: checks of its own, the service, the recorder, the answer.  The
\* services refuse with 400, 404 or 409, some with 401, and an error that is no
\* AppError is a 500.
Handle ==
    /\ request.pc = "handling"
    /\ IF Refusing # {} THEN Answer(Refusals[Does[Min(Refusing)]]) /\ UNCHANGED project
       ELSE \/ \E status \in IF Contains(Does, "redirect") THEN {"ok", "400"}
                             ELSE {"400", "404", "409", "500"}
                                  \cup IF At.handler \in RefusesCallers THEN {"401"} ELSE {} :
                 Answer(status) /\ UNCHANGED project
            \/ /\ ":projectId" \in At.sees => project = "live"
               /\ \E events \in CASE Contains(Does, "record")     -> {1}
                                   [] Contains(Does, "recordSome") -> {0, 1}
                                   [] OTHER                         -> {0} :
                      request' = [request EXCEPT !.pc = "answered", !.status = "ok",
                                                 !.events = events]
               /\ project' = IF At.handler = "deleteProject" THEN "gone" ELSE project
    /\ UNCHANGED <<role, activities, wasAdmin>>

\* res "finish"; a client that hung up never lets it come.
Finish ==
    /\ request.pc \in {"refused", "answered"}
    /\ request' = [request EXCEPT !.pc = IF request.listens /\ request.status = "ok"
                                            /\ request.events > 0
                                         THEN "recording" ELSE "done"]
    /\ UNCHANGED <<role, project, activities, wasAdmin>>

ClientGone ==
    /\ request.pc \in {"refused", "answered"}
    /\ request' = [request EXCEPT !.pc = "done"]
    /\ UNCHANGED <<role, project, activities, wasAdmin>>

\* recordProjectActivities: an error is logged, one row per event otherwise; a row
\* needs its project.
RecordActivities ==
    /\ request.pc = "recording"
    /\ request' = [request EXCEPT !.pc = "done"]
    /\ \/ project = "live" /\ activities' = activities + request.events
       \/ UNCHANGED activities
    /\ UNCHANGED <<role, project, wasAdmin>>

\* Other requests.
RoleChanges ==
    /\ role' \in Roles \ {role}
    /\ wasAdmin' = (wasAdmin /\ role' = "ADMIN")
    /\ UNCHANGED <<request, project, activities>>

ProjectGone ==
    /\ project = "live"
    /\ project' = "gone"
    /\ activities' = 0
    /\ UNCHANGED <<request, role, wasAdmin>>

-----------------------------------------------------------------------------
(* Specification                                                           *)

\* A path a client sends: values in the place of parameters.
Filled(path) == [i \in DOMAIN path |-> IF path[i] \in Params THEN "an-id" ELSE path[i]]

\* Every documented operation, and every route there is.
Calls ==
    {[d EXCEPT !.path = Filled(d.path)] : d \in Docs}
    \cup {Doc(Stack[i].method, Filled(Stack[i].path), "undocumented", "any", Stack[i].handler) :
             i \in {j \in DOMAIN Stack : Stack[j].method # "use"}}

HttpInit ==
    /\ \E call \in Calls, credential \in Credentials, body \in {"valid", "invalid"} :
          /\ call.body = "none" => body = "valid"
          /\ request = [pc |-> "routing", call |-> call, credential |-> credential, body |-> body,
                        layer |-> 1, guard |-> 1, userId |-> FALSE, listens |-> FALSE,
                        events |-> 0, status |-> "none"]
    /\ role \in Roles
    /\ project = "live"
    /\ activities = 0
    /\ wasAdmin = (role = "ADMIN")

HttpNext ==
    \/ Route \/ RequireAuth \/ InstallRecorder \/ RequireRole \/ ReadMembership
    \/ ValidateBody \/ PassOn
    \/ Handle \/ Finish \/ ClientGone \/ RecordActivities
    \/ RoleChanges \/ ProjectGone

HttpSpec == HttpInit /\ [][HttpNext]_httpVars

-----------------------------------------------------------------------------
(* The routes and the documents                                            *)

\* The layer that ends the way of a call, and those it goes through until there.
Serves(n, call) ==
    /\ n \in LayersFrom(1, call) /\ Stack[n].handler # "next"
    /\ \A i \in LayersFrom(1, call) : i < n => Stack[i].handler = "next"

Way(n, call) == {i \in LayersFrom(1, call) : i <= n}

\* The guards on the way as <<layer, place>>, and where one of them stands.
Posts(n, call, guard) ==
    UNION {{<<i, g>> : g \in {h \in DOMAIN Stack[i].guards : Stack[i].guards[h] = guard}} :
              i \in Way(n, call)}

Earlier(p, q) == p[1] < q[1] \/ (p[1] = q[1] /\ p[2] < q[2])

StepsOf(handler) == LET controller == CHOOSE c \in Controllers : handler \in DOMAIN c
                    IN ToSet(controller[handler])

\* What every call meets on its way: its own controller; the guard or the step that
\* asks for the documented credentials and body, and none that asks for others; and
\* requireAuth before whatever needs to know the caller.
Fits(n, call) ==
    LET auth  == Posts(n, call, "requireAuth")
        steps == StepsOf(call.handler)
    IN /\ Stack[n].handler = call.handler
       /\ call.security \in Credentials \cup {"undocumented"}
       /\ call.security = "bearer" => auth # {}
       /\ call.security = "apiKey" => "key" \in steps
       /\ call.security = "internalToken" => "token" \in steps
       /\ call.body = "checked" => Posts(n, call, "validateBody") # {} \/ "body" \in steps
       /\ auth # {} => call.security \in {"bearer", "undocumented"}
       /\ "key" \in steps => call.security \in {"apiKey", "undocumented"}
       /\ "token" \in steps => call.security \in {"internalToken", "undocumented"}
       /\ "user" \in steps => auth # {}
       /\ \A guard \in DOMAIN MinRole : \A p \in Posts(n, call, guard) :
             \E q \in auth : Earlier(q, p)

RoutesFit == \A call \in Calls : \E n \in 1 .. Len(Stack) : Serves(n, call) /\ Fits(n, call)

-----------------------------------------------------------------------------
(* Properties                                                              *)

\* The operations whose document names a 401.
Documented401 == {"login", "refresh", "ingestEvents", "uploadArtifact", "completeRun",
                  "claimScenarioReport", "getScenarioReportContext", "patchScenarioReport"}

\* Every documented operation and every route is served by its own controller, not
\* shadowed by an earlier layer; it succeeds only with the documented credentials and
\* with a body that is valid where the document says it is validated; a 401 goes to
\* other credentials than the documented ones or is documented; and a guard refuses
\* for a reason of the caller's: an invalid body (400), the credentials (401), a role
\* that was not administrator throughout or a project deleted meanwhile (403), a
\* project that is gone (404) - or because the database failed.
DocsAreServed ==
    LET call == request.call
    IN /\ request.pc = "handling" => At.handler = call.handler
       /\ request.status # "unrouted"
       /\ request.status = "ok" /\ call.security # "undocumented" =>
             call.security \in {"none", request.credential}
       /\ request.status = "ok" /\ call.body = "checked" => request.body = "valid"
       /\ request.status = "401" =>
             request.credential # call.security \/ call.handler \in Documented401
       /\ request.status = "403" => ~wasAdmin \/ project = "gone"
       /\ request.pc = "refused" =>
             \/ request.status \in {"401", "403", "down"}
             \/ request.status = "400" /\ request.body = "invalid"
             \/ request.status = "404" /\ project = "gone"
=============================================================================
