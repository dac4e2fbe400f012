---------------------------- MODULE ApiContract ----------------------------
\* The management API as the console is compiled against it (the types openapi
\* generates into web/src/api/generated.ts): the method of every operation,
\* whether it declares the X-ESGW-Request header, and the statuses it declares.
\* Bodies and the JSON layout of the answers are left out.
EXTENDS Naturals

\* ---- paths: which method reaches which operation --------------------------

AuthPaths ==
    [GET    |-> {"getAuthBootstrap", "getAuthSession", "listAuthMethods"},
     POST   |-> {"createAuthBootstrap", "login", "logout", "changePassword"},
     PUT    |-> {}, DELETE |-> {}]

DraftPaths ==
    [GET    |-> {"getConfigDraft", "listConfigObjects", "getConfigObject",
                 "getConfigSchemas", "getCompiledConfig", "getDraftDiff"},
     POST   |-> {"validateConfig"},
     PUT    |-> {"replaceConfigDraft", "putConfigObject"},
     DELETE |-> {"deleteConfigObject"}]

VersionPaths ==
    [GET    |-> {"getConfigStatus", "listConfigVersions", "getConfigVersion",
                 "getConfigVersionSource", "getConfigVersionCompiled", "getConfigVersionDiff"},
     POST   |-> {"publishConfig", "rollbackConfigVersion"},
     PUT    |-> {}, DELETE |-> {}]

StatusPaths ==
    [GET    |-> {"getStatusSummary", "listStatusListeners", "listStatusClusters",
                 "listStatusClusterEndpoints", "listStatusRoutes", "listStatusCerts",
                 "getStatsOverview", "listStatsSeries"},
     POST   |-> {}, PUT |-> {}, DELETE |-> {}]

SystemPaths ==
    [GET    |-> {"listCertificates", "getCertificate", "getSystemInfo",
                 "getEnvoyPrometheusStats", "getHealth", "getReady", "getManagementMetrics"},
     POST   |-> {"createCertificate"},
     PUT    |-> {},
     DELETE |-> {"deleteCertificate"}]

PathTables == {AuthPaths, DraftPaths, VersionPaths, StatusPaths, SystemPaths}

Methods == {"GET", "POST", "PUT", "DELETE"}

\* ---- operations: declared header and answers ------------------------------

Op(header, statuses) == [csrf |-> header, statuses |-> statuses]

AuthOperations ==
    [getAuthBootstrap    |-> Op(FALSE, {200}),
     createAuthBootstrap |-> Op(TRUE, {201, 400, 409}),
     login               |-> Op(TRUE, {200, 401, 429}),
     logout              |-> Op(TRUE, {204, 401}),
     getAuthSession      |-> Op(FALSE, {200, 401}),
     changePassword      |-> Op(TRUE, {204, 400, 401}),
     listAuthMethods     |-> Op(FALSE, {200})]

DraftOperations ==
    [getConfigDraft      |-> Op(FALSE, {200}),
     replaceConfigDraft  |-> Op(TRUE, {200, 400, 409}),
     listConfigObjects   |-> Op(FALSE, {200}),
     getConfigObject     |-> Op(FALSE, {200, 404}),
     putConfigObject     |-> Op(TRUE, {200, 400, 409}),
     deleteConfigObject  |-> Op(TRUE, {200, 404, 409})]

ReviewOperations ==
    [getConfigSchemas    |-> Op(FALSE, {200}),
     validateConfig      |-> Op(TRUE, {200, 400}),
     getCompiledConfig   |-> Op(FALSE, {200, 422}),
     getDraftDiff        |-> Op(FALSE, {200})]

ReleaseOperations ==
    [publishConfig          |-> Op(TRUE, {202, 409, 422}),
     getConfigStatus        |-> Op(FALSE, {200}),
     listConfigVersions     |-> Op(FALSE, {200}),
     getConfigVersion       |-> Op(FALSE, {200, 404}),
     getConfigVersionSource |-> Op(FALSE, {200, 404})]

HistoryOperations ==
    [getConfigVersionCompiled |-> Op(FALSE, {200, 404}),
     getConfigVersionDiff     |-> Op(FALSE, {200, 404}),
     rollbackConfigVersion    |-> Op(TRUE, {200, 202, 409})]

StatusOperations ==
    [getStatusSummary    |-> Op(FALSE, {200}),
     listStatusListeners |-> Op(FALSE, {200}),
     listStatusClusters  |-> Op(FALSE, {200}),
     listStatusClusterEndpoints |-> Op(FALSE, {200, 404}),
     listStatusRoutes    |-> Op(FALSE, {200}),
     listStatusCerts     |-> Op(FALSE, {200}),
     getStatsOverview    |-> Op(FALSE, {200}),
     listStatsSeries     |-> Op(FALSE, {200})]

CertificateOperations ==
    [listCertificates    |-> Op(FALSE, {200}),
     createCertificate   |-> Op(TRUE, {201, 400, 409}),
     getCertificate      |-> Op(FALSE, {200, 404}),
     deleteCertificate   |-> Op(TRUE, {204, 404, 409})]

SystemOperations ==
    [getSystemInfo           |-> Op(FALSE, {200}),
     getEnvoyPrometheusStats |-> Op(FALSE, {200, 502}),
     getHealth               |-> Op(FALSE, {200}),
     getReady                |-> Op(FALSE, {200, 503}),
     getManagementMetrics    |-> Op(FALSE, {200})]

OperationTables ==
    {AuthOperations, DraftOperations, ReviewOperations, ReleaseOperations,
     HistoryOperations, StatusOperations, CertificateOperations, SystemOperations}

Operations == UNION {DOMAIN table : table \in OperationTables}

Contract ==
    [op \in Operations |->
        LET table == CHOOSE t \in OperationTables : op \in DOMAIN t IN
        [csrf     |-> table[op].csrf,
         statuses |-> table[op].statuses,
         method   |-> CHOOSE m \in Methods : \E paths \in PathTables : op \in paths[m]]]

\* ---- the two ends of the CSRF header, and who needs no session ------------

\* The header middleware of the console's client.
ClientSendsHeader(op) == Contract[op].method \notin {"GET", "HEAD", "OPTIONS"}

\* The first test of Server.secureOperation.
ServerWantsHeader(op) == Contract[op].method \notin {"GET", "HEAD"}

Anonymous ==
    {"getAuthBootstrap", "createAuthBootstrap", "login", "listAuthMethods",
     "getHealth", "getReady", "getManagementMetrics"}

\* Every operation has exactly one method, and the three statements of the CSRF
\* rule agree on it: the contract declares the header exactly where the client
\* sets it, and that is wherever the server insists on it.  Every operation
\* declares a success.
ASSUME ContractAssumption ==
    /\ Operations = UNION {paths[m] : paths \in PathTables, m \in Methods}
    /\ \A op \in Operations : \A p, q \in PathTables, m, n \in Methods :
           op \in p[m] /\ op \in q[n] => p = q /\ m = n
    /\ \A op \in Operations :
           /\ Contract[op].csrf <=> ClientSendsHeader(op)
           /\ ServerWantsHeader(op) => ClientSendsHeader(op)
    /\ \A op \in Operations : Contract[op].statuses \cap 200..299 # {}
    /\ Anonymous \subseteq Operations
=============================================================================
