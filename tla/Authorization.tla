---------------------------- MODULE Authorization ----------------------------
(***************************************************************************)
(* Which request runs which route: the table of route contracts            *)
(* (crates/okf-http/src/routing.rs), the decision of the middleware in     *)
(* front of every route (security.rs) and the capabilities of an authority *)
(* (users.rs and lib.rs).                                                  *)
(***************************************************************************)
EXTENDS FiniteSets

Modes == {"ReadOnly", "LocalEditor", "AuthenticatedTls"}
EditModes == {"LocalEditor", "AuthenticatedTls"}
Tls == {"AuthenticatedTls"}

(* What the command line can start: a trusted proxy needs the TLS mode.    *)
Deployments == {d \in [mode : Modes, proxy : BOOLEAN, compat : BOOLEAN] :
                  d.proxy => d.mode \in Tls}
-----------------------------------------------------------------------------
(* Capabilities.                                                           *)
RootManagement == {"roots.propose", "roots.configure", "content.initialize"}
PersistentSecurity == {"users.manage", "security.manage", "password.change"}

KnownCapabilities ==
  RootManagement \cup PersistentSecurity
  \cup {"content.read", "content.write", "review.decide", "derived.rebuild", "voyage.spend",
        "session.logout", "session.pair", "session.recover", "session.login"}

\* A mutant: the list misses what an index needs besides voyage.spend.
PairedCapabilitiesShort ==
  {"content.initialize", "content.write", "review.decide",
   "roots.configure", "roots.propose", "session.logout", "session.recover", "voyage.spend"}

PairedCapabilities ==
  {"content.initialize", "content.write", "derived.rebuild", "review.decide",
   "roots.configure", "roots.propose", "session.logout", "session.recover", "voyage.spend"}

\* A mutant: the copy of the list was not updated.
PairedBrowserCapabilitiesOld ==
  {"content.write", "derived.rebuild", "review.decide", "session.logout",
   "session.recover", "voyage.spend"}

\* The copy of the list that the answers to a paired browser show.
PairedBrowserCapabilities ==
  {"content.initialize", "content.write", "derived.rebuild", "review.decide",
   "roots.configure", "roots.propose", "session.logout", "session.recover", "voyage.spend"}

UserRoles == {"admin", "editor", "voyage"}

CapabilitiesForRoles(R) ==
  {"content.read", "password.change", "session.logout", "session.recover"}
  \cup (IF R \cap {"editor", "admin"} # {}
        THEN {"content.initialize", "content.write", "derived.rebuild", "review.decide",
              "roots.configure", "roots.propose"}
        ELSE {})
  \cup (IF "voyage" \in R THEN {"voyage.spend"} ELSE {})
  \cup (IF "admin" \in R THEN {"security.manage", "users.manage"} ELSE {})
-----------------------------------------------------------------------------
(* Route contracts.  A path is a prefix and a name.                        *)
Contract(prefix, entries, access, modes, caps) ==
  {[method |-> e[1], path |-> <<prefix, e[2]>>,
    access |-> access, modes |-> modes, caps |-> caps] : e \in entries}

\* The api_get, api_post, api_put and api_delete macros.
Api(entries, access, modes, caps) ==
  Contract("/api/v1", entries, access, modes, caps)
  \cup Contract("/api/okf", entries, access, modes, caps)

Open(prefix, paths) ==
  Contract(prefix, {<<"GET", p>> : p \in paths}, "AnonymousRead", Modes, {"content.read"})

BrowserRoutes == Open("", {"/", "/docs-browser", "/docs-browser/", "/docs-browser/{*path}",
                           "/okf-docs/{mount}/{*path}", "/okf-root/{index}/{*path}"})

ReadRoutes ==
  Api({<<"GET", "/documents">>, <<"GET", "/document">>, <<"GET", "/graph">>},
      "AnonymousRead", Modes, {"content.read"})

V1(method, path, access, modes, caps) ==
  Contract("/api/v1", {<<method, path>>}, access, modes, caps)

AccessRoutes ==
  Open("/api/v1", {"/access/session"})
  \cup V1("POST", "/access/login", "AuthenticationBootstrap", Tls, {"session.login"})
  \cup V1("POST", "/access/pair", "AuthenticationBootstrap", {"LocalEditor"}, {"session.pair"})
  \cup V1("POST", "/access/session/refresh", "AuthenticationBootstrap", EditModes,
          {"session.recover"})
  \cup V1("POST", "/access/logout", "LocalEditorMutation", EditModes, {"session.logout"})
  \cup V1("POST", "/access/password", "SecurityAdministration", Tls, {"password.change"})
  \cup V1("POST", "/access/sessions/revoke", "SecurityAdministration", Tls, {"session.logout"})
  \cup V1("GET", "/access/users", "SecurityAdministration", Tls, {"users.manage"})
  \cup V1("POST", "/access/sessions/revoke-user", "SecurityAdministration", Tls,
          {"security.manage"})

ConfigRoutes ==
  Api({<<"GET", "/config/roots">>}, "AuthenticatedSensitiveRead", EditModes, {"roots.propose"})
  \cup Api({<<"POST", "/config/roots">>, <<"PUT", "/config/roots/{index}">>,
            <<"DELETE", "/config/roots/{index}">>},
           "LocalEditorMutation", EditModes, {"roots.configure"})

RootRoutes ==
  Contract("/api/v1",
    {<<"GET", "/roots/configuration">>, <<"GET", "/roots/monitoring">>,
     <<"POST", "/roots/{id}/monitoring/check">>, <<"GET", "/roots/{id}/monitoring/pending">>,
     <<"POST", "/roots/proposals">>, <<"GET", "/roots/proposals/{id}">>},
    "AuthenticatedSensitiveRead", EditModes, {"roots.propose"})
  \cup Contract("/api/v1",
    {<<"POST", "/roots/{id}/monitoring/accept">>, <<"POST", "/roots/{id}/monitoring/dismiss">>,
     <<"POST", "/roots/proposals/{id}/registration">>,
     <<"PUT", "/roots/{id}">>, <<"DELETE", "/roots/{id}">>},
    "LocalEditorMutation", EditModes, {"roots.configure"})
  \cup V1("POST", "/roots/proposals/{id}/initialization/plan", "AuthenticatedSensitiveRead",
          EditModes, {"content.initialize"})
  \cup V1("POST", "/roots/proposals/{id}/initialization", "LocalEditorMutation",
          EditModes, {"content.initialize"})

VoyageRoutes ==
  Api({<<"GET", "/voyage/status">>, <<"POST", "/voyage/plan">>},
      "AnonymousRead", Modes, {"content.read"})
  \cup Api({<<"POST", "/voyage/check">>, <<"POST", "/voyage/search">>},
           "TokenSpending", EditModes, {"voyage.spend"})
  \cup Api({<<"POST", "/voyage/index">>},
           "TokenSpending", EditModes, {"voyage.spend", "derived.rebuild"})
  \cup Api({<<"POST", "/voyage/rebuild">>},
           "DerivedStateMutation", EditModes, {"derived.rebuild"})

ReviewRoutes ==
  Api({<<"GET", "/suggestions">>}, "AuthenticatedSensitiveRead", EditModes, {"review.decide"})
  \cup Api({<<"POST", "/suggestions/generate">>, <<"POST", "/suggestions/import">>,
            <<"POST", "/suggestions/{id}/accept">>, <<"POST", "/suggestions/{id}/deny">>,
            <<"POST", "/review-sets/{id}/accept-all">>, <<"POST", "/review-sets/{id}/deny-all">>},
           "DerivedStateMutation", EditModes, {"review.decide"})
  \cup Api({<<"POST", "/edges/apply">>}, "CanonicalWrite", EditModes, {"content.write"})

CompatRoutes == Open("", {"/docs/{*path}", "/crates/scql/docs/knowledge/{*path}",
                          "/crates/okf/docs/knowledge/{*path}", "/repo-files/{*path}"})

Contracts(compat) ==
  BrowserRoutes \cup ReadRoutes \cup AccessRoutes \cup ConfigRoutes \cup RootRoutes
  \cup VoyageRoutes \cup ReviewRoutes \cup Open("/api/v1", {"/health"}) \cup Open("", {"/health"})
  \cup IF compat THEN CompatRoutes ELSE {}

ValidContracts(routes) ==
  /\ \A r, s \in routes : r.method = s.method /\ r.path = s.path => r = s
  /\ \A r \in routes :
       /\ r.method \in {"GET", "POST", "PUT", "DELETE"}
       /\ r.modes # {} /\ r.caps # {} /\ r.caps \subseteq KnownCapabilities
       /\ (r.access = "AnonymousRead") = (r.modes = Modes)
       /\ "ReadOnly" \in r.modes => r.access = "AnonymousRead"
       /\ r.access = "AuthenticationBootstrap" =>
            \/ r.modes = {"LocalEditor"} /\ "session.pair" \in r.caps
            \/ r.modes = Tls /\ "session.login" \in r.caps
            \/ r.modes = EditModes /\ "session.recover" \in r.caps
       /\ r.access = "SecurityAdministration" =>
            r.modes = Tls /\ r.caps \cap (PersistentSecurity \cup {"session.logout"}) # {}
       /\ r.access = "TokenSpending" => "voyage.spend" \in r.caps
       /\ r.access = "CanonicalWrite" => "content.write" \in r.caps

Table == [compat \in BOOLEAN |-> Contracts(compat)]

(* The router of a deployment; a table that is not valid ends the process. *)
Startable == {compat \in BOOLEAN : ValidContracts(Table[compat])}

Routes(d) == {r \in Table[d.compat] : d.compat \in Startable /\ d.mode \in r.modes}
-----------------------------------------------------------------------------
(* Requests: who sends one, and what its headers say.                      *)
Nobody == [kind |-> "nobody", roles |-> {}]
Automation == [kind |-> "token", roles |-> {}]
Paired == [kind |-> "paired", roles |-> {}]
User(R) == [kind |-> "user", roles |-> R]

\* The sessions of a deployment: only a local editor pairs, only TLS has users.
SessionsOf(d) ==
  CASE d.mode = "ReadOnly" -> {}
    [] d.mode = "LocalEditor" -> {Paired}
    [] d.mode = "AuthenticatedTls" -> {User(R) : R \in SUBSET UserRoles}

(* Host and Origin name the server, name each other, name another site, or *)
(* there is no Origin; forwarding headers are absent, those of the trusted *)
(* proxy, or others; the browser says that the request is of its own site. *)
Headers == [origin : {"own", "alias", "other", "none"}, via : {"direct", "proxy", "mixed"},
            site : BOOLEAN, csrf : {"right", "wrong", "none"}]

FromProxy(h, origins) == h.via = "proxy" /\ h.origin \in origins

StrictSameOrigin(d, h) ==
  /\ h.site
  /\ IF d.proxy THEN FromProxy(h, {"own"}) ELSE h.via = "direct" /\ h.origin = "own"

\* A proxied Origin is the public one, the Host that of the backend.
LegacyOrigin(d, h) ==
  h.site /\ h.origin \in IF d.proxy THEN {"none"} ELSE {"own", "alias", "none"}

HeldCapabilities(who) ==
  IF who.kind = "paired" THEN PairedCapabilities ELSE CapabilitiesForRoles(who.roles)

\* What the server tells a session that it may do, in the answers to a login, a
\* pairing and a refresh (the status of a paired browser lists nothing).
Advertised(who) ==
  IF who.kind = "paired" THEN PairedBrowserCapabilities ELSE CapabilitiesForRoles(who.roles)

\* A mutant: the token is only kept from the management of roots.
TokenExcludedRoots == RootManagement

TokenExcluded == RootManagement \cup PersistentSecurity

Authorized(d, caps, who, h) ==
  /\ d.proxy => caps \cap RootManagement = {}
  /\ \/ /\ who = Automation
        /\ caps \cap TokenExcluded = {}
        /\ LegacyOrigin(d, h)
     \/ /\ who.kind \in {"paired", "user"}
        /\ h.csrf = "right" /\ StrictSameOrigin(d, h)
        /\ caps \subseteq HeldCapabilities(who)

PublicBootstrap(path) ==
  path \in {<<"", "/">>, <<"", "/health">>, <<"", "/docs-browser">>, <<"", "/docs-browser/">>,
            <<"", "/docs-browser/{*path}">>, <<"/api/v1", "/health">>,
            <<"/api/v1", "/access/session">>}

RemoteRead(who) == who.kind = "user" /\ "content.read" \in HeldCapabilities(who)

(* Does the handler of route r run for this request?                       *)
Runs(d, r, who, h) ==
  /\ d.proxy => FromProxy(h, {"own", "none"})
  /\ CASE r.access = "AnonymousRead" -> d.proxy /\ ~PublicBootstrap(r.path) => RemoteRead(who)
       [] r.access = "AuthenticationBootstrap" -> StrictSameOrigin(d, h)
       [] OTHER -> Authorized(d, r.caps, who, h)

\* What the browser of a signed-in user sends.
BrowserHeaders(d) ==
  [origin |-> "own", via |-> IF d.proxy THEN "proxy" ELSE "direct", site |-> TRUE, csrf |-> "right"]
=============================================================================
