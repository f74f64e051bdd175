---------------------------- MODULE ModelRouting ----------------------------
(***************************************************************************)
(* The shared model client of a gateway (gateway/app/llm.py) on top of the *)
(* configuration it is handed (ConfigStore): every /mcp request and every  *)
(* page of the interface gives the client the settings it has read         *)
(* (gateway/app/main.py, gateway/app/webui.py), and a chat completion      *)
(* reads them again after each await, the fallback from the compression    *)
(* proxy to LiteLLM included.                                              *)
(*                                                                         *)
(* The settings are those of the settings table, by version; an            *)
(* httpx.AsyncClient is known by its URL.                                  *)
(***************************************************************************)
EXTENDS ConfigStore

CONSTANTS
    SettingsOf,  \* per version of the settings table: what it says
    Urls,        \* endpoints
    NoUrl,       \* an empty base URL
    Requests,    \* /mcp requests that use the model
    Pages        \* page loads that ask for /api/session

SettingsTable == 1
SettingsVersions == 0..MaxWrites

ASSUME ModelRoutingAssumption ==
    /\ NoUrl \notin Urls
    /\ Requests \intersect Pages = {}
    /\ SettingsOf \in [SettingsVersions ->
          [smart_tools_enabled : BOOLEAN, litellm_base_url : Urls \union {NoUrl},
           headroom_enabled : BOOLEAN, headroom_base_url : Urls \union {NoUrl},
           headroom_fallback : BOOLEAN]]

VARIABLES
    settings,  \* per replica: LlmClient._settings, by version
    clients,   \* per replica: the URLs LlmClient._clients has a client for
    stale,     \* per replica: the URLs of the clients in LlmClient._stale
    request    \* per request or page: where it is

llmVars == <<settings, clients, stale, request>>
allVars == <<vars, llmVars>>

InFlight == {"lookup", "proxy", "direct", "store"}
Idle == [pc |-> "idle", at |-> NoReplica, read |-> 0, client |-> NoUrl]

\* Configuration, client and requests have their types.
RoutingTypeOK ==
    /\ TypeOK
    /\ settings \in [Replicas -> SettingsVersions]
    /\ clients \in [Replicas -> SUBSET (Urls \union {NoUrl})]
    /\ stale \in [Replicas -> SUBSET (Urls \union {NoUrl})]
    /\ request \in [Requests \union Pages ->
          [pc : {"idle", "asked"} \union InFlight, at : Replicas \union {NoReplica},
           read : SettingsVersions, client : Urls \union {NoUrl}]]

RoutingInit ==
    /\ Init
    /\ settings = [r \in Replicas |-> 0]
    /\ clients = [r \in Replicas |-> {}]
    /\ stale = [r \in Replicas |-> {}]
    /\ request = [q \in Requests \union Pages |-> Idle]

-----------------------------------------------------------------------------
(* Adopting the configuration.                                             *)

\* The endpoints a version of the settings names.
Endpoints(v) == {SettingsOf[v].litellm_base_url, SettingsOf[v].headroom_base_url}

\* Defect: clients of other endpoints are dropped, and so closed, at once.
UpdateDrops(r, v) ==
    /\ settings' = [settings EXCEPT ![r] = v]
    /\ clients' = [clients EXCEPT ![r] = @ \intersect Endpoints(v)]
    /\ UNCHANGED stale

\* Defect: the settings are taken over only when an endpoint has changed.
UpdateOnNewEndpoint(r, v) ==
    /\ settings' = [settings EXCEPT ![r] = IF Endpoints(v) = Endpoints(@) THEN @ ELSE v]
    /\ UNCHANGED <<clients, stale>>

\* LlmClient.update: a client of an endpoint no longer named is put aside,
\* still open, and the settings are swapped.
update(r, v) ==
    /\ settings' = [settings EXCEPT ![r] = v]
    /\ clients' = [clients EXCEPT ![r] = @ \intersect Endpoints(v)]
    /\ stale' = [stale EXCEPT ![r] = @ \union (clients[r] \ Endpoints(v))]

\* provider.current() answers without waiting.
Served(r) == current[r] # None /\ ~ due[r] /\ load[r].at = 0

\* POST /mcp reads the configuration and hands it to the client in one go;
\* what follows, up to the first model call, awaits.
mcp_endpoint(q, r) ==
    /\ request[q].pc = "idle"
    /\ Served(r)
    /\ update(r, current[r].data[SettingsTable])
    /\ request' = [request EXCEPT ![q] = [Idle EXCEPT !.pc = "asked", !.at = r]]
    /\ UNCHANGED vars

\* GET /api/session reads the configuration and then waits for the identity
\* provider ...
session_info(q, r) ==
    /\ request[q].pc = "idle"
    /\ Served(r)
    /\ request' = [request EXCEPT ![q] = [Idle EXCEPT !.pc = "asked", !.at = r,
                                          !.read = current[r].data[SettingsTable]]]
    /\ UNCHANGED <<vars, settings, clients, stale>>

\* ... before _llm_enabled hands over what it has read, unless the caller is
\* unknown or has a squad to choose first.
llm_enabled(q) ==
    /\ request[q].pc = "asked"
    /\ \/ update(request[q].at, request[q].read)
       \/ UNCHANGED <<settings, clients, stale>>
    /\ request' = [request EXCEPT ![q] = Idle]
    /\ UNCHANGED vars

-----------------------------------------------------------------------------
(* A model call.  The arrival of a reply only touches the request itself,  *)
(* so it is one step with what the request does next.                      *)

\* LlmClient.enabled
enabled(v) == SettingsOf[v].smart_tools_enabled /\ SettingsOf[v].litellm_base_url # NoUrl

\* LlmClient._chat_route
chat_route(v) ==
    IF SettingsOf[v].headroom_enabled THEN SettingsOf[v].headroom_base_url ELSE NoUrl

\* LlmClient._http, and the post: one client per URL, made on first use;
\* as says what request q is waiting for.
Post(q, u, as) ==
    /\ clients' = [clients EXCEPT ![request[q].at] = @ \union {u}]
    /\ request' = [request EXCEPT ![q] = [@ EXCEPT !.pc = as, !.client = u]]
    /\ UNCHANGED <<vars, settings, stale>>

Done(q) ==
    /\ request' = [request EXCEPT ![q] = Idle]
    /\ UNCHANGED <<vars, settings, clients, stale>>

\* LlmClient.embed goes straight to LiteLLM: once to look a question up in
\* the answer cache, once to store the answer that has come in.
embed(q) ==
    /\ request[q].pc \in {"asked", "proxy", "direct"}
    /\ LET to == SettingsOf[settings[request[q].at]].litellm_base_url IN
          /\ to # NoUrl
          /\ Post(q, to, IF request[q].pc = "asked" THEN "lookup" ELSE "store")

\* LlmClient.complete, up to its first post: model, key and route are read
\* together.  The lookup has found nothing, or was not made.
complete(q) ==
    LET v == settings[request[q].at] IN
    /\ request[q].pc \in {"asked", "lookup"}
    /\ \/ ~ enabled(v) /\ Done(q)
       \/ /\ enabled(v) /\ chat_route(v) # NoUrl
          /\ Post(q, chat_route(v), "proxy")
       \/ /\ enabled(v) /\ chat_route(v) = NoUrl
          /\ Post(q, SettingsOf[v].litellm_base_url, "direct")

\* LlmUnreachable from the proxy: the fallback and its endpoint are those of
\* the settings by then, empty or not; the model and the key are those of the
\* first post.
FallsBack(q) ==
    LET v == settings[request[q].at] IN
    /\ request[q].pc = "proxy"
    /\ SettingsOf[v].headroom_fallback
    /\ Post(q, SettingsOf[v].litellm_base_url, "direct")

\* A tool without a model; a recalled answer; a chat answer not to be
\* stored; a rejection, never tried elsewhere; unreachable with no fallback
\* left; or the answer is stored, with its embedding or without.
RequestEnds(q) ==
    /\ request[q].pc # "idle"
    /\ Done(q)

-----------------------------------------------------------------------------
RequestStep(q) == embed(q) \/ complete(q) \/ FallsBack(q) \/ RequestEnds(q)

RoutingNext ==
    \/ Next /\ UNCHANGED llmVars
    \/ \E q \in Requests, r \in Replicas : mcp_endpoint(q, r)
    \/ \E q \in Pages, r \in Replicas : session_info(q, r)
    \/ \E q \in Requests : RequestStep(q)
    \/ \E q \in Pages : llm_enabled(q)

RoutingSpec == RoutingInit /\ [][RoutingNext]_allVars

\* As in ConfigStore; besides, model calls end (the client has a timeout),
\* pages learn who is asking, and requests keep arriving at every replica.
RoutingFairSpec ==
    /\ RoutingSpec
    /\ \A r \in Replicas : WF_allVars(PollDue(r) /\ UNCHANGED llmVars)
    /\ \A r \in Replicas : WF_allVars(ReadStep(r) /\ UNCHANGED llmVars)
    /\ \A q \in Pages : WF_allVars(llm_enabled(q))
    /\ \A q \in Requests : WF_allVars(RequestStep(q))
    /\ \A r \in Replicas : SF_allVars(\E q \in Requests : mcp_endpoint(q, r))

-----------------------------------------------------------------------------
(* Properties.                                                             *)

\* A client is never closed under a call: one whose endpoint an administrator
\* replaces while it answers is put aside, not dropped.
OpenWhileInUse ==
    \A q \in Requests : request[q].pc \in InFlight =>
        request[q].client \in clients[request[q].at] \union stale[request[q].at]

\* "adopts anything an administrator changed since the last request": once
\* the edits stop, every replica's model client works with the committed
\* settings, for good, although pages hand over settings read long before.
ModelSettingsConverge ==
    \A r \in Replicas : <>[](settings[r] = tables[SettingsTable])
=============================================================================
