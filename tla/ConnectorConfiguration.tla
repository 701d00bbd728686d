----------------------- MODULE ConnectorConfiguration -----------------------
(***************************************************************************)
(* The configuration of one connector: the documents of its configuration  *)
(* collection, the catalogue's registration of the connector, the entries  *)
(* of its own catalogue, and the requests that change them while others    *)
(* are being served.                                                       *)
(*                                                                         *)
(* Everywhere the code reads "the" configuration it takes the first        *)
(* document of the collection (findOne({})); nothing makes it the only     *)
(* one.  A document without keys falls back on config.json.  A save that   *)
(* nobody awaits is answered before it lands; when it fails, the rejection *)
(* is unhandled and the process ends, to be restarted (docker-compose).    *)
(*                                                                         *)
(* A service key and its secret key are one value: an update carries both. *)
(* Requests are taken as authorised, and config.json as complete.          *)
(***************************************************************************)
EXTENDS Integers, Sequences, SequencesExt

CONSTANTS
    Slots,        \* request handlers of the connector's process
    Boot,         \* the handler of the registration that starts the server
    Keys,         \* pairs of a service key and a secret key
    NoKeys,       \* none of them
    FileKeys,     \* the pair in config.json
    KnownKeys,    \* the pairs that the catalogue and the consent manager accept
    Origins,      \* origins a front-end may be served from
    MaxRequests,  \* bound: requests received in one behaviour
    MaxFaults     \* bound: calls that fail and crashes in one behaviour

ASSUME KeysAssumption == NoKeys \notin Keys /\ FileKeys \in KnownKeys /\ KnownKeys \subseteq Keys
ASSUME BootAssumption == Boot \notin Slots
ASSUME OriginsAssumption == Origins # {}
ASSUME BoundsAssumption == MaxRequests \in Nat /\ MaxFaults \in Nat

VARIABLES
    up,         \* does the process serve?
    confs,      \* the configuration collection, in insertion order
    reg,        \* the catalogue's registration of the connector
    catalog,    \* the entries for one of its resources: enabled or not
    cred,       \* value of a credential that config.json holds: "file", "edited"
    token,      \* the keys of the last login that was answered
    req,        \* req[s]: what handler s is doing
    serial,     \* identities given to documents and their sub-documents so far
    started,    \* number of requests received
    faults,     \* number of faults
    ended,      \* has the process ended once?
    everReset   \* has a reset deleted a configuration?

confVars == <<confs, reg, catalog, cred, token, serial, everReset>>

Handlers == Slots \cup {Boot}
Idle == [op |-> "idle"]

\* session: the keys the consent manager's token was given for; v: mongoose's
\* version of the document's array.
Document == [id : Nat, keyed : BOOLEAN, keys : Keys \cup {NoKeys},
             session : Keys \cup {NoKeys},
             origins : Seq([id : Nat, name : Origins, by : Keys]), v : Nat]
Registration == [app : Nat, by : Keys]
NotRegistered == [app |-> 0, by |-> NoKeys]

ConfigurationRequest ==
    [op : {"register"}, pc : {"read"}]
      \cup [op : {"register"}, pc : {"check", "post", "list"}, self : Registration]
      \cup [op : {"addOrigin"}, pc : {"sign"}, doc : Document, name : Origins]
      \cup [op : {"push"}, doc : Nat, name : Origins, by : Keys]
      \cup [op : {"resign"}, doc : Nat, v : Nat, at : Nat, by : Keys]
      \cup [op : {"splice"}, doc : Document, target : Nat]

ConfigurationTypeOK ==
    /\ up \in BOOLEAN
    /\ confs \in Seq(Document)
    /\ reg \in Registration \cup {NotRegistered}
    /\ catalog \in Seq(BOOLEAN)
    /\ cred \in {"file", "edited"}
    /\ token \in Keys \cup {NoKeys}
    /\ serial \in Nat /\ started \in 0..MaxRequests /\ faults \in 0..MaxFaults
    /\ ended \in BOOLEAN /\ everReset \in BOOLEAN

\* A connector that started once, registered, and serves one origin.
ConfigurationInit ==
    /\ up = TRUE
    /\ confs = <<[id |-> 1, keyed |-> TRUE, keys |-> FileKeys, session |-> NoKeys,
                  origins |-> <<[id |-> 2, name |-> CHOOSE o \in Origins : TRUE,
                                 by |-> FileKeys]>>, v |-> 1]>>
    /\ reg \in {NotRegistered, [app |-> 1, by |-> FileKeys]}
    /\ catalog = IF reg = NotRegistered THEN <<>> ELSE <<TRUE>>
    /\ cred = "file"
    /\ token = NoKeys
    /\ req = [s \in Handlers |-> Idle]
    /\ serial = 2 /\ started = 0 /\ faults = 0 /\ ended = FALSE /\ everReset = FALSE

-----------------------------------------------------------------------------
(* Handlers, and the first document *)

Do(s, r) == req' = [req EXCEPT ![s] = r]
Ends(s) == Do(s, Idle)
\* A handler that may take one of the MaxRequests requests.
Free(s) == up /\ s \in Slots /\ req[s] = Idle /\ started < MaxRequests
Begin(s) == Free(s) /\ started' = started + 1 /\ UNCHANGED <<up, faults, ended>>
Lives == UNCHANGED <<up, ended>>
Goes == up /\ Lives /\ UNCHANGED <<started, faults>>
Faulty == up /\ faults < MaxFaults /\ faults' = faults + 1 /\ UNCHANGED started
Fails == Faulty /\ Lives

\* An unhandled rejection, or a crash: every handler vanishes.
ProcessEnds == up' = FALSE /\ ended' = TRUE /\ req' = [s \in Handlers |-> Idle]

NoConf == confs = <<>>
\* Variant: config.json only counts when there is no document.
KeysOfDocument == IF NoConf THEN FileKeys ELSE confs[1].keys
EffectiveKeys == IF ~NoConf /\ confs[1].keys # NoKeys THEN confs[1].keys ELSE FileKeys
AppKey == IF ~NoConf /\ confs[1].keyed THEN confs[1].id ELSE 0
Fresh(keyed, keys) ==
    [id |-> serial + 1, keyed |-> keyed, keys |-> keys, session |-> NoKeys,
     origins |-> <<>>, v |-> 0]

\* Variant: the document is replaced by what the request holds.
ReplaceFirst(keys) ==
    /\ confs' = <<Fresh(FALSE, keys)>> \o (IF NoConf THEN <<>> ELSE Tail(confs))
    /\ serial' = serial + 1
\* findOneAndUpdate({}, ...) with upsert: the document it may create has no appKey.
UpsertFirst(keys) ==
    IF NoConf
    THEN confs' = <<Fresh(FALSE, keys)>> /\ serial' = serial + 1
    ELSE /\ confs' = IF keys = NoKeys THEN confs ELSE [confs EXCEPT ![1].keys = keys]
         /\ UNCHANGED serial

-----------------------------------------------------------------------------
(* Start *)

\* Variant: the check for an appKey looks at no document.
SetUpAlways == Append(confs, Fresh(TRUE, EffectiveKeys))
ConfigurationSetUp == IF AppKey = 0 THEN Append(confs, Fresh(TRUE, EffectiveKeys)) ELSE confs

\* The server listens once its configuration is set up; the registration goes on.
StartServer ==
    /\ ~up /\ up' = TRUE
    /\ confs' = ConfigurationSetUp
    /\ serial' = serial + 1
    /\ cred' = "file"
    /\ Do(Boot, [op |-> "register", pc |-> "read"])
    /\ UNCHANGED <<reg, catalog, token, started, faults, ended, everReset>>

Crash == Faulty /\ ProcessEnds /\ UNCHANGED confVars

-----------------------------------------------------------------------------
(* registerSelfDescription: ask the catalogue, register, list the resources *)

RegisterRead(s) ==
    /\ Goes /\ req[s] = [op |-> "register", pc |-> "read"]
    /\ Do(s, [op |-> "register", pc |-> "check",
              self |-> [app |-> AppKey, by |-> EffectiveKeys]])
    /\ UNCHANGED confVars

RegisterCheck(s) ==
    /\ req[s].op = "register" /\ req[s].pc = "check"
    /\ \/ /\ Goes /\ req[s].self.by \in KnownKeys /\ reg # req[s].self
          /\ Do(s, [req[s] EXCEPT !.pc = "post"])
       \/ /\ Goes /\ (req[s].self.by \notin KnownKeys \/ reg = req[s].self)
          /\ Ends(s)
       \/ Fails /\ Ends(s)
    /\ UNCHANGED confVars

\* A call that fails may have reached the catalogue: the answer with the
\* resources is lost then, and the next check finds the connector registered.
RegisterPost(s) ==
    /\ req[s].op = "register" /\ req[s].pc = "post"
    /\ \/ Goes /\ reg' = req[s].self /\ Do(s, [req[s] EXCEPT !.pc = "list"])
       \/ Fails /\ reg' \in {reg, req[s].self} /\ Ends(s)
    /\ UNCHANGED <<confs, catalog, cred, token, serial, everReset>>

\* Variant: the resources of the answer are not stored.
ListNothing(s) == catalog
Listed(s) == IF catalog = <<>> THEN <<TRUE>> ELSE [catalog EXCEPT ![1] = TRUE]
RegisterList(s) ==
    /\ Goes /\ req[s].op = "register" /\ req[s].pc = "list"
    /\ catalog' = Listed(s)
    /\ Ends(s)
    /\ UNCHANGED <<confs, reg, cred, token, serial, everReset>>

RegisterSelfDescription(s) ==
    RegisterRead(s) \/ RegisterCheck(s) \/ RegisterPost(s) \/ RegisterList(s)
Registers(s) == Do(s, [op |-> "register", pc |-> "read"])

-----------------------------------------------------------------------------
(* Requests on the configuration *)

\* keys: the pair in the body, or none when it changes something else.
UpdateConfiguration(s, keys) ==
    /\ Begin(s)
    /\ UpsertFirst(keys)
    /\ Registers(s)
    /\ UNCHANGED <<reg, catalog, cred, token, everReset>>

UpdateConsentConfiguration(s) ==
    /\ Begin(s)
    /\ UpsertFirst(NoKeys)
    /\ UNCHANGED <<req, reg, catalog, cred, token, everReset>>

ResetConfiguration(s) ==
    /\ Begin(s)
    /\ confs' = IF NoConf THEN confs ELSE Tail(confs)
    /\ everReset' = (everReset \/ ~NoConf)
    /\ UNCHANGED <<req, reg, catalog, cred, token, serial>>

ReloadConfigurationFromFile(s) ==
    /\ Begin(s)
    /\ confs' = IF NoConf THEN confs
                ELSE [confs EXCEPT ![1].keys = FileKeys, ![1].session = NoKeys]
    /\ Registers(s)
    /\ UNCHANGED <<reg, catalog, cred, token, serial, everReset>>

\* Without a document both CORS requests throw, and change nothing.
AddCorsOrigin(s, name) ==
    /\ Begin(s)
    /\ IF NoConf THEN UNCHANGED req
       ELSE Do(s, [op |-> "addOrigin", pc |-> "sign", doc |-> confs[1], name |-> name])
    /\ UNCHANGED confVars

NamedAt(doc, name) == SelectInSeq(doc.origins, LAMBDA e : e.name = name)
SignOrigin(s) ==
    /\ Goes /\ req[s].op = "addOrigin"
    /\ LET doc == req[s].doc  at == NamedAt(doc, req[s].name) IN
       Do(s, IF at = 0
             THEN [op |-> "push", doc |-> doc.id, name |-> req[s].name, by |-> EffectiveKeys]
             ELSE [op |-> "resign", doc |-> doc.id, v |-> doc.v, at |-> at,
                   by |-> EffectiveKeys])
    /\ UNCHANGED confVars

RemoveCorsOrigin(s, target) ==
    /\ Begin(s)
    /\ IF NoConf THEN UNCHANGED req
       ELSE Do(s, [op |-> "splice", doc |-> confs[1], target |-> target])
    /\ UNCHANGED confVars

\* splice(findIndex(...), 1): an id that is not listed gives -1, the last entry.
Spliced(doc, target) ==
    LET at == SelectInSeq(doc.origins, LAMBDA e : e.id = target) IN
    IF doc.origins = <<>> THEN <<>>
    ELSE RemoveAt(doc.origins, IF at = 0 THEN Len(doc.origins) ELSE at)

-----------------------------------------------------------------------------
(* The saves that nobody awaits.  mongoose appends an entry whatever the      *)
(* version of the array; it sets an entry, or the array, only if the version *)
(* is the one it loaded; an append and a set array give a new version.        *)

Position(id) == SelectInSeq(confs, LAMBDA d : d.id = id)
WithOrigins(doc, origins) == [doc EXCEPT !.v = @ + 1, !.origins = origins]
Current(id, v) == Position(id) # 0 /\ confs[Position(id)].v = v

SavePush(s) ==
    /\ up /\ req[s].op = "push" /\ UNCHANGED <<started, faults>>
    /\ IF Position(req[s].doc) # 0
       THEN /\ confs' = [confs EXCEPT ![Position(req[s].doc)] =
                 WithOrigins(@, Append(@.origins, [id |-> serial + 1, name |-> req[s].name,
                                                   by |-> req[s].by]))]
            /\ serial' = serial + 1
            /\ Ends(s) /\ Lives
       ELSE ProcessEnds /\ UNCHANGED <<confs, serial>>
    /\ UNCHANGED <<reg, catalog, cred, token, everReset>>

SaveResign(s) ==
    /\ up /\ req[s].op = "resign" /\ UNCHANGED <<started, faults>>
    /\ IF Current(req[s].doc, req[s].v)
       THEN /\ confs' = [confs EXCEPT ![Position(req[s].doc)].origins[req[s].at].by = req[s].by]
            /\ Ends(s) /\ Lives
       ELSE ProcessEnds /\ UNCHANGED confs
    /\ UNCHANGED <<reg, catalog, cred, token, serial, everReset>>

\* Variant: the array is written whatever its version.
SaveBlindly(s) ==
    /\ up /\ req[s].op = "splice" /\ UNCHANGED <<started, faults>>
    /\ IF Position(req[s].doc.id) # 0
       THEN /\ confs' = [confs EXCEPT ![Position(req[s].doc.id)] =
                 WithOrigins(@, Spliced(req[s].doc, req[s].target))]
            /\ Ends(s) /\ Lives
       ELSE ProcessEnds /\ UNCHANGED confs
    /\ UNCHANGED <<reg, catalog, cred, token, serial, everReset>>
SaveSplice(s) ==
    /\ up /\ req[s].op = "splice" /\ UNCHANGED <<started, faults>>
    /\ IF Current(req[s].doc.id, req[s].doc.v)
       THEN /\ confs' = [confs EXCEPT ![Position(req[s].doc.id)] =
                 WithOrigins(@, Spliced(req[s].doc, req[s].target))]
            /\ Ends(s) /\ Lives
       ELSE ProcessEnds /\ UNCHANGED confs
    /\ UNCHANGED <<reg, catalog, cred, token, serial, everReset>>

-----------------------------------------------------------------------------
(* Login, the connector's catalogue and its credentials *)

\* The document is looked up by the keys, in the whole collection; the token is
\* signed with the keys of the request.
Login(s, keys) ==
    /\ Begin(s)
    /\ token' = IF \E n \in DOMAIN confs : confs[n].keys = keys THEN keys ELSE token
    /\ UNCHANGED <<req, confs, reg, catalog, cred, serial, everReset>>
\* verifyToken: the signature is checked with the secret key of the first document.
VerifyToken(keys) == keys = EffectiveKeys

CreateCatalogResource(s) ==
    /\ Begin(s)
    /\ catalog' = Append(catalog, TRUE)
    /\ UNCHANGED <<req, confs, reg, cred, token, serial, everReset>>
UpdateCatalogById(s, n, enabled) ==
    /\ Begin(s)
    /\ catalog' = [catalog EXCEPT ![n] = enabled]
    /\ UNCHANGED <<req, confs, reg, cred, token, serial, everReset>>
UpdateCredential(s) ==
    /\ Begin(s)
    /\ cred' = "edited"
    /\ UNCHANGED <<req, confs, reg, catalog, token, serial, everReset>>

\* What a front-end can name: an entry that was listed once, or nothing (0).
OriginIds == {0} \cup {e.id : e \in UNION {ToSet(confs[n].origins) : n \in DOMAIN confs}}

ConfigurationStep(s) ==
    \/ RegisterSelfDescription(s)
    \/ SignOrigin(s)
    \/ SavePush(s) \/ SaveResign(s) \/ SaveSplice(s)
    \/ /\ Free(s)
       /\ \/ \E k \in Keys \cup {NoKeys} : UpdateConfiguration(s, k)
          \/ UpdateConsentConfiguration(s)
          \/ ResetConfiguration(s)
          \/ ReloadConfigurationFromFile(s)
          \/ \E o \in Origins : AddCorsOrigin(s, o)
          \/ \E i \in OriginIds : RemoveCorsOrigin(s, i)
          \/ \E k \in Keys : Login(s, k)
          \/ CreateCatalogResource(s)
          \/ \E n \in DOMAIN catalog, e \in BOOLEAN : UpdateCatalogById(s, n, e)
          \/ UpdateCredential(s)
ConfigurationNext == StartServer \/ Crash \/ \E s \in Handlers : ConfigurationStep(s)
ConfigurationSpec == ConfigurationInit /\ [][ConfigurationNext]_<<up, confVars, req, started, faults, ended>>

-----------------------------------------------------------------------------
(* Properties *)

\* Until a reset deletes a configuration, the collection holds exactly one, with
\* an appKey, however updates, consent updates, restarts and crashes follow one
\* another: the upserts never create and the start never appends.
OneConfiguration == ~everReset => Len(confs) = 1 /\ confs[1].keyed

\* The catalogue never holds a registration without the connector's appKey
\* unless a reset took it away.
RegisteredWithAppKey == reg.by # NoKeys /\ reg.app = 0 => everReset

\* The login looks the keys up in every document, the middlewares verify with
\* the first one only: a login that is answered gives a token that verifies, as
\* long as no reset made room for a second document.
LoginTokenVerifies ==
    [][token' # token => VerifyToken(token') \/ everReset]_<<token, confs, everReset>>

\* Origins leave a document one at a time, each by a removal that named it or
\* named an entry that is not there (then the last one goes): the whole array
\* that a removal writes never drops an origin added since it was loaded.
Ids(doc) == {e.id : e \in ToSet(doc.origins)}
Lost(n) == Ids(confs[n]) \ Ids(confs'[n])
RemovalTakesTheNamed ==
    [][\A n \in DOMAIN confs \cap DOMAIN confs' :
          confs[n].id = confs'[n].id /\ Lost(n) # {} =>
              \E s \in Handlers :
                  /\ req[s].op = "splice"
                  /\ \/ Lost(n) = {req[s].target}
                     \/ /\ req[s].target \notin Ids(confs[n])
                        /\ Lost(n) = {Last(confs[n].origins).id}]_<<confs, req>>

\* A connector that the catalogue knows has an entry for its resource when it is
\* at rest, unless a call failed or the process ended on the way.
RegisteredIsListed ==
    faults = 0 /\ ~ended /\ (\A s \in Handlers : req[s] = Idle) /\ reg.by # NoKeys
        => catalog # <<>>
=============================================================================
