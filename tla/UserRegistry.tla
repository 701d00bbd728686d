---------------------------- MODULE UserRegistry ----------------------------
(***************************************************************************)
(* The users of a connector and their identifiers at the consent manager.  *)
(* A user is created, imported, updated and deleted in two stores, one     *)
(* after the other: the connector's collection and the manager.  Nothing   *)
(* spans the two: a request that fails half-way, or runs beside another,   *)
(* leaves them apart, and most failures of the second half are only        *)
(* logged.  The handlers share the process, its configuration and its      *)
(* login at the manager with those of ConnectorConfiguration.              *)
(*                                                                         *)
(* The manager is external: registering a user it has a live identifier    *)
(* for answers that one, else a new one, and a user it names itself comes  *)
(* with an identifier of that user.  A user's first e-mail is named as the *)
(* user; an update may change the e-mail and the internal id.              *)
(***************************************************************************)
EXTENDS ConnectorConfiguration, FiniteSets

CONSTANTS Users   \* internal ids of the users

VARIABLES
    users,      \* the user collection, in insertion order
    nextDoc,    \* number of user documents created so far
    cm,         \* cm[i]: identifier i at the consent manager
    saves,      \* saves of an identifier that nobody awaits
    rough       \* what made the stores drift apart without a fault

userVars == <<users, nextDoc, cm, saves, rough>>
vars == <<up, confVars, req, started, faults, ended, userVars>>

NoIdentifier == 0
User == [id : Nat, who : Users, email : Users, idf : Nat]
Identifier == [who : Users, email : Users, live : BOOLEAN]

\* doc: the user document at hand; idf: the identifier at hand; rows: what is left
\* of an imported sheet; ids: the manager's answer for them; jwt: is there a token,
\* then an answer, of the manager?
UserRequest ==
    [op : {"create", "update", "delete", "import", "app", "consent"},
     pc : {"insert", "login", "call", "undo", "row", "upsert", "post", "find",
           "resume", "auth", "ask", "save"},
     who : Users, doc : Nat, idf : Nat, rows : Seq(Users),
     ids : [Users -> Nat], jwt : BOOLEAN]
Request(op, pc, who) ==
    [op |-> op, pc |-> pc, who |-> who, doc |-> 0, idf |-> 0, rows |-> <<>>,
     ids |-> [u \in Users |-> 0], jwt |-> FALSE]
UserOps == {"create", "update", "delete", "import", "app", "consent"}
Causes == {"overlap", "refused", "skipped", "renamed", "named"}

TypeOK ==
    /\ ConfigurationTypeOK
    /\ req \in [Handlers -> {Idle} \cup ConfigurationRequest \cup UserRequest]
    /\ users \in Seq(User)
    /\ nextDoc \in Nat
    /\ cm \in Seq(Identifier)
    /\ saves \subseteq [doc : Nat, idf : Nat]
    /\ rough \subseteq Causes

\* One user, created without a fault.
Init ==
    /\ ConfigurationInit
    /\ \E u \in Users :
          /\ users = <<[id |-> 1, who |-> u, email |-> u, idf |-> 1]>>
          /\ cm = <<[who |-> u, email |-> u, live |-> TRUE]>>
    /\ nextDoc = 1
    /\ saves = {}
    /\ rough = {}
-----------------------------------------------------------------------------
(* The two stores *)

DocOf(u) == SelectInSeq(users, LAMBDA d : d.who = u)
DocWithEmail(e) == SelectInSeq(users, LAMBDA d : d.email = e)
DocAt(id) == SelectInSeq(users, LAMBDA d : d.id = id)
Added(u, i) == Append(users, [id |-> nextDoc + 1, who |-> u, email |-> u, idf |-> i])
Without(id) == IF DocAt(id) = 0 THEN users ELSE RemoveAt(users, DocAt(id))

IdentifierOf(c, u) == SelectInSeq(c, LAMBDA i : i.who = u /\ i.live)
Registered(c, u) ==
    IF IdentifierOf(c, u) # 0 THEN c ELSE Append(c, [who |-> u, email |-> u, live |-> TRUE])
AllRegistered(c, rows) ==
    LET after[k \in 0..Len(rows)] == IF k = 0 THEN c ELSE Registered(after[k - 1], rows[k])
    IN after[Len(rows)]
Known(idf) == idf # NoIdentifier /\ cm[idf].live

\* A request on the users, with what it does to the stores by itself; another
\* one that is still at work is remembered.
BeginsWith(s, more) ==
    /\ Begin(s)
    /\ rough' = more \cup (IF saves # {} \/ \E h \in Handlers : req[h].op \in UserOps
                           THEN rough \cup {"overlap"} ELSE rough)
    /\ UNCHANGED confVars
UserBegins(s) == BeginsWith(s, {})
At(s, ops, pc) == req[s].op \in ops /\ req[s].pc = pc
Continues(s) == Goes /\ UNCHANGED confVars
To(s, pc) == Do(s, [req[s] EXCEPT !.pc = pc])

-----------------------------------------------------------------------------
(* The login at the manager and the calls with its token *)

ManagerLogin(s) ==
    /\ At(s, {"create", "update", "delete", "import"}, "login")
    /\ \/ /\ Goes
          /\ Do(s, [req[s] EXCEPT !.pc = "call", !.jwt = EffectiveKeys \in KnownKeys])
          /\ rough' = IF EffectiveKeys \in KnownKeys THEN rough ELSE rough \cup {"refused"}
       \/ Fails /\ To(s, "call") /\ UNCHANGED rough
    /\ UNCHANGED <<confVars, users, nextDoc, cm, saves>>

\* A call answered with done, refused without a token, or failed: then it may
\* have been carried out all the same.
Calls(s, done, answered, failed) ==
    \/ Goes /\ req[s].jwt /\ cm' = done /\ answered
    \/ Goes /\ ~req[s].jwt /\ cm' = cm /\ failed
    \/ Fails /\ req[s].jwt /\ cm' \in {cm, done} /\ failed

-----------------------------------------------------------------------------
(* Creation *)

CreateUser(s, u) ==
    /\ UserBegins(s)
    /\ IF DocOf(u) # 0 THEN UNCHANGED req ELSE Do(s, Request("create", "insert", u))
    /\ UNCHANGED <<users, nextDoc, cm, saves>>

CreateInsert(s) ==
    /\ Continues(s) /\ At(s, {"create"}, "insert")
    /\ users' = Added(req[s].who, NoIdentifier) /\ nextDoc' = nextDoc + 1
    /\ Do(s, [req[s] EXCEPT !.pc = "login", !.doc = nextDoc + 1])
    /\ UNCHANGED <<cm, saves, rough>>

\* The answer is stored by a save that the response does not wait for.
CreateRegister(s) ==
    /\ At(s, {"create"}, "call")
    /\ LET c == Registered(cm, req[s].who) IN
       Calls(s, c,
             Ends(s) /\ saves' = saves \cup {[doc |-> req[s].doc, idf |-> IdentifierOf(c, req[s].who)]},
             To(s, "undo") /\ UNCHANGED saves)
    /\ UNCHANGED <<confVars, users, nextDoc, rough>>

CreateUndo(s) ==
    /\ Continues(s) /\ At(s, {"create"}, "undo")
    /\ users' = Without(req[s].doc)
    /\ Ends(s)
    /\ UNCHANGED <<nextDoc, cm, saves, rough>>

\* A save of a document that is gone is rejected, and nobody handles it.
SaveIdentifier(v) ==
    /\ up /\ v \in saves /\ UNCHANGED <<started, faults>>
    /\ IF DocAt(v.doc) # 0
       THEN /\ users' = [users EXCEPT ![DocAt(v.doc)].idf = v.idf]
            /\ saves' = saves \ {v}
            /\ Lives /\ UNCHANGED req
       ELSE ProcessEnds /\ saves' = {} /\ UNCHANGED users
    /\ UNCHANGED <<confVars, nextDoc, cm, rough>>

-----------------------------------------------------------------------------
(* Update and deletion: the connector first, then the manager *)

\* The document handed to the manager is the one from before the update.  The
\* internal id is not compared with anything: neither with the identifier that
\* the document carries nor with those of the other users.
UpdateUser(s, n, who, email) ==
    /\ BeginsWith(s, IF who = users[n].who THEN {} ELSE {"renamed"})
    /\ users' = [users EXCEPT ![n].who = who, ![n].email = email]
    /\ Do(s, [Request("update", "login", users[n].email) EXCEPT !.idf = users[n].idf])
    /\ UNCHANGED <<nextDoc, cm, saves>>

UpdateIdentifier(s) ==
    /\ At(s, {"update"}, "call")
    /\ Calls(s, IF Known(req[s].idf) THEN [cm EXCEPT ![req[s].idf].email = req[s].who] ELSE cm,
             Ends(s), Ends(s))
    /\ UNCHANGED <<confVars, users, nextDoc, saves, rough>>

\* Variant: the document is read, not deleted.
DeleteNothing(n) == users
\* Variant: every document of that user goes.
DeleteNamesakes(n) == SelectSeq(users, LAMBDA d : d.who # users[n].who)
FindByIdAndDelete(n) == Without(users[n].id)
DeleteUser(s, n) ==
    /\ UserBegins(s)
    /\ users' = FindByIdAndDelete(n)
    /\ Do(s, [Request("delete", "login", users[n].who) EXCEPT !.idf = users[n].idf])
    /\ UNCHANGED <<nextDoc, cm, saves>>

DeleteIdentifier(s) ==
    /\ At(s, {"delete"}, "call")
    /\ Calls(s, IF Known(req[s].idf) THEN [cm EXCEPT ![req[s].idf].live = FALSE] ELSE cm,
             Ends(s), Ends(s))
    /\ UNCHANGED <<confVars, users, nextDoc, saves, rough>>

-----------------------------------------------------------------------------
(* Import of a sheet: every row is registered at the manager, then the rows  *)
(* of users that the connector does not have are stored, one by one.         *)

ExcelImport(s, rows) ==
    /\ UserBegins(s)
    /\ Do(s, [Request("import", "login", Head(rows)) EXCEPT !.rows = rows])
    /\ UNCHANGED <<users, nextDoc, cm, saves>>

ImportRegister(s) ==
    /\ At(s, {"import"}, "call")
    /\ LET c == AllRegistered(cm, req[s].rows) IN
       Calls(s, c,
             Do(s, [req[s] EXCEPT !.pc = "row",
                        !.ids = [u \in Users |-> IF u \in ToSet(req[s].rows)
                                                 THEN IdentifierOf(c, u) ELSE 0]]),
             Do(s, [req[s] EXCEPT !.pc = "row", !.jwt = FALSE]))
    /\ UNCHANGED <<confVars, users, nextDoc, saves, rough>>

NextRow(s) ==
    IF Len(req[s].rows) = 1 THEN Ends(s)
    ELSE Do(s, [req[s] EXCEPT !.pc = "row", !.rows = Tail(@), !.who = req[s].rows[2]])

ImportFind(s) ==
    /\ Continues(s) /\ At(s, {"import"}, "row")
    /\ IF DocOf(req[s].who) # 0
       THEN NextRow(s) /\ rough' = rough \cup {"skipped"}
       ELSE To(s, "upsert") /\ UNCHANGED rough
    /\ UNCHANGED <<users, nextDoc, cm, saves>>

\* Variant: the first identifier of the answer is taken for every row.
FirstOfAnswer(s) == Min({req[s].ids[u] : u \in Users} \ {0})
OfAnswer(s) == req[s].ids[req[s].who]
\* Without an answer, looking the identifier up throws: the user stays without.
ImportUpsert(s) ==
    /\ Continues(s) /\ At(s, {"import"}, "upsert")
    /\ LET n == DocOf(req[s].who)  id == IF n = 0 THEN nextDoc + 1 ELSE users[n].id IN
       /\ users' = IF n = 0 THEN Added(req[s].who, NoIdentifier)
                   ELSE [users EXCEPT ![n].email = req[s].who]
       /\ nextDoc' = IF n = 0 THEN nextDoc + 1 ELSE nextDoc
       /\ saves' = IF req[s].jwt THEN saves \cup {[doc |-> id, idf |-> OfAnswer(s)]} ELSE saves
    /\ IF req[s].jwt THEN NextRow(s) ELSE Ends(s)
    /\ UNCHANGED <<cm, rough>>
-----------------------------------------------------------------------------
(* Users that the consent manager or the participant's application names *)

\* The document is stored as it is sent: the user may be there already, and the
\* identifier may have been deleted while the call was on its way.
CreateUserFromConsent(s, u) ==
    LET c == Registered(cm, u) IN
    \E i \in DOMAIN c :
        /\ c[i].who = u
        /\ BeginsWith(s, IF DocOf(u) # 0 \/ ~c[i].live THEN {"named"} ELSE {})
        /\ cm' = IF c[i].live THEN c ELSE cm
        /\ users' = Added(u, i) /\ nextDoc' = nextDoc + 1
        /\ UNCHANGED <<req, saves>>

CreateUserToApp(s, u) ==
    /\ UserBegins(s)
    /\ Do(s, Request("app", "post", u))
    /\ UNCHANGED <<users, nextDoc, cm, saves>>

\* The application answers the internal id of the user with that e-mail.
AppRegister(s) ==
    /\ At(s, {"app"}, "post")
    /\ \/ Goes /\ To(s, "find")
       \/ Fails /\ Ends(s)
    /\ UNCHANGED <<confVars, userVars>>

AppFind(s) ==
    /\ Continues(s) /\ At(s, {"app"}, "find")
    /\ LET n == DocWithEmail(req[s].who) IN
       Do(s, IF n = 0 THEN [req[s] EXCEPT !.pc = "insert"]
             ELSE [req[s] EXCEPT !.pc = "resume", !.who = users[n].who])
    /\ UNCHANGED userVars

AppInsert(s) ==
    /\ Continues(s) /\ At(s, {"app"}, "insert")
    /\ users' = Added(req[s].who, NoIdentifier) /\ nextDoc' = nextDoc + 1
    /\ To(s, "resume")
    /\ UNCHANGED <<cm, saves, rough>>

\* consentServiceResume finds the user again, by internal id.
ResumeFind(s) ==
    /\ Continues(s) /\ At(s, {"app"}, "resume")
    /\ LET n == DocOf(req[s].who) IN
       IF n = 0 THEN Ends(s) ELSE Do(s, [req[s] EXCEPT !.pc = "auth", !.doc = users[n].id])
    /\ UNCHANGED userVars

\* A token that is missing or has expired is asked for first.
VerifyConsentAuth(s) ==
    /\ Continues(s) /\ At(s, {"app", "consent"}, "auth")
    /\ \/ ~NoConf /\ To(s, "login")
       \/ ~NoConf /\ confs[1].session # NoKeys /\ Do(s, [req[s] EXCEPT !.pc = "ask", !.jwt = TRUE])
       \/ NoConf /\ To(s, "ask")
    /\ UNCHANGED userVars

\* Whatever goes wrong with the login is swallowed: the call goes without it.
ConsentServiceParticipantLogin(s) ==
    /\ At(s, {"app", "consent"}, "login")
    /\ \/ /\ Goes /\ EffectiveKeys \in KnownKeys
          /\ confs' = IF NoConf THEN confs ELSE [confs EXCEPT ![1].session = EffectiveKeys]
          /\ Do(s, [req[s] EXCEPT !.pc = "ask", !.jwt = ~NoConf])
          /\ UNCHANGED rough
       \/ /\ Goes /\ EffectiveKeys \notin KnownKeys
          /\ To(s, "ask") /\ rough' = rough \cup {"refused"} /\ UNCHANGED confs
       \/ Fails /\ To(s, "ask") /\ UNCHANGED <<confs, rough>>
    /\ UNCHANGED <<reg, catalog, cred, token, serial, everReset, users, nextDoc, cm, saves>>

ConsentServiceResume(s) ==
    /\ At(s, {"app"}, "ask")
    /\ LET c == Registered(cm, req[s].who) IN
       Calls(s, c, Do(s, [req[s] EXCEPT !.pc = "save", !.idf = IdentifierOf(c, req[s].who)]),
             Ends(s))
    /\ UNCHANGED <<confVars, users, nextDoc, saves, rough>>

\* This save is awaited: its failure is answered, like any other error.
ResumeSave(s) ==
    /\ Continues(s) /\ At(s, {"app"}, "save")
    /\ LET n == DocAt(req[s].doc) IN
       users' = IF n = 0 THEN users ELSE [users EXCEPT ![n].idf = req[s].idf]
    /\ Ends(s)
    /\ UNCHANGED <<nextDoc, cm, saves, rough>>

-----------------------------------------------------------------------------
(* Calls on the consents of a user *)

\* getUserIdentifier: the call carries the identifier as its x-user-key.
GetUserIdentifier(u) == IF DocOf(u) = 0 THEN NoIdentifier ELSE users[DocOf(u)].idf

\* Consents, notices, giving, revoking, triggering: none without an identifier.
ConsentServiceMe(s, u) ==
    /\ UserBegins(s)
    /\ IF GetUserIdentifier(u) = NoIdentifier THEN UNCHANGED req
       ELSE Do(s, [Request("consent", "ask", u) EXCEPT !.idf = GetUserIdentifier(u)])
    /\ UNCHANGED <<users, nextDoc, cm, saves>>

\* The participant's view asks for the consents of whatever identifier it found.
GetUserConsent(s, u) ==
    /\ UserBegins(s)
    /\ Do(s, [Request("consent", "auth", u) EXCEPT !.idf = GetUserIdentifier(u)])
    /\ UNCHANGED <<users, nextDoc, cm, saves>>

ConsentAsk(s) ==
    /\ At(s, {"consent"}, "ask")
    /\ (Goes \/ Fails) /\ Ends(s)
    /\ UNCHANGED <<confVars, userVars>>

-----------------------------------------------------------------------------

UserStep(s) ==
    \/ /\ Free(s)
       /\ \/ \E u \in Users :
                \/ CreateUser(s, u) \/ CreateUserFromConsent(s, u) \/ CreateUserToApp(s, u)
                \/ ConsentServiceMe(s, u) \/ GetUserConsent(s, u)
                \/ \E v \in Users \ {u} : ExcelImport(s, <<u, v>>)
          \/ \E n \in DOMAIN users :
                DeleteUser(s, n) \/ \E w, e \in Users : UpdateUser(s, n, w, e)
    \/ ManagerLogin(s)
    \/ CreateInsert(s) \/ CreateRegister(s) \/ CreateUndo(s)
    \/ UpdateIdentifier(s) \/ DeleteIdentifier(s)
    \/ ImportRegister(s) \/ ImportFind(s) \/ ImportUpsert(s)
    \/ AppRegister(s) \/ AppFind(s) \/ AppInsert(s)
    \/ ResumeFind(s) \/ VerifyConsentAuth(s) \/ ConsentServiceParticipantLogin(s)
    \/ ConsentServiceResume(s) \/ ResumeSave(s) \/ ConsentAsk(s)

\* The process ends with its saves, whoever made it end.
Next ==
    \/ /\ ConfigurationNext
       /\ saves' = IF up' THEN saves ELSE {}
       /\ UNCHANGED <<users, nextDoc, cm, rough>>
    \/ \E s \in Slots : UserStep(s)
    \/ \E v \in saves : SaveIdentifier(v)

Spec == Init /\ [][Next]_vars

-----------------------------------------------------------------------------
(* Properties *)

\* Unless an update changed an internal id, a user only ever carries an identifier
\* that the manager gave for that user: in the collection, in a save under way,
\* and as the key of a consent call.
IdentifierIsOwn ==
    "renamed" \notin rough =>
    /\ \A n \in DOMAIN users :
          users[n].idf # NoIdentifier => cm[users[n].idf].who = users[n].who
    /\ \A v \in saves : DocAt(v.doc) # 0 => cm[v.idf].who = users[DocAt(v.doc)].who
    /\ \A s \in Slots : req[s].op = "consent" /\ req[s].idf # NoIdentifier
                            => cm[req[s].idf].who = req[s].who

\* Where no two requests on users overlapped, no update changed an internal id and
\* the manager named no user twice and none too late, no user carries an identifier
\* that it has deleted, whichever calls failed and whenever the process died.
Undisturbed == rough \cap {"overlap", "renamed", "named"} = {}
NoDeadIdentifier ==
    Undisturbed => \A n \in DOMAIN users :
        users[n].idf # NoIdentifier => cm[users[n].idf].live

\* At rest, the live identifiers of the manager are exactly those of the users:
\* unless a call failed, the process ended, the manager refused the keys, two
\* requests on users overlapped, an import met a user it knew, an update changed
\* an internal id, or the manager named a user twice or too late.
AtRest == saves = {} /\ \A s \in Slots : req[s].op \notin UserOps
StoresAgree ==
    faults = 0 /\ ~ended /\ rough = {} /\ AtRest
        => {i \in DOMAIN cm : cm[i].live}
             = {users[n].idf : n \in DOMAIN users} \ {NoIdentifier}
=============================================================================
