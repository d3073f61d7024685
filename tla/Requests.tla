------------------------------ MODULE Requests ------------------------------
(***************************************************************************)
(* What happens to a POST or DELETE before it reaches the pool: the        *)
(* configuration read at the start, the authentication, and the checks of  *)
(* the two handlers, each reading SciCat at a moment of its own while the  *)
(* groups of the user and of the dataset change.                           *)
(*                                                                         *)
(* What comes after the checks (Globus, the job, the pool) is represented  *)
(* by its answer: modules TransferTracking and Proxy have it in full.      *)
(***************************************************************************)
EXTENDS Naturals, SequencesExt

CONSTANTS
  Requests,    \* requests ever made, POST or DELETE
  Names,       \* names of facilities, in requests and configurations
  Groups,      \* access groups of SciCat; a facility's name may be one
  Files,       \* configuration files the proxy may be started with
  Username,    \* name of the user
  UserId,      \* id of the user's profile
  MaxChanges,  \* bound: changes of groups in SciCat
  None

ASSUME RequestsAssumption == MaxChanges \in Nat /\ None \notin Groups

VARIABLES
  up,          \* the process: starting, serving or exited
  file,        \* its configuration file
  facilities,  \* ServerHandler.facilities
  groups,      \* access groups of the user, in SciCat
  owner,       \* owner group of the dataset, in SciCat
  changes,
  phase,       \* progress of each handler
  what,        \* what each request asks for
  user,        \* access groups of "scicatUser" in its gin context
  dataset,     \* owner group of the dataset it has fetched
  job,         \* owner group of the SciCat job it has created
  answer,
  held,        \* groups of the user at any moment since the request arrived
  owned        \* owner groups of the dataset since then

server == <<up, file, facilities>>
scicat == <<groups, owner, changes, held, owned>>
handlers == <<phase, what, user, dataset, job, answer>>
vars == <<server, scicat, handlers>>

-----------------------------------------------------------------------------
(* Configuration.  "" is a field that is not given; the list of scopes is one
   text, and like the two access fields and the two paths it is a template. *)

NewFacilityConfig ==
  [name |-> "", collection |-> "", scopes |-> "{{.Collection}}/data_access",
   accessPath |-> "profile.accessGroups", accessValue |-> "{{ .Name }}",
   direction |-> "BOTH", sourcePath |-> "/{{ .RelativeSourceFolder }}",
   destinationPath |-> "/{{ .RelativeSourceFolder }}"]

\* Faulty variant: the defaults win.
MergeKeepingDefaults(base, overrides) ==
  [f \in DOMAIN base |-> IF base[f] = "" THEN overrides[f] ELSE base[f]]

Merge(base, overrides) ==
  [f \in DOMAIN base |-> IF overrides[f] = "" THEN base[f] ELSE overrides[f]]

ReadConfig(f) ==
  [i \in DOMAIN f.facilities |-> Merge(NewFacilityConfig, f.facilities[i])]

\* What ReadConfigFromBytes checks.  It is not all that README.md calls
\* required: a missing collection is served as "", a missing port as 0.
Valid(f) ==
  /\ f.scicatUrl # ""
  /\ f.facilities # <<>>
  /\ \A i \in DOMAIN ReadConfig(f) : ReadConfig(f)[i].name # ""

\* A template that does not parse, and one that does not execute.
Malformed == "{{"
UnknownField == "{{ .Foo }}"

\* GetGlobusScopes executes the scopes at the start; an empty collection in one
\* is no error.
ScopesExecute(f) ==
  \A i \in DOMAIN ReadConfig(f) :
    ReadConfig(f)[i].scopes \notin {Malformed, UnknownField}

\* NewFacility parses the other templates, which requests will execute.
Parses(f) ==
  \A i \in DOMAIN ReadConfig(f) :
    LET c == ReadConfig(f)[i]
    IN  Malformed \notin {c.accessValue, c.sourcePath, c.destinationPath}

Named(conf, n) == {i \in DOMAIN conf : conf[i].name = n}

\* Of the facilities of one name the last is kept.
Configured(conf) ==
  [n \in {conf[i].name : i \in DOMAIN conf} |-> conf[Max(Named(conf, n))]]

-----------------------------------------------------------------------------
(* CheckProperty: reflection over the identity that SciCat gave. *)

\* The Go fields that a path names: its parts with a capital first letter.
\* (Profile.ID is thus not found under the name it has in SciCat.)
SplitPath ==
  [p \in {"profile.accessGroups", "profile.username", "profile.id", "profile"}
     |-> CASE p = "profile.accessGroups" -> <<"Profile", "AccessGroups">>
           [] p = "profile.username" -> <<"Profile", "Username">>
           [] p = "profile.id" -> <<"Profile", "Id">>
           [] p = "profile" -> <<"Profile">>]

\* YAML gives every field of a facility a text, "" if it has none.  Which paths
\* are tried is a bound: those of SplitPath.
ASSUME FilesAssumption ==
  \A f \in Files :
    /\ f.facilities \in Seq([DOMAIN NewFacilityConfig -> STRING])
    /\ \A i \in DOMAIN f.facilities :
         f.facilities[i].accessPath \in DOMAIN SplitPath \cup {""}

Struct(fields) == [kind |-> "struct", fields |-> fields]
Slice(elements) == [kind |-> "slice", elements |-> elements]
String(s) == [kind |-> "string", value |-> s]
NoField == [kind |-> "invalid"]

\* scicat.User, as far as paths lead.
Identity(accessGroups) ==
  Struct([Profile |-> Struct([AccessGroups |-> Slice(accessGroups),
                              Username |-> String(Username),
                              ID |-> String(UserId)])])

FieldByName(v, name) ==
  IF v.kind = "struct" /\ name \in DOMAIN v.fields THEN v.fields[name]
                                                   ELSE NoField

CheckProperty(data, path, value) ==
  LET v == FoldLeft(FieldByName, data, path) IN
    CASE v.kind = "invalid" -> "error"
      [] v.kind = "slice" -> IF value \in v.elements THEN "yes" ELSE "no"
      [] v.kind = "string" -> IF value = v.value THEN "yes" ELSE "no"
      [] v.kind = "struct" -> "no"

\* AccessValue.ExecuteStr, in the context of a facility's name.
ExecuteStr(template, name) ==
  IF template = "{{ .Name }}" THEN name ELSE template

\* The access rule of facility `rule` asked of the facility called `name`.
Allowed(accessGroups, rule, name) ==
  IF rule.accessValue = UnknownField
  THEN "error"
  ELSE CheckProperty(Identity(accessGroups), SplitPath[rule.accessPath],
                     ExecuteStr(rule.accessValue, name))

-----------------------------------------------------------------------------
(* Start: main reads the configuration and sets up the facilities. *)

Init ==
  /\ up = "starting"
  /\ file \in Files
  /\ facilities = <<>>
  /\ groups \in SUBSET Groups
  /\ owner \in Groups
  /\ changes = 0
  /\ phase = [r \in Requests |-> "idle"]
  /\ what = [r \in Requests |-> None]
  /\ user = [r \in Requests |-> {}]
  /\ dataset = [r \in Requests |-> None]
  /\ job = [r \in Requests |-> None]
  /\ answer = [r \in Requests |-> "none"]
  /\ held = [r \in Requests |-> {}]
  /\ owned = [r \in Requests |-> {}]

\* Faulty variant: what is required of a configuration is not checked.
StartUnchecked ==
  /\ up = "starting"
  /\ ScopesExecute(file)
  /\ Parses(file)
  /\ up' = "serving"
  /\ facilities' = Configured(ReadConfig(file))
  /\ UNCHANGED <<file, scicat, handlers>>

Start ==
  /\ up = "starting"
  /\ Valid(file)
  /\ ScopesExecute(file)
  /\ Parses(file)
  /\ up' = "serving"
  /\ facilities' = Configured(ReadConfig(file))
  /\ UNCHANGED <<file, scicat, handlers>>

Exit ==
  /\ up = "starting"
  /\ ~(Valid(file) /\ ScopesExecute(file) /\ Parses(file))
  /\ up' = "exited"
  /\ UNCHANGED <<file, facilities, scicat, handlers>>

-----------------------------------------------------------------------------
(* Arrival and authentication. *)

Go(r, from, to) ==
  /\ phase[r] = from
  /\ phase' = [phase EXCEPT ![r] = to]

Reply(r, from, code) ==
  /\ Go(r, from, "done")
  /\ answer' = [answer EXCEPT ![r] = code]

IsPost(r) == what[r] # None /\ what[r].kind = "POST"
IsDelete(r) == what[r] # None /\ what[r].kind = "DELETE"

Posts == [kind : {"POST"}, src : Names, dst : Names]

\* A client knows the id of a job from the answer of its POST.
Arrive(r) ==
  /\ up = "serving"
  /\ Go(r, "idle", "arrived")
  /\ \E w \in Posts \cup
              [kind : {"DELETE"}, of : {q \in Requests : answer[q] = "200"}] :
       what' = [what EXCEPT ![r] = w]
  /\ held' = [held EXCEPT ![r] = {groups}]
  /\ owned' = [owned EXCEPT ![r] = {owner}]
  /\ UNCHANGED <<server, groups, owner, changes, user, dataset, job, answer>>

\* Faulty variant: the user is the one of an earlier request.
AuthenticateCached(r) ==
  /\ Go(r, "arrived", "authenticated")
  /\ \E known \in {groups} \cup {user[q] : q \in {p \in Requests :
                                               answer[p] = "200"}} :
       user' = [user EXCEPT ![r] = known]
  /\ UNCHANGED <<server, scicat, what, dataset, job, answer>>

\* The middleware puts SciCat's user into the context of the request.
Authenticate(r) ==
  /\ Go(r, "arrived", "authenticated")
  /\ user' = [user EXCEPT ![r] = groups]
  /\ UNCHANGED <<server, scicat, what, dataset, job, answer>>

\* No key, one that SciCat does not accept, or no answer from SciCat: the
\* validator in front of the handlers answers.
Reject(r) ==
  /\ Reply(r, "arrived", "rejected")
  /\ UNCHANGED <<server, scicat, what, user, dataset, job>>

-----------------------------------------------------------------------------
(* PostTransferTask. *)

\* Both facilities are configured, for these directions.
FacilitiesFit(r) ==
  /\ {what[r].src, what[r].dst} \subseteq DOMAIN facilities
  /\ facilities[what[r].src].direction \in {"SRC", "BOTH"}
  /\ facilities[what[r].dst].direction \in {"DST", "BOTH"}

RefuseFacilities(r) ==
  /\ IsPost(r)
  /\ ~FacilitiesFit(r)
  /\ Reply(r, "authenticated", "403")
  /\ UNCHANGED <<server, scicat, what, user, dataset, job>>

FetchDataset(r) ==
  /\ IsPost(r)
  /\ FacilitiesFit(r)
  /\ Go(r, "authenticated", "fetched")
  /\ dataset' = [dataset EXCEPT ![r] = owner]
  /\ UNCHANGED <<server, scicat, what, user, job, answer>>

\* 500, whatever the reason.  The answers for an HttpError are never given:
\* GetDataset has no such error.  If SciCat refuses the dataset the handler
\* panics over the error without an inner one, and gin answers.
DatasetUnavailable(r) ==
  /\ IsPost(r)
  /\ FacilitiesFit(r)
  /\ Reply(r, "authenticated", "error")
  /\ UNCHANGED <<server, scicat, what, user, dataset, job>>

\* The rule of the source is asked of the source, then of the destination.
checkAuthorization(r) ==
  LET rule == facilities[what[r].src]
      src == Allowed(user[r], rule, what[r].src)
      dst == Allowed(user[r], rule, what[r].dst)
  IN  CASE src # "yes" -> src
        [] dst # "yes" -> dst
        [] OTHER -> IF dataset[r] \in user[r] THEN "yes" ELSE "no"

Authorize(r) ==
  /\ Go(r, "fetched", "authorized")
  /\ checkAuthorization(r) = "yes"
  /\ UNCHANGED <<server, scicat, what, user, dataset, job, answer>>

\* 401, or 500 if the rule could not be evaluated: the answers say the same.
RefuseUser(r) ==
  /\ phase[r] = "fetched"
  /\ \/ checkAuthorization(r) = "no" /\ Reply(r, "fetched", "401")
     \/ checkAuthorization(r) = "error" /\ Reply(r, "fetched", "denied")
  /\ UNCHANGED <<server, scicat, what, user, dataset, job>>

\* The dataset is not below collectionRootPath (400), a path cannot be made
\* from its template (500), the queue is full (503), or Globus (400), the
\* login or SciCat (500) fails.
Fail(r) ==
  /\ Reply(r, "authorized", "error")
  /\ UNCHANGED <<server, scicat, what, user, dataset, job>>

\* Faulty variant: the job belongs to the group of the facility.
AcceptForFacility(r) ==
  /\ Reply(r, "authorized", "200")
  /\ facilities[what[r].src].sourcePath # UnknownField
  /\ facilities[what[r].dst].destinationPath # UnknownField
  /\ job' = [job EXCEPT ![r] = what[r].src]
  /\ UNCHANGED <<server, scicat, what, user, dataset>>

\* CreateGlobusTransferScicatJob is given the group of the dataset, and no
\* user: the owner of the job is not the user who asked for it.
Accept(r) ==
  /\ Reply(r, "authorized", "200")
  /\ facilities[what[r].src].sourcePath # UnknownField
  /\ facilities[what[r].dst].destinationPath # UnknownField
  /\ job' = [job EXCEPT ![r] = dataset[r]]
  /\ UNCHANGED <<server, scicat, what, user, dataset>>

-----------------------------------------------------------------------------
(* DeleteTransferTask, up to the call of the pool. *)

\* The login of the service user fails (500), or SciCat has no job (400).
JobUnavailable(r) ==
  /\ IsDelete(r)
  /\ Reply(r, "authenticated", "error")
  /\ UNCHANGED <<server, scicat, what, user, dataset, job>>

\* The other way to pass, to be the job's own user, is open to nobody who can
\* post: the job was created for no user (see Accept).
CheckOwner(r) ==
  /\ IsDelete(r)
  /\ Reply(r, "authenticated",
           IF job[what[r].of] \in user[r] THEN "allowed" ELSE "403")
  /\ UNCHANGED <<server, scicat, what, user, dataset, job>>

-----------------------------------------------------------------------------
(* SciCat: somebody changes the groups of the user or of the dataset. *)

Change ==
  /\ up = "serving"
  /\ changes < MaxChanges
  /\ changes' = changes + 1
  /\ UNCHANGED <<server, handlers>>

Note(history, now) ==
  [r \in Requests |-> IF phase[r] = "idle" THEN {} ELSE history[r] \cup {now}]

Regroup ==
  /\ Change
  /\ groups' \in SUBSET Groups \ {groups}
  /\ held' = Note(held, groups')
  /\ UNCHANGED <<owner, owned>>

Reown ==
  /\ Change
  /\ owner' \in Groups \ {owner}
  /\ owned' = Note(owned, owner')
  /\ UNCHANGED <<groups, held>>

-----------------------------------------------------------------------------
HandlerStep(r) ==
  \/ Authenticate(r) \/ Reject(r)
  \/ RefuseFacilities(r) \/ FetchDataset(r) \/ DatasetUnavailable(r)
  \/ Authorize(r) \/ RefuseUser(r) \/ Fail(r) \/ Accept(r)
  \/ JobUnavailable(r) \/ CheckOwner(r)

Next ==
  \/ Start \/ Exit
  \/ \E r \in Requests : Arrive(r) \/ HandlerStep(r)
  \/ Regroup \/ Reown

Spec == Init /\ [][Next]_vars

-----------------------------------------------------------------------------
(* Safety. *)

Phases == {"idle", "arrived", "authenticated", "fetched", "authorized", "done"}

\* "you don't have the required access groups to request this transfer": a 401,
\* or the 500 of a rule that could not be evaluated.
Denials == {"401", "denied"}

\* "rejected" by the validator; "error" is any other 400, 500 or 503; an
\* "allowed" DELETE goes on to the pool.
Answers ==
  Denials \cup {"none", "rejected", "200", "403", "error", "allowed"}

\* Types of the variables; a server that listens has facilities, each under its
\* name and with every field filled in except the collection, which nothing
\* checks, and a job is the work of an accepted POST.
TypeOK ==
  /\ up \in {"starting", "serving", "exited"}
  /\ groups \in SUBSET Groups
  /\ owner \in Groups
  /\ changes \in 0..MaxChanges
  /\ phase \in [Requests -> Phases]
  /\ user \in [Requests -> SUBSET Groups]
  /\ dataset \in [Requests -> Groups \cup {None}]
  /\ job \in [Requests -> Groups \cup {None}]
  /\ answer \in [Requests -> Answers]
  /\ \A r \in Requests : job[r] # None <=> answer[r] = "200"
  /\ up = "serving" =>
       /\ DOMAIN facilities # {}
       /\ \A n \in DOMAIN facilities :
            /\ facilities[n].name = n
            /\ \A f \in DOMAIN NewFacilityConfig \ {"collection"} :
                 facilities[n][f] # ""

\* The rules as the documentation has them, read off the configuration file.
IsLast(i, n) ==
  /\ file.facilities[i].name = n
  /\ \A j \in DOMAIN file.facilities : file.facilities[j].name = n => j <= i

Entry(n) ==
  file.facilities[CHOOSE i \in DOMAIN file.facilities : IsLast(i, n)]

Default(given, default) == IF given = "" THEN default ELSE given

Source(n) == Default(Entry(n).direction, "BOTH") \in {"SRC", "BOTH"}
Destination(n) == Default(Entry(n).direction, "BOTH") \in {"DST", "BOTH"}

\* The strings in the identity object that accessPath points to.
StringsAt(path, g) ==
  CASE path = "profile.accessGroups" -> g
    [] path = "profile.username" -> {Username}
    [] path = "profile.id" -> {UserId}
    [] OTHER -> {}

PathOf(n) == Default(Entry(n).accessPath, "profile.accessGroups")
ValueOf(n) == Default(Entry(n).accessValue, "{{ .Name }}")

\* accessValue, "a required string within the object pointed to"; a template
\* that does not execute is no string.
HasAccess(g, n) ==
  /\ ValueOf(n) # UnknownField
  /\ ExecuteStr(ValueOf(n), n) \in StringsAt(PathOf(n), g)

MayTransfer(g, o, src, dst) ==
  /\ Source(src) /\ Destination(dst)
  /\ HasAccess(g, src) /\ HasAccess(g, dst)
  /\ o \in g

SameRule(r) ==
  /\ Entry(what[r].src).accessPath = Entry(what[r].dst).accessPath
  /\ Entry(what[r].src).accessValue = Entry(what[r].dst).accessValue

\* The path of the rule is one that the code finds in every identity.
PathIsFound(r) == PathOf(what[r].src) # "profile.id"

\* The step answers a POST.
Answered(r, code) == phase[r] # "done" /\ IsPost(r) /\ answer'[r] = code

\* A transfer is accepted only for a user who has had, while the request was
\* being served, the access that the configuration file asks for, to a dataset
\* of one of the user's groups: what the handler remembers across its calls is
\* of this request.  (For facilities that share one rule.)
AcceptedIsEntitled ==
  [][\A r \in Requests :
       (Answered(r, "200") /\ SameRule(r)) =>
         \E g \in held[r] : \E o \in owned[r] :
           MayTransfer(g, o, what[r].src, what[r].dst)]_vars

\* A user who has had that access all the time is not told to lack it, by 401
\* or by 500.  (For facilities that share one rule whose path the code finds: a
\* user whom profile.id entitles is denied, as the code looks for a field Id.)
RefusedIsNotEntitled ==
  [][\A r \in Requests : \A code \in Denials :
       (Answered(r, code) /\ SameRule(r) /\ PathIsFound(r)) =>
         \E g \in held[r] : \E o \in owned[r] :
           ~MayTransfer(g, o, what[r].src, what[r].dst)]_vars

\* The user whose POST was accepted, and who has kept the group of the dataset
\* since, is allowed to cancel the transfer.
PosterMayCancel ==
  \A r \in Requests :
    (phase[r] = "done" /\ IsDelete(r) /\ answer[r] = "403") =>
      \E g \in held[what[r].of] : dataset[what[r].of] \notin g

\* accessPath and accessValue of a facility are about "access to this facility":
\* a user with the access that each of the two asks for is not answered 401.
\* The code violates it for facilities with different rules.
OwnRuleApplies ==
  [][\A r \in Requests :
       Answered(r, "401") =>
         \E g \in held[r] : \E o \in owned[r] :
           ~MayTransfer(g, o, what[r].src, what[r].dst)]_vars

=============================================================================
