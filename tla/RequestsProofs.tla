--------------------------- MODULE RequestsProofs ---------------------------
(***************************************************************************)
(* Proofs about Requests, for every set of configuration files, of users'  *)
(* groups and of requests, and any number of changes in SciCat:            *)
(*   - a user who keeps the group of the dataset is not refused the        *)
(*     cancelling of the transfer;                                         *)
(*   - a server that listens has usable facilities, and jobs are the work  *)
(*     of accepted POSTs;                                                  *)
(*   - who is accepted had the access that the file asks for, and who is   *)
(*     refused lacked it, at moments of the request itself.                *)
(*                                                                         *)
(* The last two rest on what the operators compute: the greatest index of  *)
(* a name, which the least-element property of the natural numbers yields, *)
(* and the fold over a path, written out for paths of one or two parts.    *)
(***************************************************************************)
EXTENDS Requests, TLAPS, WellFoundedInduction

Shape ==
  /\ phase \in [Requests -> Phases]
  /\ DOMAIN what = Requests
  /\ what = [r \in Requests |-> what[r]]
  /\ user \in [Requests -> SUBSET Groups]
  /\ dataset \in [Requests -> Groups \cup {None}]
  /\ job \in [Requests -> Groups \cup {None}]
  /\ answer \in [Requests -> Answers]
  /\ held \in [Requests -> SUBSET SUBSET Groups]
  /\ groups \in SUBSET Groups
  /\ owner \in Groups

\* From its arrival on, what the user holds is noted for a request.
NotedSince(r) == phase[r] # "idle" => groups \in held[r]

\* The user of a request is the user at some moment since.
UserIsNoted(r) == phase[r] = "authenticated" => user[r] \in held[r]

\* The job of an accepted POST has the group of the dataset.
JobOfDataset(r) ==
  answer[r] = "200" => phase[r] = "done" /\ job[r] = dataset[r]

\* A DELETE arrives after the POST of its job was answered, and whatever has
\* been noted since was noted for the POST as well.
AfterPost(r) ==
  /\ phase[r] = "idle" => what[r] = None
  /\ IsDelete(r) =>
       /\ what[r].of \in Requests
       /\ answer[what[r].of] = "200"
       /\ held[r] \subseteq held[what[r].of]

RefusalIsMeant(r) ==
  (phase[r] = "done" /\ IsDelete(r) /\ answer[r] = "403") =>
    \E g \in held[r] : job[what[r].of] \notin g

RequestInv(r) ==
  /\ NotedSince(r) /\ UserIsNoted(r) /\ JobOfDataset(r)
  /\ AfterPost(r) /\ RefusalIsMeant(r)

IInv == Shape /\ \A r \in Requests : RequestInv(r)

LEMMA InitInv == Init => IInv
BY DEF Init, IInv, Shape, RequestInv, NotedSince, UserIsNoted, JobOfDataset,
       AfterPost, RefusalIsMeant, Phases, Answers, Denials, IsDelete

-----------------------------------------------------------------------------
(* A step of one handler leaves the others alone. *)

\* Nothing that RequestInv(q) reads of q itself changes.
Same(q) ==
  /\ phase'[q] = phase[q]
  /\ what'[q] = what[q]
  /\ user'[q] = user[q]
  /\ dataset'[q] = dataset[q]
  /\ job'[q] = job[q]
  /\ answer'[q] = answer[q]

\* A handler that goes on, its request known and unchanged; it may create its
\* job with its last step.
LEMMA HandlerStepInv ==
  ASSUME IInv, NEW r \in Requests, HandlerStep(r)
  PROVE  IInv'
<1> USE DEF IInv
<1>a. RequestInv(r)
  OBVIOUS
<1>0. UNCHANGED <<server, scicat, what>>
  BY DEF HandlerStep, Authenticate, Reject, RefuseFacilities, FetchDataset,
         DatasetUnavailable, Authorize, RefuseUser, Fail, Accept,
         JobUnavailable, CheckOwner, handlers
<1>1. Shape' /\ \A q \in Requests \ {r} : Same(q)
  BY <1>0 DEF Shape, Same, HandlerStep, Authenticate, Reject, RefuseFacilities,
         FetchDataset, DatasetUnavailable, Authorize, RefuseUser, Fail, Accept,
         JobUnavailable, CheckOwner, Go, Reply, scicat, Phases, Answers, Denials
<1>2. phase[r] \notin {"idle", "done"} /\ phase'[r] # "idle"
  BY DEF Shape, HandlerStep, Authenticate, Reject, RefuseFacilities,
         FetchDataset, DatasetUnavailable, Authorize, RefuseUser, Fail, Accept,
         JobUnavailable, CheckOwner, Go, Reply
<1>3. \A q \in Requests :
        answer[q] = "200" => job'[q] = job[q] /\ answer'[q] = "200"
  BY <1>1, <1>2 DEF Same, RequestInv, JobOfDataset
<1>4. JobOfDataset(r)'
  BY <1>a DEF Shape, RequestInv, JobOfDataset, HandlerStep, Authenticate,
         Reject, RefuseFacilities, FetchDataset, DatasetUnavailable, Authorize,
         RefuseUser, Fail, Accept, JobUnavailable, CheckOwner, Go, Reply
<1>5. UserIsNoted(r)'
  <2>1. CASE Authenticate(r)
    BY <2>1, <1>0, <1>a, <1>2 DEF Shape, RequestInv, NotedSince, UserIsNoted,
           Authenticate, Go, scicat
  <2>2. CASE ~Authenticate(r)
    <3>1. phase'[r] # "authenticated"
      BY <2>2 DEF Shape, HandlerStep, Reject, RefuseFacilities, FetchDataset,
             DatasetUnavailable, Authorize, RefuseUser, Fail, Accept,
             JobUnavailable, CheckOwner, Go, Reply
    <3> QED  BY <3>1 DEF UserIsNoted
  <2> QED  BY <2>1, <2>2
<1>6. RefusalIsMeant(r)'
  <2> SUFFICES ASSUME phase'[r] = "done", IsDelete(r)', answer'[r] = "403"
               PROVE  \E g \in held'[r] : job'[what'[r].of] \notin g
    BY DEF RefusalIsMeant
  <2>1. IsDelete(r) /\ ~IsPost(r)
    BY <1>0 DEF IsDelete, IsPost
  <2>2. phase[r] = "authenticated" /\ job[what[r].of] \notin user[r]
    BY <2>1 DEF Shape, HandlerStep, Authenticate, Reject, RefuseFacilities,
           FetchDataset, DatasetUnavailable, Authorize, RefuseUser, Fail,
           Accept, JobUnavailable, CheckOwner, Go, Reply
  <2> QED
    BY <2>1, <2>2, <1>0, <1>3, <1>a
    DEF RequestInv, UserIsNoted, AfterPost, scicat
<1>7. ASSUME NEW q \in Requests
      PROVE  RequestInv(q)'
  <2>1. RequestInv(q)
    OBVIOUS
  <2>2. NotedSince(q)' /\ AfterPost(q)'
    BY <2>1, <1>0, <1>1, <1>2, <1>3
    DEF RequestInv, NotedSince, AfterPost, IsDelete, Same, scicat
  <2>3. CASE q = r
    BY <2>2, <2>3, <1>4, <1>5, <1>6 DEF RequestInv
  <2>4. CASE q # r
    BY <2>1, <2>2, <2>4, <1>0, <1>1, <1>3
    DEF RequestInv, JobOfDataset, UserIsNoted, RefusalIsMeant, AfterPost,
        IsDelete, Same, scicat
  <2> QED  BY <2>3, <2>4
<1> QED  BY <1>1, <1>7

\* A POST or a DELETE arrives, what the user holds is noted.
LEMMA ArriveInv ==
  ASSUME IInv, NEW r \in Requests, Arrive(r)
  PROVE  IInv'
<1> USE DEF IInv
<1>1. /\ phase[r] = "idle"
      /\ phase' = [phase EXCEPT ![r] = "arrived"]
      /\ held' = [held EXCEPT ![r] = {groups}]
      /\ UNCHANGED <<groups, owner, user, dataset, job, answer>>
  BY DEF Arrive, Go
<1>2. PICK w \in Posts \cup [kind : {"DELETE"},
                             of : {p \in Requests : answer[p] = "200"}] :
        what' = [what EXCEPT ![r] = w]
  BY DEF Arrive
<1>3. Shape'
  BY <1>1, <1>2 DEF Shape, Phases
<1>4. ASSUME NEW q \in Requests, q # r
      PROVE  /\ phase'[q] = phase[q]
             /\ what'[q] = what[q]
             /\ held'[q] = held[q]
  BY <1>1, <1>2, <1>4 DEF Shape
<1>5. ASSUME NEW p \in Requests, answer[p] = "200"
      PROVE  phase[p] = "done" /\ groups \in held[p] /\ p # r
  BY <1>1, <1>5 DEF RequestInv, JobOfDataset, NotedSince
<1>6. RequestInv(r)'
  <2>1. /\ phase'[r] = "arrived"
        /\ held'[r] = {groups}
        /\ what'[r] = w
    BY <1>1, <1>2 DEF Shape
  <2>2. answer[r] # "200"
    BY <1>5
  <2>3. IsDelete(r)' =>
          /\ what'[r].of \in Requests
          /\ answer[what'[r].of] = "200"
    BY <1>2, <2>1 DEF IsDelete, Posts
  <2>4. IsDelete(r)' => held'[r] \subseteq held'[what'[r].of]
    BY <2>1, <2>3, <1>4, <1>5
  <2> QED
    BY <1>1, <2>1, <2>2, <2>3, <2>4
    DEF RequestInv, NotedSince, UserIsNoted, JobOfDataset, AfterPost,
        RefusalIsMeant
<1>7. ASSUME NEW q \in Requests, q # r
      PROVE  RequestInv(q)'
  <2>1. RequestInv(q)
    OBVIOUS
  <2>2. IsDelete(q) => what[q].of # r
    BY <1>5, <2>1 DEF RequestInv, AfterPost
  <2> QED
    BY <1>1, <1>4, <1>7, <2>1, <2>2
    DEF RequestInv, NotedSince, UserIsNoted, JobOfDataset, AfterPost,
        RefusalIsMeant, IsDelete
<1> QED  BY <1>3, <1>6, <1>7

-----------------------------------------------------------------------------
(* SciCat changes: what has been noted stays noted. *)

\* A note adds what the user holds now.
LEMMA NoteGrows ==
  ASSUME IInv, NEW g \in SUBSET Groups, held' = Note(held, g)
  PROVE  /\ held' \in [Requests -> SUBSET SUBSET Groups]
         /\ \A r \in Requests :
              phase[r] # "idle" => held'[r] = held[r] \cup {g}
BY DEF IInv, Shape, Note

\* A change of the user's groups is noted for every request under way.
LEMMA RegroupInv ==
  ASSUME IInv, Regroup
  PROVE  IInv'
<1> USE DEF IInv
<1>1. /\ UNCHANGED <<owner, phase, what, user, dataset, job, answer>>
      /\ groups' \in SUBSET Groups
      /\ held' = Note(held, groups')
  BY DEF Regroup, Change, handlers
<1>2. \A r \in Requests :
        phase[r] # "idle" => held'[r] = held[r] \cup {groups'}
  BY <1>1, NoteGrows
<1>3. Shape'
  BY <1>1, NoteGrows DEF Shape
<1>4. ASSUME NEW r \in Requests
      PROVE  RequestInv(r)'
  <2>1. RequestInv(r)
    OBVIOUS
  <2>2. IsDelete(r) => /\ what[r].of \in Requests
                       /\ phase[what[r].of] # "idle"
                       /\ phase[r] # "idle"
    BY <2>1 DEF RequestInv, AfterPost, JobOfDataset, IsDelete
  <2> QED
    BY <1>1, <1>2, <2>1, <2>2
    DEF RequestInv, NotedSince, UserIsNoted, JobOfDataset, AfterPost,
        RefusalIsMeant, IsDelete
<1> QED  BY <1>3, <1>4

\* What IInv reads is unchanged but for the owner of the dataset.
LEMMA OtherInv ==
  ASSUME IInv, owner' \in Groups, UNCHANGED <<groups, held, handlers>>
  PROVE  IInv'
BY DEF IInv, Shape, RequestInv, NotedSince, UserIsNoted, JobOfDataset,
       AfterPost, RefusalIsMeant, IsDelete, handlers

\* A change of the dataset's owner notes nothing of the user.
LEMMA ReownInv ==
  ASSUME IInv, Reown
  PROVE  IInv'
BY OtherInv DEF Reown, Change, handlers

\* Every step preserves the invariant.
LEMMA StepInv == IInv /\ [Next]_vars => IInv'
<1> SUFFICES ASSUME IInv, [Next]_vars
             PROVE  IInv'
  OBVIOUS
<1>1. CASE Start \/ Exit \/ UNCHANGED vars
  <2>1. UNCHANGED <<scicat, handlers>>
    BY <1>1 DEF Start, Exit, vars
  <2>2. owner' \in Groups /\ UNCHANGED <<groups, held, handlers>>
    BY <2>1 DEF scicat, IInv, Shape
  <2> QED  BY <2>2, OtherInv
<1>2. CASE \E r \in Requests : Arrive(r)
  BY <1>2, ArriveInv
<1>3. CASE \E r \in Requests : HandlerStep(r)
  BY <1>3, HandlerStepInv
<1>4. CASE Regroup
  BY <1>4, RegroupInv
<1>5. CASE Reown
  BY <1>5, ReownInv
<1> QED  BY <1>1, <1>2, <1>3, <1>4, <1>5 DEF Next

-----------------------------------------------------------------------------
\* In every reachable state what a handler remembers, and the user it refuses,
\* is noted in the history of its own request.
THEOREM RequestsInvariant == Spec => []IInv
BY InitInv, StepInv, PTL DEF Spec

\* A refused DELETE was asked by a user who, after the POST, was without the
\* group of the dataset: the group fetched for the POST is the group of the job,
\* and nothing of the POST changes once it is answered.
THEOREM PosterCancels == Spec => []PosterMayCancel
<1>1. IInv => PosterMayCancel
  <2> SUFFICES ASSUME IInv, NEW r \in Requests,
                      phase[r] = "done", IsDelete(r), answer[r] = "403"
               PROVE  \E g \in held[what[r].of] : dataset[what[r].of] \notin g
    BY DEF PosterMayCancel
  <2>1. PICK g \in held[r] : job[what[r].of] \notin g
    BY DEF IInv, RequestInv, RefusalIsMeant
  <2>2. /\ g \in held[what[r].of]
        /\ job[what[r].of] = dataset[what[r].of]
    BY DEF IInv, RequestInv, AfterPost, JobOfDataset
  <2> QED  BY <2>1, <2>2
<1> QED  BY <1>1, RequestsInvariant, PTL

-----------------------------------------------------------------------------
(* The facilities that the server keeps, and the file it was started with. *)

\* The greatest element of a bounded set of numbers.
LEMMA MaxIsGreatest ==
  ASSUME NEW m \in Nat, NEW S \in SUBSET (1..m), S # {}
  PROVE  Max(S) \in S /\ \A y \in S : y <= Max(S)
<1> DEFINE Below == {m - x : x \in S}
<1>1. Below \subseteq Nat /\ Below # {}
  <2>1. PICK x \in S : TRUE
    OBVIOUS
  <2>2. m - x \in Below
    OBVIOUS
  <2>3. \A y \in S : m - y \in Nat
    OBVIOUS
  <2> QED  BY <2>2, <2>3
<1>2. PICK b \in Below : \A y \in Below : <<y, b>> \notin OpToRel(<, Nat)
  <2> HIDE DEF Below
  <2> QED  BY <1>1, NatLessThanWellFounded, WFMin, Zenon
<1>3. PICK x \in S : b = m - x
  OBVIOUS
<1>4. \A y \in S : ~(m - y < m - x)
  BY <1>1, <1>2, <1>3 DEF OpToRel
<1>5. \A y \in S : x >= y
  BY <1>4
<1> QED  BY <1>5 DEF Max

\* What the service keeps of a facility are the values of its last entry, the
\* defaults where that gives none.
LEMMA FacilityIsEntry ==
  ASSUME file \in Files, NEW n \in DOMAIN Configured(ReadConfig(file))
  PROVE  /\ Configured(ReadConfig(file))[n] = Merge(NewFacilityConfig, Entry(n))
         /\ Entry(n).name = n
         /\ Entry(n) \in [DOMAIN NewFacilityConfig -> STRING]
         /\ Entry(n).accessPath \in DOMAIN SplitPath \cup {""}
<1> DEFINE fs == file.facilities
           conf == ReadConfig(file)
           e == Max(Named(conf, n))
<1>1. /\ fs \in Seq([DOMAIN NewFacilityConfig -> STRING])
      /\ \A i \in DOMAIN fs :
           fs[i].accessPath \in DOMAIN SplitPath \cup {""}
  BY FilesAssumption
<1>2. /\ DOMAIN conf = DOMAIN fs
      /\ \A i \in DOMAIN fs : /\ conf[i] = Merge(NewFacilityConfig, fs[i])
                              /\ conf[i].name = fs[i].name
  BY <1>1 DEF ReadConfig, Merge, NewFacilityConfig
<1>3. Len(fs) \in Nat /\ DOMAIN fs = 1..Len(fs)
  <2> DEFINE Facility == [DOMAIN NewFacilityConfig -> STRING]
  <2>1. fs \in Seq(Facility)
    BY <1>1
  <2> HIDE DEF fs, Facility
  <2> QED  BY <2>1
<1>4. n \in {conf[i].name : i \in DOMAIN conf}
  BY DEF Configured
<1>5. Named(conf, n) \in SUBSET (1..Len(fs)) /\ Named(conf, n) # {}
  BY <1>2, <1>3, <1>4 DEF Named
<1>6. e \in Named(conf, n) /\ \A i \in Named(conf, n) : i <= e
  BY <1>3, <1>5, MaxIsGreatest
<1> HIDE DEF e
<1>7. e \in DOMAIN fs /\ IsLast(e, n)
  BY <1>2, <1>6 DEF Named, IsLast
<1>8. \A i \in DOMAIN fs : IsLast(i, n) => i = e
  BY <1>3, <1>7 DEF IsLast
<1>9. Entry(n) = fs[e]
  BY <1>7, <1>8 DEF Entry
<1>10. Configured(conf)[n] = conf[e]
  BY <1>4 DEF Configured, e
<1>11. fs[e] \in [DOMAIN NewFacilityConfig -> STRING]
  <2> DEFINE Facility == [DOMAIN NewFacilityConfig -> STRING]
  <2>1. fs \in Seq(Facility)
    BY <1>1
  <2> HIDE DEF fs, Facility
  <2>2. fs[e] \in Facility
    BY <2>1, <1>7
  <2> QED  BY <2>2 DEF Facility
<1>12. /\ conf[e] = Merge(NewFacilityConfig, fs[e])
       /\ fs[e].name = n
       /\ fs[e].accessPath \in DOMAIN SplitPath \cup {""}
  BY <1>1, <1>2, <1>7 DEF IsLast
<1> QED  BY <1>9, <1>10, <1>11, <1>12

-----------------------------------------------------------------------------
(* The reflection over the identity of the user: paths of one or two parts. *)

\* The greatest of at most two indices.
LEMMA MaxOfTwo == Max({1}) = 1 /\ Max({2}) = 2 /\ Max({1, 2}) = 2
BY DEF Max

\* The fold over a path of one part is that field,
LEMMA PathOfOne ==
  ASSUME NEW v, NEW a
  PROVE  FoldLeft(FieldByName, v, <<a>>) = FieldByName(v, a)
<1> DEFINE Body(it) == [s \in SUBSET {1} |->
                          IF s = {} THEN v
                          ELSE FieldByName(it[s \ {Max(s)}], <<a>>[Max(s)])]
           it == CHOOSE f : f = Body(f)
           At1 == FieldByName(v, a)
           sol == [s \in SUBSET {1} |-> IF s = {} THEN v ELSE At1]
<1>1. FoldLeft(FieldByName, v, <<a>>) = it[{1}]
  <2>1. DOMAIN <<a>> = {1}
    OBVIOUS
  <2> QED  BY <2>1, Zenon DEF FoldLeft, MapThenFoldSet
<1>2. sol = Body(sol)
  <2>1. \A s \in SUBSET {1} : s = {} \/ s = {1}
    OBVIOUS
  <2>2. sol[{}] = v /\ {1} \ {1} = {} /\ <<a>>[1] = a
    OBVIOUS
  <2>3. ASSUME NEW s \in SUBSET {1}
        PROVE  sol[s] = Body(sol)[s]
    <3>1. CASE s = {}
      BY <3>1
    <3>2. CASE s = {1}
      BY <3>2, <2>2, MaxOfTwo
    <3> QED  BY <2>1, <3>1, <3>2
  <2> HIDE DEF sol
  <2> QED  BY <2>3 DEF sol
<1>3. it = Body(it)
  <2> HIDE DEF Body, sol
  <2> QED  BY <1>2
<1> HIDE DEF it
<1>4. it[{}] = v
  BY <1>3
<1>5. it[{1}] = At1
  <2>1. it[{1}] = Body(it)[{1}]
    BY <1>3
  <2> QED  BY <2>1, <1>4, MaxOfTwo
<1> QED  BY <1>1, <1>5

\* A path of two parts, as an operator of its values.
Walk(v, a, b) == FoldLeft(FieldByName, v, <<a, b>>)

\* and over a path of two parts the field of a field.
LEMMA PathOfTwo ==
  ASSUME NEW v, NEW a, NEW b
  PROVE  Walk(v, a, b) = FieldByName(FieldByName(v, a), b)
<1> DEFINE Body(it) == [s \in SUBSET {1, 2} |->
                          IF s = {} THEN v
                          ELSE FieldByName(it[s \ {Max(s)}],
                                           <<a, b>>[Max(s)])]
           it == CHOOSE f : f = Body(f)
           At1 == FieldByName(v, a)
           At2 == FieldByName(v, b)
           sol == [s \in SUBSET {1, 2} |->
                     IF s = {} THEN v
                     ELSE IF s = {1} THEN At1
                     ELSE IF s = {2} THEN At2 ELSE FieldByName(At1, b)]
<1>1. Walk(v, a, b) = it[{1, 2}]
  <2>1. DOMAIN <<a, b>> = {1, 2}
    OBVIOUS
  <2> QED  BY <2>1, Zenon DEF Walk, FoldLeft, MapThenFoldSet
<1>2. sol = Body(sol)
  <2>1. \A s \in SUBSET {1, 2} : s = {} \/ s = {1} \/ s = {2} \/ s = {1, 2}
    OBVIOUS
  <2>2. sol[{}] = v /\ sol[{1}] = At1
    OBVIOUS
  <2>3. {1} \ {1} = {} /\ {2} \ {2} = {} /\ {1, 2} \ {2} = {1}
    OBVIOUS
  <2>4. <<a, b>>[1] = a /\ <<a, b>>[2] = b
    OBVIOUS
  <2> HIDE DEF At1, At2
  <2>5. ASSUME NEW s \in SUBSET {1, 2}
        PROVE  sol[s] = Body(sol)[s]
    <3>1. CASE s = {}
      BY <3>1
    <3>2. CASE s = {1}
      BY <3>2, MaxOfTwo, <2>2, <2>3, <2>4 DEF At1
    <3>3. CASE s = {2}
      BY <3>3, MaxOfTwo, <2>2, <2>3, <2>4 DEF At2
    <3>4. CASE s = {1, 2}
      BY <3>4, MaxOfTwo, <2>2, <2>3, <2>4
    <3> QED  BY <2>1, <3>1, <3>2, <3>3, <3>4
  <2> HIDE DEF sol
  <2> QED  BY <2>5 DEF sol
<1>3. it = Body(it)
  <2> HIDE DEF Body, sol
  <2> QED  BY <1>2
<1> HIDE DEF it
<1>4. it[{}] = v
  BY <1>3
<1>5. it[{1}] = At1
  <2>1. it[{1}] = Body(it)[{1}]
    BY <1>3
  <2> QED  BY <2>1, <1>4, MaxOfTwo
<1>6. it[{1, 2}] = FieldByName(At1, b)
  <2>1. it[{1, 2}] = Body(it)[{1, 2}]
    BY <1>3
  <2>2. {1, 2} \ {2} = {1}
    OBVIOUS
  <2> HIDE DEF At1
  <2> QED  BY <2>1, <2>2, <1>5, MaxOfTwo
<1> QED  BY <1>1, <1>6

\* CheckProperty says "yes" of the strings that the path points to, "no" of
\* others, and errs only over the path that it does not find.
LEMMA CheckFinds ==
  ASSUME NEW g, NEW path \in DOMAIN SplitPath, NEW value
  PROVE  LET c == CheckProperty(Identity(g), SplitPath[path], value)
         IN  /\ c = "yes" => value \in StringsAt(path, g)
             /\ c = "no" => value \notin StringsAt(path, g)
             /\ c = "error" => path = "profile.id"
<1> DEFINE fields == [AccessGroups |-> Slice(g), Username |-> String(Username),
                      ID |-> String(UserId)]
           profile == Struct(fields)
           v == FoldLeft(FieldByName, Identity(g), SplitPath[path])
<1>1. FieldByName(Identity(g), "Profile") = profile
  BY DEF FieldByName, Identity, Struct
<1>2. CASE path = "profile.accessGroups"
  <2>0. SplitPath[path] = <<"Profile", "AccessGroups">>
    BY <1>2 DEF SplitPath
  <2>1. v = Walk(Identity(g), "Profile", "AccessGroups")
    BY <2>0 DEF Walk
  <2>2. v = FieldByName(profile, "AccessGroups")
    BY <2>1, <1>1, PathOfTwo
  <2>3. v = Slice(g)
    BY <2>2 DEF FieldByName, Struct
  <2> HIDE DEF v
  <2> QED  BY <2>3, <1>2 DEF CheckProperty, v, Slice, StringsAt
<1>3. CASE path = "profile.username"
  <2>0. SplitPath[path] = <<"Profile", "Username">>
    BY <1>3 DEF SplitPath
  <2>1. v = Walk(Identity(g), "Profile", "Username")
    BY <2>0 DEF Walk
  <2>2. v = FieldByName(profile, "Username")
    BY <2>1, <1>1, PathOfTwo
  <2>3. v = String(Username)
    BY <2>2 DEF FieldByName, Struct
  <2> QED  BY <2>3, <1>3 DEF CheckProperty, String, StringsAt
<1>4. CASE path = "profile.id"
  <2>0. SplitPath[path] = <<"Profile", "Id">>
    BY <1>4 DEF SplitPath
  <2>1. v = Walk(Identity(g), "Profile", "Id")
    BY <2>0 DEF Walk
  <2>2. v = FieldByName(profile, "Id")
    BY <2>1, <1>1, PathOfTwo
  <2>3. v = NoField
    BY <2>2 DEF FieldByName, Struct
  <2> QED  BY <2>3, <1>4 DEF CheckProperty, NoField, StringsAt
<1>5. CASE path = "profile"
  <2>1. v = profile
    BY <1>1, <1>5, PathOfOne DEF SplitPath
  <2> QED  BY <2>1, <1>5 DEF CheckProperty, Struct, StringsAt
<1> QED  BY <1>2, <1>3, <1>4, <1>5 DEF SplitPath

-----------------------------------------------------------------------------
(* What the handlers have checked. *)

Started ==
  /\ up \in {"starting", "serving", "exited"}
  /\ file \in Files
  /\ changes \in 0..MaxChanges
  /\ owned \in [Requests -> SUBSET Groups]
  /\ up = "serving" => Valid(file) /\ facilities = Configured(ReadConfig(file))

\* A handler reads the user and the dataset after the request arrived, is past a
\* check only if the check was passed, and answers once, with its last step.
Checked(r) ==
  /\ phase[r] # "idle" => up = "serving" /\ owner \in owned[r]
  /\ phase[r] # "done" => answer[r] = "none"
  /\ job[r] # None <=> answer[r] = "200"
  /\ phase[r] \in {"authenticated", "fetched", "authorized"} =>
       user[r] \in held[r]
  /\ phase[r] \in {"fetched", "authorized"} =>
       IsPost(r) /\ FacilitiesFit(r) /\ dataset[r] \in owned[r]
  /\ phase[r] = "authorized" => checkAuthorization(r) = "yes"

CheckInv == IInv /\ Started /\ \A r \in Requests : Checked(r)

\* Nothing has been checked at the start.
LEMMA InitChecked == Init => CheckInv
<1> SUFFICES ASSUME Init
             PROVE  CheckInv
  OBVIOUS
<1>1. Started
  BY RequestsAssumption DEF Init, Started
<1>2. \A r \in Requests : Checked(r)
  BY DEF Init, Checked
<1> QED  BY <1>1, <1>2, InitInv DEF CheckInv

\* A request keeps what it has passed while its own part of the state and the
\* server's stay, and the notes about it only grow.
LEMMA CheckedKept ==
  ASSUME NEW r \in Requests, Checked(r), Same(r),
         phase[r] # "idle" => /\ UNCHANGED <<up, facilities>>
                              /\ held[r] \subseteq held'[r]
                              /\ owned[r] \subseteq owned'[r]
                              /\ owner' \in owned'[r]
  PROVE  Checked(r)'
<1>1. phase[r] \in {"fetched", "authorized"} =>
        /\ FacilitiesFit(r)' = FacilitiesFit(r)
        /\ checkAuthorization(r)' = checkAuthorization(r)
  BY DEF FacilitiesFit, checkAuthorization, Same
<1>2. IsPost(r)' = IsPost(r)
  BY DEF IsPost, Same
<1> QED  BY <1>1, <1>2 DEF Checked, Same

\* The step of a handler, action by action.
LEMMA HandlerChecked ==
  ASSUME CheckInv, NEW r \in Requests, HandlerStep(r)
  PROVE  CheckInv'
<1> USE DEF CheckInv
<1>1. IInv' /\ IInv /\ Checked(r) /\ Started
  BY HandlerStepInv
<1>2. /\ UNCHANGED <<server, scicat, what>>
      /\ \A q \in Requests \ {r} : Same(q)
  BY <1>1 DEF IInv, Shape, Same, HandlerStep, Authenticate, Reject,
         RefuseFacilities, FetchDataset, DatasetUnavailable, Authorize,
         RefuseUser, Fail, Accept, JobUnavailable, CheckOwner, Go, Reply,
         handlers
<1>3. UNCHANGED <<up, file, facilities, groups, owner, changes, held, owned>>
  BY <1>2 DEF server, scicat
<1>4. Started'
  BY <1>1, <1>3 DEF Started
<1>5. /\ phase[r] # "idle" /\ up = "serving" /\ owner \in owned[r]
      /\ phase[r] # "done" /\ answer[r] = "none" /\ job[r] = None
  BY <1>1 DEF IInv, Shape, Checked, HandlerStep, Authenticate, Reject,
         RefuseFacilities, FetchDataset, DatasetUnavailable, Authorize,
         RefuseUser, Fail, Accept, JobUnavailable, CheckOwner, Go, Reply
<1> USE DEF IInv, Shape, Go, Reply
<1>6. Checked(r)'
  <2>1. CASE Authenticate(r)
    <3>1. /\ phase'[r] = "authenticated" /\ user'[r] = groups
          /\ UNCHANGED <<job, answer>>
      BY <2>1, <1>1 DEF Authenticate
    <3> QED  BY <3>1, <1>1, <1>3, <1>5 DEF Checked, RequestInv, NotedSince
  <2>2. CASE FetchDataset(r)
    <3>1. /\ phase[r] = "authenticated" /\ phase'[r] = "fetched"
          /\ dataset'[r] = owner /\ IsPost(r) /\ FacilitiesFit(r)
          /\ UNCHANGED <<user, job, answer>>
      BY <2>2, <1>1 DEF FetchDataset
    <3>2. IsPost(r)' /\ FacilitiesFit(r)'
      BY <3>1, <1>2, <1>3 DEF IsPost, FacilitiesFit
    <3> QED  BY <3>1, <3>2, <1>1, <1>3, <1>5 DEF Checked
  <2>3. CASE Authorize(r)
    <3>1. /\ phase[r] = "fetched" /\ phase'[r] = "authorized"
          /\ checkAuthorization(r) = "yes"
          /\ UNCHANGED <<user, dataset, job, answer>>
      BY <2>3, <1>1 DEF Authorize
    <3>2. /\ IsPost(r)' = IsPost(r) /\ FacilitiesFit(r)' = FacilitiesFit(r)
          /\ checkAuthorization(r)' = checkAuthorization(r)
      BY <3>1, <1>2, <1>3 DEF IsPost, FacilitiesFit, checkAuthorization
    <3> QED  BY <3>1, <3>2, <1>1, <1>3, <1>5 DEF Checked
  <2>4. CASE Accept(r)
    <3>1. /\ phase[r] = "authorized" /\ phase'[r] = "done"
          /\ answer'[r] = "200" /\ job'[r] = dataset[r]
      BY <2>4, <1>1 DEF Accept
    <3>2. dataset[r] \in Groups
      BY <3>1, <1>1 DEF Checked, Started
    <3> QED  BY <3>1, <3>2, <1>3, <1>5, RequestsAssumption DEF Checked
  <2>5. CASE \/ Reject(r) \/ RefuseFacilities(r) \/ DatasetUnavailable(r)
             \/ RefuseUser(r) \/ Fail(r) \/ JobUnavailable(r) \/ CheckOwner(r)
    <3>1. /\ phase'[r] = "done" /\ answer'[r] # "200" /\ UNCHANGED job
      BY <2>5, <1>1 DEF Reject, RefuseFacilities, DatasetUnavailable,
             RefuseUser, Fail, JobUnavailable, CheckOwner
    <3> QED  BY <3>1, <1>3, <1>5 DEF Checked
  <2> QED  BY <2>1, <2>2, <2>3, <2>4, <2>5 DEF HandlerStep
<1>7. ASSUME NEW q \in Requests, q # r
      PROVE  Checked(q)'
  <2>1. phase[q] # "idle" => owner \in owned[q]
    BY DEF Checked
  <2> QED  BY <2>1, <1>2, <1>3, <1>7, CheckedKept
<1> QED  BY <1>1, <1>4, <1>6, <1>7

\* A request arrives unchecked.
LEMMA ArriveChecked ==
  ASSUME CheckInv, NEW r \in Requests, Arrive(r)
  PROVE  CheckInv'
<1> USE DEF CheckInv
<1>1. IInv' /\ IInv /\ Checked(r) /\ Started
  BY ArriveInv
<1>2. /\ up = "serving" /\ phase[r] = "idle"
      /\ phase' = [phase EXCEPT ![r] = "arrived"]
      /\ held' = [held EXCEPT ![r] = {groups}]
      /\ owned' = [owned EXCEPT ![r] = {owner}]
      /\ UNCHANGED <<up, file, facilities, groups, owner, changes, user,
                     dataset, job, answer>>
  BY DEF Arrive, Go, server
<1>3. PICK w : what' = [what EXCEPT ![r] = w]
  BY DEF Arrive
<1>4. Started'
  BY <1>1, <1>2 DEF Started, IInv, Shape
<1>5. Checked(r)'
  BY <1>1, <1>2 DEF IInv, Shape, Started, Checked
<1>6. ASSUME NEW q \in Requests, q # r
      PROVE  Checked(q)'
  <2>1. /\ Same(q) /\ held'[q] = held[q] /\ owned'[q] = owned[q]
        /\ phase[q] # "idle" => owner \in owned[q]
    BY <1>1, <1>2, <1>3, <1>6 DEF IInv, Shape, Started, Same, Checked
  <2> QED  BY <2>1, <1>2, CheckedKept
<1> QED  BY <1>1, <1>4, <1>5, <1>6

\* The start, while no request has arrived.
LEMMA StartChecked ==
  ASSUME CheckInv, Start \/ Exit
  PROVE  CheckInv'
<1> USE DEF CheckInv
<1>1. /\ up = "starting" /\ UNCHANGED <<file, scicat, handlers>>
      /\ \/ up' = "exited"
         \/ /\ up' = "serving" /\ Valid(file)
            /\ facilities' = Configured(ReadConfig(file))
  BY DEF Start, Exit
<1>2. UNCHANGED <<groups, owner, changes, held, owned, phase, what, user,
                  dataset, job, answer>>
  BY <1>1 DEF scicat, handlers
<1>3. IInv'
  BY <1>2, OtherInv DEF IInv, Shape, handlers
<1>4. Valid(file)' = Valid(file) /\ ReadConfig(file)' = ReadConfig(file)
  BY <1>1 DEF Valid, ReadConfig
<1>5. Started'
  BY <1>1, <1>2, <1>4 DEF Started
<1>6. ASSUME NEW q \in Requests
      PROVE  Checked(q)'
  <2>1. Checked(q) /\ phase[q] = "idle" /\ Same(q)
    BY <1>1, <1>2 DEF Checked, Same
  <2> QED  BY <2>1, CheckedKept
<1> QED  BY <1>3, <1>5, <1>6

\* SciCat changes: the notes grow, what the handlers have read stays.
LEMMA ChangeChecked ==
  ASSUME CheckInv, Regroup \/ Reown
  PROVE  CheckInv'
<1> USE DEF CheckInv
<1>1. /\ changes < MaxChanges /\ changes' = changes + 1
      /\ UNCHANGED <<up, file, facilities, phase, what, user, dataset, job,
                     answer>>
  BY DEF Regroup, Reown, Change, server, handlers
<1>2. IInv'
  BY RegroupInv, ReownInv
<1>3. /\ (owned' = owned /\ owner' = owner) \/ owned' = Note(owned, owner')
      /\ held' = held \/ held' = Note(held, groups')
      /\ owner' \in Groups
  <2>1. CASE Regroup
    BY <2>1 DEF Regroup, IInv, Shape
  <2>2. CASE Reown
    BY <2>2 DEF Reown
  <2> QED  BY <2>1, <2>2
<1>4. Started'
  <2>1. changes' \in 0..MaxChanges
    BY <1>1, RequestsAssumption DEF Started
  <2>2. owned' \in [Requests -> SUBSET Groups]
    BY <1>3 DEF Started, Note
  <2> QED  BY <1>1, <2>1, <2>2 DEF Started
<1>5. ASSUME NEW q \in Requests
      PROVE  Checked(q)'
  <2>1. Checked(q) /\ Same(q)
    BY <1>1 DEF Same
  <2>2. phase[q] # "idle" => /\ held[q] \subseteq held'[q]
                             /\ owned[q] \subseteq owned'[q]
                             /\ owner' \in owned'[q]
    BY <1>3, <2>1 DEF Note, Checked
  <2> QED  BY <1>1, <2>1, <2>2, CheckedKept
<1> QED  BY <1>2, <1>4, <1>5

\* Every step preserves what the handlers have checked.
LEMMA StepChecked == CheckInv /\ [Next]_vars => CheckInv'
<1> SUFFICES ASSUME CheckInv, [Next]_vars
             PROVE  CheckInv'
  OBVIOUS
<1>1. CASE UNCHANGED vars
  <2>1. /\ UNCHANGED <<up, file, facilities, groups, owner, changes, held,
                       owned, handlers>>
        /\ UNCHANGED <<phase, what, user, dataset, job, answer>>
    BY <1>1 DEF vars, server, scicat, handlers
  <2>2. IInv'
    BY <2>1, OtherInv DEF CheckInv, IInv, Shape
  <2>3. Started'
    BY <2>1 DEF CheckInv, Started
  <2>4. \A q \in Requests : Checked(q)'
    BY <2>1, CheckedKept DEF CheckInv, Same, Checked
  <2> QED  BY <2>2, <2>3, <2>4 DEF CheckInv
<1> QED
  BY <1>1, StartChecked, ArriveChecked, HandlerChecked, ChangeChecked DEF Next

\* In every reachable state a handler is past a check only if it was passed with
\* what SciCat said of the user and the dataset since the request arrived.
THEOREM ChecksInvariant == Spec => []CheckInv
BY InitChecked, StepChecked, PTL DEF Spec

\* The types of the variables hold in every reachable state; a server that
\* listens has facilities, each under its name and with no field left empty but
\* perhaps its collection, and there is a job exactly for each accepted POST.
THEOREM RequestsTypeCorrect == Spec => []TypeOK
<1>1. CheckInv => TypeOK
  <2> SUFFICES ASSUME CheckInv
               PROVE  TypeOK
    OBVIOUS
  <2>1. IInv /\ Started /\ \A r \in Requests : job[r] # None <=> answer[r] = "200"
    BY DEF CheckInv, Checked
  <2>2. ASSUME up = "serving"
        PROVE  DOMAIN facilities # {}
    <3>1. /\ file.facilities \in Seq([DOMAIN NewFacilityConfig -> STRING])
          /\ file.facilities # <<>>
          /\ facilities = Configured(ReadConfig(file))
      BY <2>1, <2>2, FilesAssumption DEF Started, Valid
    <3>2. 1 \in DOMAIN file.facilities
      <4> DEFINE Facility == [DOMAIN NewFacilityConfig -> STRING]
      <4>1. file.facilities \in Seq(Facility)
        BY <3>1
      <4> HIDE DEF Facility
      <4> QED  BY <3>1, <4>1
    <3>3. 1 \in DOMAIN ReadConfig(file)
      BY <3>2 DEF ReadConfig
    <3> QED  BY <3>1, <3>3 DEF Configured
  <2>3. ASSUME up = "serving", NEW n \in DOMAIN facilities
        PROVE  /\ facilities[n].name = n
               /\ \A f \in DOMAIN NewFacilityConfig \ {"collection"} :
                    facilities[n][f] # ""
    <3>1. /\ facilities[n] = Merge(NewFacilityConfig, Entry(n))
          /\ Entry(n).name = n
      BY <2>1, <2>3, FacilityIsEntry DEF Started
    <3>2. n # ""
      <4>1. /\ facilities = Configured(ReadConfig(file))
            /\ \A i \in DOMAIN ReadConfig(file) : ReadConfig(file)[i].name # ""
        BY <2>1, <2>3 DEF Started, Valid
      <4> QED  BY <2>3, <4>1 DEF Configured
    <3>3. /\ DOMAIN facilities[n] = DOMAIN NewFacilityConfig
          /\ \A f \in DOMAIN NewFacilityConfig :
               facilities[n][f] = IF Entry(n)[f] = "" THEN NewFacilityConfig[f]
                                                     ELSE Entry(n)[f]
      BY <3>1 DEF Merge
    <3>4. facilities[n].name = n
      BY <3>1, <3>2, <3>3 DEF NewFacilityConfig
    <3>5. \A f \in DOMAIN NewFacilityConfig \ {"name", "collection"} :
            NewFacilityConfig[f] # ""
      <4>1. DOMAIN NewFacilityConfig =
              {"name", "collection", "scopes", "accessPath", "accessValue",
               "direction", "sourcePath", "destinationPath"}
        BY DEF NewFacilityConfig
      <4>2. /\ NewFacilityConfig["scopes"] # ""
            /\ NewFacilityConfig["accessPath"] # ""
            /\ NewFacilityConfig["accessValue"] # ""
            /\ NewFacilityConfig["direction"] # ""
            /\ NewFacilityConfig["sourcePath"] # ""
            /\ NewFacilityConfig["destinationPath"] # ""
        BY DEF NewFacilityConfig
      <4> QED  BY <4>1, <4>2
    <3> QED  BY <3>2, <3>3, <3>4, <3>5
  <2> QED  BY <2>1, <2>2, <2>3 DEF IInv, Shape, Started, TypeOK
<1> QED  BY <1>1, ChecksInvariant, PTL

-----------------------------------------------------------------------------
(* Who is accepted and who is refused. *)

\* The rule that the server keeps decides as the file has it, for a facility
\* whose own entry has the same rule; it errs over a facility to which the user
\* has no access, or over a path that is not found.
LEMMA RuleDecides ==
  ASSUME Started, up = "serving", NEW g,
         NEW n \in DOMAIN facilities, NEW m \in DOMAIN facilities,
         Entry(n).accessPath = Entry(m).accessPath,
         Entry(n).accessValue = Entry(m).accessValue
  PROVE  LET a == Allowed(g, facilities[n], m)
         IN  /\ a = "yes" => HasAccess(g, m)
             /\ a = "no" => ~HasAccess(g, m)
             /\ (a = "error" /\ PathOf(n) # "profile.id") => ~HasAccess(g, m)
<1> DEFINE path == PathOf(m)
           asked == ValueOf(m)
<1>1. /\ facilities[n] = Merge(NewFacilityConfig, Entry(n))
      /\ Entry(n).accessPath \in DOMAIN SplitPath \cup {""}
  BY FacilityIsEntry DEF Started
<1>2. /\ facilities[n].accessPath = path /\ facilities[n].accessValue = asked
      /\ PathOf(n) = path
  BY <1>1 DEF Merge, NewFacilityConfig, Default, PathOf, ValueOf
<1>3. path \in DOMAIN SplitPath
  BY <1>1 DEF Default, SplitPath, PathOf
<1> HIDE DEF path, asked
<1>4. Allowed(g, facilities[n], m) =
        IF asked = UnknownField
        THEN "error"
        ELSE CheckProperty(Identity(g), SplitPath[path], ExecuteStr(asked, m))
  BY <1>2 DEF Allowed
<1>5. HasAccess(g, m) <=> /\ asked # UnknownField
                          /\ ExecuteStr(asked, m) \in StringsAt(path, g)
  BY DEF HasAccess, path, asked
<1>6. CASE asked = UnknownField
  BY <1>4, <1>5, <1>6
<1>7. CASE asked # UnknownField
  BY <1>2, <1>3, <1>4, <1>5, <1>7, CheckFinds
<1> QED  BY <1>6, <1>7

\* The direction that the server keeps is the one that the file gives.
LEMMA DirectionIsEntry ==
  ASSUME Started, up = "serving", NEW n \in DOMAIN facilities
  PROVE  /\ Source(n) <=> facilities[n].direction \in {"SRC", "BOTH"}
         /\ Destination(n) <=> facilities[n].direction \in {"DST", "BOTH"}
<1>1. facilities[n] = Merge(NewFacilityConfig, Entry(n))
  BY FacilityIsEntry DEF Started
<1> QED  BY <1>1 DEF Merge, NewFacilityConfig, Default, Source, Destination

\* A request is answered by a step of its own handler.
LEMMA AnsweredByHandler ==
  ASSUME CheckInv, [Next]_vars, NEW r \in Requests, NEW code \in {"200"} \cup Denials,
         Answered(r, code)
  PROVE  \/ Accept(r) /\ code = "200"
         \/ RefuseUser(r) /\ code \in Denials
<1>1. answer[r] = "none" /\ answer'[r] = code /\ IsPost(r) /\ ~IsDelete(r)
  BY DEF CheckInv, Checked, Answered, IsPost, IsDelete
<1>2. answer' # answer
  BY <1>1 DEF Denials
<1>3. PICK q \in Requests : HandlerStep(q)
  BY <1>2 DEF Next, vars, handlers, Start, Exit, Arrive, Regroup, Reown, Change
<1>4. IInv
  BY DEF CheckInv
<1>5. q = r
  BY <1>1, <1>3, <1>4 DEF IInv, Shape, HandlerStep, Authenticate, Reject,
         RefuseFacilities, FetchDataset, DatasetUnavailable, Authorize,
         RefuseUser, Fail, Accept, JobUnavailable, CheckOwner, Go, Reply,
         Denials
<1>6. CASE Accept(r)
  <2>1. answer'[r] = "200"
    BY <1>4, <1>6 DEF IInv, Shape, Accept, Reply
  <2> QED  BY <1>1, <1>6, <2>1
<1>7. CASE RefuseUser(r)
  BY <1>1, <1>4, <1>7 DEF IInv, Shape, RefuseUser, Reply, Denials
<1>8. CASE ~Accept(r) /\ ~RefuseUser(r)
  BY <1>1, <1>3, <1>4, <1>5, <1>8
  DEF IInv, Shape, HandlerStep, Authenticate, Reject, RefuseFacilities,
      FetchDataset, DatasetUnavailable, Authorize, Fail, JobUnavailable,
      CheckOwner, Reply, Denials
<1> QED  BY <1>6, <1>7, <1>8

\* What a POST beyond the fetching of its dataset is judged by is of its own
\* request, and is judged as the file asks.
LEMMA JudgedAsAsked ==
  ASSUME CheckInv, NEW r \in Requests, SameRule(r),
         phase[r] \in {"fetched", "authorized"}
  PROVE  LET may == MayTransfer(user[r], dataset[r], what[r].src, what[r].dst)
         IN  /\ user[r] \in held[r] /\ dataset[r] \in owned[r]
             /\ checkAuthorization(r) = "yes" => may
             /\ checkAuthorization(r) = "no" => ~may
             /\ (checkAuthorization(r) = "error" /\ PathIsFound(r)) => ~may
<1> DEFINE src == what[r].src
           dst == what[r].dst
<1>1. /\ Started /\ up = "serving" /\ FacilitiesFit(r)
      /\ user[r] \in held[r] /\ dataset[r] \in owned[r]
  BY DEF CheckInv, Checked
<1>2. src \in DOMAIN facilities /\ dst \in DOMAIN facilities
  BY <1>1 DEF FacilitiesFit
<1>3. Source(src) /\ Destination(dst)
  BY <1>1, <1>2, DirectionIsEntry DEF FacilitiesFit
<1>4. /\ Entry(src).accessPath = Entry(dst).accessPath
      /\ Entry(src).accessValue = Entry(dst).accessValue
  BY DEF SameRule
<1>5. \A n \in {src, dst} :
        /\ Allowed(user[r], facilities[src], n) = "yes" => HasAccess(user[r], n)
        /\ Allowed(user[r], facilities[src], n) = "no" => ~HasAccess(user[r], n)
        /\ (Allowed(user[r], facilities[src], n) = "error" /\ PathIsFound(r))
              => ~HasAccess(user[r], n)
  BY <1>1, <1>2, <1>4, RuleDecides DEF PathIsFound
<1> QED  BY <1>1, <1>3, <1>5 DEF checkAuthorization, MayTransfer

\* Whoever is accepted had, while the request was served, the access that the
\* configuration file asks for to both facilities, and the group of the dataset:
\* for every configuration, whatever changes in SciCat between the reads.
THEOREM AcceptedEntitled == Spec => AcceptedIsEntitled
<1>1. CheckInv /\ [Next]_vars =>
        [\A r \in Requests :
           (Answered(r, "200") /\ SameRule(r)) =>
             \E g \in held[r] : \E o \in owned[r] :
               MayTransfer(g, o, what[r].src, what[r].dst)]_vars
  <2> SUFFICES ASSUME CheckInv, [Next]_vars, NEW r \in Requests,
                      Answered(r, "200"), SameRule(r)
               PROVE  \E g \in held[r] : \E o \in owned[r] :
                        MayTransfer(g, o, what[r].src, what[r].dst)
    OBVIOUS
  <2>1. phase[r] = "authorized"
    BY AnsweredByHandler DEF Denials, Accept, Reply, Go
  <2>2. checkAuthorization(r) = "yes"
    BY <2>1 DEF CheckInv, Checked
  <2> QED  BY <2>1, <2>2, JudgedAsAsked
<1> QED  BY <1>1, ChecksInvariant, PTL DEF Spec, AcceptedIsEntitled

\* Whoever is told to lack access, by 401 or by 500, lacked it at some moment of
\* the request, if the path of the rule is one that the code finds.
THEOREM RefusedNotEntitled == Spec => RefusedIsNotEntitled
<1>1. CheckInv /\ [Next]_vars =>
        [\A r \in Requests : \A code \in Denials :
           (Answered(r, code) /\ SameRule(r) /\ PathIsFound(r)) =>
             \E g \in held[r] : \E o \in owned[r] :
               ~MayTransfer(g, o, what[r].src, what[r].dst)]_vars
  <2> SUFFICES ASSUME CheckInv, [Next]_vars, NEW r \in Requests,
                      NEW code \in Denials,
                      Answered(r, code), SameRule(r), PathIsFound(r)
               PROVE  \E g \in held[r] : \E o \in owned[r] :
                        ~MayTransfer(g, o, what[r].src, what[r].dst)
    OBVIOUS
  <2>1. RefuseUser(r)
    BY AnsweredByHandler DEF Denials
  <2>2. phase[r] = "fetched" /\ checkAuthorization(r) \in {"no", "error"}
    BY <2>1 DEF RefuseUser
  <2> QED  BY <2>2, JudgedAsAsked
<1> QED  BY <1>1, ChecksInvariant, PTL DEF Spec, RefusedIsNotEntitled

=============================================================================
