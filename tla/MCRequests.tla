----------------------------- MODULE MCRequests -----------------------------
(* Model-checking instances of Requests: two facilities, A and B. *)
EXTENDS Requests, TLC

Plain(n) == [name |-> n, collection |-> "", scopes |-> "", accessPath |-> "",
             accessValue |-> "", direction |-> "", sourcePath |-> "",
             destinationPath |-> ""]

With(e, field, value) == [e EXCEPT ![field] = value]

\* B has no collection.
A == With(Plain("A"), "collection", "c")
B == Plain("B")

\* Rules that ask for group "A" whatever the facility, or for a user's name or
\* id.
GroupA(e) == With(e, "accessValue", "A")
UserA(e) == With(GroupA(e), "accessPath", "profile.username")
IdA(e) == With(GroupA(e), "accessPath", "profile.id")

File(entries) == [scicatUrl |-> "url", facilities |-> entries]

\* A configuration for every rule and direction, for a name given twice, for
\* one facility, and for each way in which a configuration can be wrong.
MCFiles ==
  { File(<<A, B>>),
    File(<<GroupA(A), GroupA(B)>>),
    File(<<A, GroupA(B)>>),
    File(<<UserA(A), UserA(B)>>),
    File(<<With(A, "direction", "SRC"), With(B, "direction", "DST")>>),
    File(<<IdA(A)>>),
    File(<<With(A, "accessPath", "profile")>>),
    File(<<With(A, "accessValue", UnknownField)>>),
    File(<<With(A, "sourcePath", UnknownField), B>>),
    File(<<B, GroupA(B)>>),
    File(<<With(A, "destinationPath", Malformed)>>),
    File(<<With(A, "scopes", UnknownField)>>),
    File(<<Plain("")>>),
    File(<<>>),
    [scicatUrl |-> "", facilities |-> <<A>>] }

Symmetry == Permutations(Requests)
=============================================================================
