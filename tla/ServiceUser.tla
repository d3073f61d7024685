---------------------------- MODULE ServiceUser ----------------------------
(***************************************************************************)
(* The SciCat service user: one token shared by every POST, every DELETE,  *)
(* every transfer task and the restore loop, renewed by the first call of  *)
(* GetToken after its expiry.                                              *)
(*                                                                         *)
(* A login is one call to SciCat.  It issues a token at one instant and is *)
(* answered at a later one; the expiry is computed from the `created` time *)
(* and the lifetime in the answer, after the token has been stored.  The   *)
(* clocks of the proxy and of SciCat are taken to be the same.             *)
(***************************************************************************)
EXTENDS Naturals, Sequences

CONSTANTS
  Callers,    \* goroutines that call GetToken
  Lifetimes,  \* values of expiresIn
  MaxClock,   \* bound: last instant of the clock
  MaxLogins,  \* bound: tokens SciCat issues
  None        \* no holder

ASSUME ServiceUserAssumption ==
  /\ Lifetimes \subseteq Nat
  /\ MaxClock \in Nat
  /\ MaxLogins \in Nat
  /\ None \notin Callers

VARIABLES
  now,     \* the clock
  life,    \* of the process
  token,   \* scicatToken, an index of issued; 0 is the empty string
  expiry,  \* 0 is the zero time
  mutex,   \* holder of ScicatServiceUser.mutex between two steps
  caller,  \* progress of each call
  issued   \* by SciCat: creation and end of each token, and whether the
           \* answer had a creation time and a lifetime that can be read

vars == <<now, life, token, expiry, mutex, caller, issued>>

Life == {"starting", "running", "exited"}
CallerState == {"idle", "waiting", "login", "storing", "returned", "failed"}
InCall == {"login", "storing"}
Token == [created : Nat, until : Nat, readable : BOOLEAN]

Init ==
  /\ now = 1
  /\ life = "starting"
  /\ token = 0
  /\ expiry = 0
  /\ mutex = None
  /\ caller = [c \in Callers |-> "idle"]
  /\ issued = <<>>

Tick ==
  /\ now < MaxClock
  /\ now' = now + 1
  /\ UNCHANGED <<life, token, expiry, mutex, caller, issued>>

-----------------------------------------------------------------------------
(* CreateServiceUser: a first login, before any other goroutine exists. *)

Created ==
  /\ life = "starting"
  /\ Len(issued) < MaxLogins
  /\ \E lifetime \in Lifetimes, at \in 1..now :
       /\ issued' = Append(issued, [created |-> at, until |-> at + lifetime,
                                    readable |-> TRUE])
       /\ expiry' = at + lifetime
  /\ token' = Len(issued) + 1
  /\ life' = "running"
  /\ UNCHANGED <<now, mutex, caller>>

\* main exits with status 1.
CreationFails ==
  /\ life = "starting"
  /\ life' = "exited"
  /\ UNCHANGED <<now, token, expiry, mutex, caller, issued>>

-----------------------------------------------------------------------------
(* GetToken. *)

Call(c) ==
  /\ life = "running"
  /\ caller[c] \in {"idle", "returned", "failed"}
  /\ caller' = [caller EXCEPT ![c] = "waiting"]
  /\ UNCHANGED <<now, life, token, expiry, mutex, issued>>

\* Lock, not after the expiry, return the stored token, unlock.
UseStored(c) ==
  /\ caller[c] = "waiting"
  /\ mutex = None
  /\ now <= expiry
  /\ caller' = [caller EXCEPT ![c] = "returned"]
  /\ UNCHANGED <<now, life, token, expiry, mutex, issued>>

\* Faulty variant: the expiry is compared before the lock is taken, which is
\* then held only by the one that logs in.
BeginLoginUnlocked(c) ==
  /\ caller[c] = "waiting"
  /\ now > expiry
  /\ caller' = [caller EXCEPT ![c] = "login"]
  /\ mutex' = c
  /\ UNCHANGED <<now, life, token, expiry, issued>>

\* Lock, after the expiry: refreshToken logs in and keeps the mutex.
BeginLogin(c) ==
  /\ caller[c] = "waiting"
  /\ mutex = None
  /\ now > expiry
  /\ caller' = [caller EXCEPT ![c] = "login"]
  /\ mutex' = c
  /\ UNCHANGED <<now, life, token, expiry, issued>>

\* Faulty variant: the error return forgets the unlock.
LoginFailsNoUnlock(c) ==
  /\ caller[c] = "login"
  /\ caller' = [caller EXCEPT ![c] = "failed"]
  /\ UNCHANGED <<now, life, token, expiry, mutex, issued>>

\* SciCat does not answer with a token.
LoginFails(c) ==
  /\ caller[c] = "login"
  /\ caller' = [caller EXCEPT ![c] = "failed"]
  /\ mutex' = None
  /\ UNCHANGED <<now, life, token, expiry, issued>>

\* SciCat issues a token now, which is stored as soon as it arrives.
TokenIssued(c) ==
  /\ caller[c] = "login"
  /\ Len(issued) < MaxLogins
  /\ \E lifetime \in Lifetimes, readable \in BOOLEAN :
       issued' = Append(issued, [created |-> now, until |-> now + lifetime,
                                 readable |-> readable])
  /\ token' = Len(issued) + 1
  /\ caller' = [caller EXCEPT ![c] = "storing"]
  /\ UNCHANGED <<now, life, expiry, mutex>>

\* Faulty variant: the lifetime counts from the arrival of the answer.
StoreExpiryFromNow(c) ==
  /\ caller[c] = "storing"
  /\ issued[token].readable
  /\ expiry' = now + (issued[token].until - issued[token].created)
  /\ caller' = [caller EXCEPT ![c] = "returned"]
  /\ mutex' = None
  /\ UNCHANGED <<now, life, token, issued>>

\* The expiry is stored and GetToken returns the token, however old it is.
StoreExpiry(c) ==
  /\ caller[c] = "storing"
  /\ issued[token].readable
  /\ expiry' = issued[token].until
  /\ caller' = [caller EXCEPT ![c] = "returned"]
  /\ mutex' = None
  /\ UNCHANGED <<now, life, token, issued>>

\* The answer has no `created` or `expiresIn` that can be parsed: an error,
\* with the new token stored beside the old expiry.
ExpiryUnreadable(c) ==
  /\ caller[c] = "storing"
  /\ ~issued[token].readable
  /\ caller' = [caller EXCEPT ![c] = "failed"]
  /\ mutex' = None
  /\ UNCHANGED <<now, life, token, expiry, issued>>

Lock(c) == UseStored(c) \/ BeginLogin(c)
Answer(c) == LoginFails(c) \/ TokenIssued(c)
Finish(c) == StoreExpiry(c) \/ ExpiryUnreadable(c)

Next ==
  \/ Tick \/ Created \/ CreationFails
  \/ \E c \in Callers : Call(c) \/ Lock(c) \/ Answer(c) \/ Finish(c)

Spec == Init /\ [][Next]_vars

\* SciCat answers every login (the HTTP client has no timeout of its own) and
\* sync.Mutex starves no waiter.
FairSpec ==
  /\ Spec
  /\ \A c \in Callers :
       SF_vars(Lock(c)) /\ WF_vars(Answer(c)) /\ WF_vars(Finish(c))

-----------------------------------------------------------------------------
(* Properties. *)

\* Types; the mutex is held between two steps by the one caller that renews
\* the token, and by nobody else.
TypeOK ==
  /\ now \in Nat
  /\ life \in Life
  /\ issued \in Seq(Token)
  /\ token \in 0..Len(issued)
  /\ expiry \in Nat
  /\ caller \in [Callers -> CallerState]
  /\ mutex \in Callers \cup {None}
  /\ \A c \in Callers : mutex = c <=> caller[c] \in InCall

\* GetToken never returns from the store a token that has expired: the token
\* and the expiry it is judged by belong together whenever they are used,
\* also after a renewal that failed half way.
StoredTokenIsValid ==
  [][\A c \in Callers :
       (caller[c] = "waiting" /\ caller'[c] = "returned") =>
         token > 0 /\ now <= issued[token].until]_vars

\* Callers that find the token expired at the same time log in once: no token
\* is issued while an earlier one, whose expiry was understood, is valid.
OneTokenAtATime ==
  \A s, t \in 1..Len(issued) :
    (s < t /\ issued[s].readable) => issued[s].until < issued[t].created

\* Every call returns a token or an error, although the mutex is held for as
\* long as a login takes.
CallsReturn ==
  \A c \in Callers :
    caller[c] = "waiting" ~> caller[c] \in {"returned", "failed"}

=============================================================================
