------------------------- MODULE ServiceUserProofs -------------------------
(***************************************************************************)
(* The properties of the service user's token for every set of callers,    *)
(* every lifetime and every duration and outcome of the logins.            *)
(***************************************************************************)
EXTENDS ServiceUser, TLAPS

-----------------------------------------------------------------------------
(* The strengthening. *)

\* The stored token is the last one issued, and none is issued in the future.
LastToken ==
  /\ now > 0
  /\ token = Len(issued)
  /\ \A t \in 1..Len(issued) : /\ issued[t].created <= now
                               /\ issued[t].created <= issued[t].until
  /\ life # "running" => /\ issued = <<>>
                         /\ expiry = 0
                         /\ \A c \in Callers : caller[c] = "idle"

\* A caller logs in only after the stored expiry; it stores the token at
\* once and the expiry last.
LoginIsLate ==
  \A c \in Callers :
    /\ caller[c] = "login" => now > expiry
    /\ caller[c] = "storing" => token > 0 /\ expiry < issued[token].created

\* The expiry is that of the stored token, unless this one's is not known.
ExpiryOfToken ==
  (\A c \in Callers : caller[c] # "storing") =>
    /\ expiry > 0 => token > 0
    /\ token > 0 => \/ expiry = issued[token].until
                    \/ expiry < issued[token].created

\* Every token whose expiry could be read ends by the stored expiry, except
\* the one whose expiry is about to be stored.
EarlierEnded ==
  \A t \in 1..Len(issued) :
    issued[t].readable =>
      \/ issued[t].until <= expiry
      \/ t = token /\ \E c \in Callers : caller[c] = "storing"

IInv ==
  TypeOK /\ LastToken /\ LoginIsLate /\ ExpiryOfToken /\ EarlierEnded
    /\ OneTokenAtATime

LEMMA InitIInv == Init => IInv
BY ServiceUserAssumption
   DEF Init, IInv, TypeOK, Life, CallerState, InCall, LastToken, LoginIsLate,
       ExpiryOfToken, EarlierEnded, OneTokenAtATime

\* What Append does to the sequence of issued tokens.
LEMMA Issue ==
  ASSUME TypeOK, NEW tok \in Token, issued' = Append(issued, tok)
  PROVE  /\ issued' \in Seq(Token)
         /\ Len(issued') = Len(issued) + 1
         /\ \A t \in 1..Len(issued) : issued'[t] = issued[t]
         /\ issued'[Len(issued) + 1] = tok
BY DEF TypeOK

LEMMA NextIInv == IInv /\ [Next]_vars => IInv'
<1> SUFFICES ASSUME IInv, [Next]_vars PROVE IInv'
    OBVIOUS
<1> USE ServiceUserAssumption
    DEF IInv, TypeOK, Life, CallerState, InCall, LastToken, LoginIsLate,
        ExpiryOfToken, EarlierEnded, OneTokenAtATime
<1>0. \A t \in 1..Len(issued) : issued[t] \in Token
  OBVIOUS
<1>1. CASE Tick
  BY <1>0, <1>1 DEF Tick, Token
<1>2. CASE Created
  <2>1. PICK lifetime \in Lifetimes, at \in 1..now :
          /\ issued' = Append(issued, [created |-> at, until |-> at + lifetime,
                                        readable |-> TRUE])
          /\ expiry' = at + lifetime
    BY <1>2 DEF Created
  <2> DEFINE tok == [created |-> at, until |-> at + lifetime, readable |-> TRUE]
  <2>2. tok \in Token /\ at \in Nat /\ at + lifetime \in Nat
        /\ at <= at + lifetime
    BY <2>1 DEF Token
  <2>3. issued = <<>> /\ Len(issued) = 0
    BY <1>2 DEF Created
  <2>4. issued' \in Seq(Token) /\ Len(issued') = 1 /\ issued'[1] = tok
    <3>1. issued' = Append(issued, tok)
      BY <2>1
    <3> HIDE DEF tok
    <3> QED
      BY <2>2, <2>3, <3>1, Issue
  <2>5. /\ token' = 1 /\ life' = "running"
        /\ UNCHANGED <<now, mutex, caller>>
    BY <1>2, <2>3 DEF Created
  <2> QED
    BY <1>2, <2>1, <2>2, <2>3, <2>4, <2>5 DEF Created
<1>3. CASE CreationFails
  BY <1>3 DEF CreationFails
<1>4. ASSUME NEW c \in Callers, Call(c) PROVE IInv'
  BY <1>4 DEF Call
<1>5. ASSUME NEW c \in Callers, UseStored(c) PROVE IInv'
  BY <1>5 DEF UseStored
<1>6. ASSUME NEW c \in Callers, BeginLogin(c) PROVE IInv'
  BY <1>6 DEF BeginLogin
<1>7. ASSUME NEW c \in Callers, LoginFails(c) PROVE IInv'
  BY <1>7 DEF LoginFails
<1>8. ASSUME NEW c \in Callers, TokenIssued(c) PROVE IInv'
  <2>1. PICK tok \in Token :
          /\ issued' = Append(issued, tok)
          /\ tok.created = now /\ tok.created <= tok.until
    BY <1>8 DEF TokenIssued, Token
  <2>2. /\ issued' \in Seq(Token) /\ Len(issued') = Len(issued) + 1
        /\ \A t \in 1..Len(issued) : issued'[t] = issued[t]
        /\ issued'[Len(issued) + 1] = tok
    BY <2>1, Issue
  <2>3. /\ caller[c] = "login" /\ caller' = [caller EXCEPT ![c] = "storing"]
        /\ token' = Len(issued) + 1
        /\ UNCHANGED <<now, life, expiry, mutex>>
    BY <1>8 DEF TokenIssued
  <2>4. \A d \in Callers \ {c} : caller[d] \notin InCall
    BY <2>3
  <2>5. TypeOK'
    BY <2>2, <2>3
  <2>6. LastToken' /\ LoginIsLate' /\ ExpiryOfToken'
    BY <1>0, <2>1, <2>2, <2>3, <2>4
  <2>7. \A t \in 1..Len(issued) : issued[t].readable => issued[t].until < now
    BY <1>0, <2>3, <2>4 DEF Token
  <2>8. EarlierEnded' /\ OneTokenAtATime'
    BY <1>0, <2>1, <2>2, <2>3, <2>7 DEF Token
  <2> QED
    BY <2>5, <2>6, <2>8
<1>9. ASSUME NEW c \in Callers, StoreExpiry(c) PROVE IInv'
  <2>1. /\ caller[c] = "storing" /\ caller' = [caller EXCEPT ![c] = "returned"]
        /\ issued[token].readable /\ expiry' = issued[token].until
        /\ mutex' = None
        /\ UNCHANGED <<now, life, token, issued>>
    BY <1>9 DEF StoreExpiry
  <2>2. \A d \in Callers \ {c} : caller[d] \notin InCall
    BY <2>1
  <2>3. /\ token \in 1..Len(issued) /\ expiry < issued[token].created
        /\ issued[token].created \in Nat /\ issued[token].until \in Nat
    BY <1>0, <2>1 DEF Token
  <2>4. \A t \in 1..Len(issued) :
          issued[t].readable => issued[t].until <= expiry'
    <3>1. \A t \in 1..Len(issued) :
            issued[t].readable /\ t # token =>
              issued[t].until < issued[token].created
      BY <2>1, <2>3
    <3> QED
      BY <1>0, <2>1, <2>3, <3>1 DEF Token
  <2> QED
    BY <2>1, <2>2, <2>3, <2>4
<1>10. ASSUME NEW c \in Callers, ExpiryUnreadable(c) PROVE IInv'
  BY <1>0, <1>10 DEF ExpiryUnreadable, Token
<1>11. CASE UNCHANGED vars
  BY <1>11 DEF vars
<1> QED
  BY <1>1, <1>2, <1>3, <1>4, <1>5, <1>6, <1>7, <1>8, <1>9, <1>10, <1>11
     DEF Next, Lock, Answer, Finish

-----------------------------------------------------------------------------
(* The theorems. *)

\* In every reachable state the mutex, its one holder and the stored token fit
\* together.
THEOREM ServiceUserInvariant == Spec => []IInv
BY InitIInv, NextIInv, PTL DEF Spec

\* The mutex is held by the one caller that renews the token, or by nobody.
THEOREM ServiceUserTypeCorrect == Spec => []TypeOK
BY ServiceUserInvariant, PTL DEF IInv

\* No token is issued while an earlier one, whose expiry is known, is valid:
\* concurrent calls of GetToken cause one login.
THEOREM LoginsDoNotOverlap == Spec => []OneTokenAtATime
BY ServiceUserInvariant, PTL DEF IInv

\* GetToken returns a stored token only while it is valid.
THEOREM StoredTokenValid == Spec => StoredTokenIsValid
<1>1. ASSUME IInv, [Next]_vars, NEW c \in Callers,
             caller[c] = "waiting", caller'[c] = "returned"
      PROVE  token > 0 /\ now <= issued[token].until
  <2>1. UseStored(c)
    BY <1>1 DEF IInv, TypeOK, Next, vars, Tick, Created, CreationFails, Call,
       Lock, Answer, Finish, UseStored, BeginLogin, LoginFails, TokenIssued,
       StoreExpiry, ExpiryUnreadable
  <2>2. mutex = None /\ now <= expiry
    BY <2>1 DEF UseStored
  <2>3. \A d \in Callers : caller[d] # "storing"
    BY <1>1, <2>2, ServiceUserAssumption DEF IInv, TypeOK, InCall
  <2>4. /\ token > 0
        /\ \/ expiry = issued[token].until
           \/ expiry < issued[token].created
    BY <1>1, <2>2, <2>3 DEF IInv, TypeOK, LastToken, ExpiryOfToken
  <2>5. token \in 1..Len(issued) /\ issued[token].created <= now
    BY <1>1, <2>4 DEF IInv, TypeOK, LastToken
  <2>6. issued[token] \in Token
    BY <1>1, <2>5 DEF IInv, TypeOK
  <2> QED
    BY <1>1, <2>2, <2>4, <2>5, <2>6 DEF IInv, TypeOK, Token
<1>2. IInv /\ [Next]_vars =>
        \A c \in Callers :
          (caller[c] = "waiting" /\ caller'[c] = "returned") =>
            token > 0 /\ now <= issued[token].until
  BY <1>1
<1> QED
  BY <1>2, ServiceUserInvariant, PTL DEF Spec, StoredTokenIsValid

=============================================================================
