----------------------------- MODULE SessionsProofs -----------------------------
(***************************************************************************)
(* Proofs about Sessions for any users, families and requests: however     *)
(* many requests present one refresh token, its family lives on in one.    *)
(***************************************************************************)
EXTENDS Sessions, FiniteSetTheorems, TLAPS

(* A token that could be exchanged, and a request that has exchanged one    *)
(* and not signed the next.                                                *)
Live(t) == t \in tokens /\ t \notin used
Exchanging(r) == calls[r].at \in {"ReadUser", "Sign"}

(* The bounds of the instances, which no code depends on. *)
Bounds == MaxUses \in Nat /\ MaxVersion \in Nat

(* A request presents a token that was signed and can be followed. *)
CallOK(r) ==
    calls[r].at \in Steps => calls[r].token \in tokens /\ calls[r].token.place < MaxUses

IInv ==
    /\ TypeOK
    /\ \A r \in Requests : CallOK(r)
    /\ \A s, t \in tokens : Live(s) /\ Live(t) /\ s.family = t.family => s = t
    /\ \A r \in Requests, t \in tokens :
          Exchanging(r) /\ Live(t) => calls[r].token.family # t.family
    /\ \A q, r \in Requests :
          Exchanging(q) /\ Exchanging(r) /\ calls[q].token.family = calls[r].token.family => q = r

--------------------------------------------------------------------------------
Call == {NoCall} \cup [at: Steps, token: Token, version: 0..MaxVersion]
        \cup [at: {"Reset"}, user: Users, version: 0..MaxVersion]

LEMMA CallFields ==
    ASSUME NEW c \in Call
    PROVE  /\ c.at \in Steps \cup {"None", "Reset"}
           /\ c.at \in Steps <=> c \in [at: Steps, token: Token, version: 0..MaxVersion]
           /\ c.at = "Reset" <=> c \in [at: {"Reset"}, user: Users, version: 0..MaxVersion]
           /\ c.at = "None" <=> c = NoCall
  BY DEF Call, NoCall, Steps

LEMMA Ends ==
    ASSUME TypeOK, NEW r \in Requests, End(r)
    PROVE  /\ calls' \in [Requests -> Call] /\ calls'[r].at = "None"
           /\ \A q \in Requests \ {r} : calls'[q] = calls[q]
  BY DEF TypeOK, End, Call, NoCall

LEMMA Goes ==
    ASSUME TypeOK, NEW r \in Requests, calls[r].at \in Steps, NEW step \in Steps, Step(r, step)
    PROVE  /\ calls' \in [Requests -> Call]
           /\ calls'[r].at = step /\ calls'[r].token = calls[r].token
           /\ \A q \in Requests \ {r} : calls'[q] = calls[q]
  <1>1. calls \in [Requests -> Call]
    BY DEF TypeOK, Call
  <1>2. PICK c : c = [calls[r] EXCEPT !.at = step]
    OBVIOUS
  <1>3. c \in Call /\ c.at = step /\ c.token = calls[r].token
    BY <1>1, <1>2, CallFields DEF Call
  <1>4. calls' = [calls EXCEPT ![r] = c]
    BY <1>1, <1>2 DEF Step
  <1> QED
    BY <1>1, <1>3, <1>4

(* The requests that go on, after a step that signs nothing. *)
LEMMA NothingSigned ==
    ASSUME IInv, TypeOK', UNCHANGED tokens, used \subseteq used',
           \A r \in Requests : CallOK(r)',
           \A r \in Requests : Exchanging(r)' =>
              Exchanging(r) /\ calls'[r].token.family = calls[r].token.family
    PROVE  IInv'
  BY DEF IInv, Live

LEMMA SignInKeeps ==
    ASSUME Bounds, IInv, NEW u \in Users, NEW f \in Families, SignIn(u, f)
    PROVE  IInv'
  <1>n. PICK new : new = [family |-> f, place |-> 0, user |-> u, version |-> version[u]]
    OBVIOUS
  <1>1. new \in Token /\ new.family = f /\ tokens' = tokens \cup {new}
    BY <1>n DEF Bounds, SignIn, IInv, TypeOK, Token
  <1>2. UNCHANGED <<version, used, revoked, calls>> /\ \A t \in tokens : t.family # f
    BY DEF SignIn
  <1>3. TypeOK'
    BY <1>1, <1>2 DEF IInv, TypeOK
  <1>4. \A r \in Requests : CallOK(r)'
    BY <1>1, <1>2 DEF IInv, CallOK
  <1>5. \A r \in Requests : Exchanging(r) => calls[r].token.family # f
    BY <1>2 DEF IInv, CallOK, Exchanging, Steps
  <1> QED
    BY <1>1, <1>2, <1>3, <1>4, <1>5 DEF IInv, Live, Exchanging

LEMMA ConsumeKeeps ==
    ASSUME IInv, NEW r \in Requests, Consume(r)
    PROVE  IInv'
  <1>n. PICK old : old = calls[r].token
    OBVIOUS
  <1>1. /\ calls[r].at = "Consume" /\ old \in tokens /\ old.place < MaxUses
        /\ used' = used \cup {old} /\ UNCHANGED <<version, tokens, revoked>>
    BY <1>n DEF Consume, IInv, CallOK, Steps
  <1>2. PICK step \in {"Revoke", "ReadUser"} :
          Step(r, step) /\ (step = "ReadUser" <=> old \notin used)
    BY <1>n DEF Consume
  <1>3. /\ calls' \in [Requests -> Call] /\ calls'[r].at = step /\ calls'[r].token = old
        /\ \A q \in Requests \ {r} : calls'[q] = calls[q]
    BY <1>n, <1>1, <1>2, Goes DEF IInv, Steps
  <1>4. TypeOK'
    BY <1>1, <1>3 DEF IInv, TypeOK, Call
  <1>5. \A q \in Requests : CallOK(q)'
    BY <1>1, <1>3 DEF IInv, CallOK
  <1>6. CASE step = "Revoke"
    BY <1>1, <1>3, <1>4, <1>5, <1>6, NothingSigned DEF Exchanging
  <1>7. CASE step = "ReadUser"
    <2>1. Live(old) /\ \A q \in Requests : Exchanging(q) => calls[q].token.family # old.family
      BY <1>1, <1>2, <1>7 DEF IInv, Live
    <2>2. \A t \in tokens : Live(t)' => Live(t) /\ t.family # old.family
      BY <1>1, <2>1 DEF IInv, Live
    <2>3. \A q \in Requests : Exchanging(q)' => q = r \/ Exchanging(q)
      BY <1>3 DEF Exchanging
    <2> QED
      BY <1>1, <1>3, <1>4, <1>5, <2>1, <2>2, <2>3 DEF IInv
  <1> QED
    BY <1>2, <1>6, <1>7

LEMMA SignKeeps ==
    ASSUME Bounds, IInv, NEW r \in Requests, Sign(r)
    PROVE  IInv'
  <1>n. PICK old : old = calls[r].token
    OBVIOUS
  <1>m. PICK new : new = [old EXCEPT !.place = old.place + 1, !.version = calls[r].version]
    OBVIOUS
  <1>1. /\ calls[r].at = "Sign" /\ Exchanging(r) /\ old.place < MaxUses
        /\ calls[r] \in [at: Steps, token: Token, version: 0..MaxVersion]
    <2>1. calls[r] \in Call /\ calls[r].at = "Sign"
      BY DEF Sign, IInv, TypeOK, Call
    <2> QED
      BY <1>n, <2>1, CallFields DEF IInv, CallOK, Exchanging, Steps
  <1>2. old \in Token /\ calls[r].version \in 0..MaxVersion
    BY <1>n, <1>1
  <1>3. new \in Token /\ new.family = old.family
    <2>1. old.place + 1 \in 0..MaxUses
      BY <1>1, <1>2 DEF Bounds, Token
    <2>2. old = [family |-> old.family, place |-> old.place, user |-> old.user,
                 version |-> old.version]
      BY <1>2 DEF Token
    <2>3. new = [family |-> old.family, place |-> old.place + 1, user |-> old.user,
                 version |-> calls[r].version]
      BY <1>m, <2>2
    <2> QED
      BY <1>2, <2>1, <2>3 DEF Token
  <1>4. tokens' = tokens \cup {new} /\ End(r) /\ UNCHANGED <<version, used, revoked>>
    BY <1>n, <1>m, <1>2 DEF Sign, Token
  <1>5. /\ calls' \in [Requests -> Call] /\ calls'[r].at = "None"
        /\ \A q \in Requests \ {r} : calls'[q] = calls[q]
    BY <1>4, Ends DEF IInv
  <1>6. TypeOK'
    BY <1>3, <1>4, <1>5 DEF IInv, TypeOK, Call
  <1>7. \A q \in Requests : CallOK(q)'
    BY <1>4, <1>5 DEF IInv, CallOK, Steps
  <1>8. /\ \A t \in tokens : Live(t) => t.family # new.family
        /\ \A q \in Requests \ {r} : Exchanging(q) => calls[q].token.family # new.family
    BY <1>n, <1>1, <1>3 DEF IInv
  <1>9. /\ \A t \in tokens' : Live(t)' => t = new \/ (t \in tokens /\ Live(t))
        /\ \A q \in Requests : Exchanging(q)' => q # r /\ Exchanging(q)
    BY <1>4, <1>5 DEF Live, Exchanging
  <1> QED
    BY <1>4, <1>5, <1>6, <1>7, <1>8, <1>9 DEF IInv

(* The steps that exchange nothing. *)
LEMMA OtherKeeps ==
    ASSUME Bounds, IInv, NEW r \in Requests,
           \/ \E t \in tokens : BeginRefresh(r, t)
           \/ ReadUser(r) \/ Revoke(r) \/ UpdatePassword(r)
           \/ \E u \in Users : BeginReset(r, u)
    PROVE  IInv'
  <1>0. calls \in [Requests -> Call] /\ calls[r] \in Call
    BY DEF IInv, TypeOK, Call
  <1>1. UNCHANGED <<tokens, used>>
    BY DEF BeginRefresh, ReadUser, Revoke, UpdatePassword, BeginReset
  <1>2. ASSUME calls' \in [Requests -> Call], version' \in [Users -> 0..MaxVersion],
               revoked' \subseteq Families, CallOK(r)',
               \A q \in Requests \ {r} : calls'[q] = calls[q],
               Exchanging(r)' => Exchanging(r) /\ calls'[r].token.family = calls[r].token.family
        PROVE  IInv'
    <2>1. TypeOK'
      BY <1>1, <1>2 DEF IInv, TypeOK, Call
    <2>2. \A q \in Requests : CallOK(q)'
      BY <1>1, <1>2 DEF IInv, CallOK
    <2> QED
      BY <1>1, <1>2, <2>1, <2>2, NothingSigned DEF Exchanging
  <1>3. CASE \E t \in tokens : BeginRefresh(r, t)
    <2>1. PICK t \in tokens : BeginRefresh(r, t)
      BY <1>3
    <2>2. PICK c : c = [at |-> "Consume", token |-> t, version |-> 0]
      OBVIOUS
    <2>3. c \in Call /\ c.at = "Consume" /\ c.token = t
      BY <2>2 DEF Bounds, IInv, TypeOK, Call, Steps
    <2>4. /\ calls' = [calls EXCEPT ![r] = c] /\ t.place < MaxUses
          /\ UNCHANGED <<version, tokens, revoked>>
      BY <2>1, <2>2 DEF BeginRefresh
    <2>5. /\ calls' \in [Requests -> Call] /\ calls'[r] = c
          /\ \A q \in Requests \ {r} : calls'[q] = calls[q]
      BY <1>0, <2>3, <2>4
    <2> QED
      BY <1>2, <2>3, <2>4, <2>5 DEF IInv, TypeOK, CallOK, Exchanging
  <1>4. CASE ReadUser(r)
    <2>1. PICK current : current = version[calls[r].token.user]
      OBVIOUS
    <2>2. PICK step \in {"Sign", "Revoke"} :
             calls' = [calls EXCEPT ![r].version = current, ![r].at = step]
      BY <1>4, <2>1 DEF ReadUser
    <2>3. /\ calls[r].at = "ReadUser" /\ UNCHANGED <<version, revoked>>
          /\ calls[r] \in [at: Steps, token: Token, version: 0..MaxVersion]
      BY <1>0, <1>4, CallFields DEF ReadUser, Steps
    <2>4. current \in 0..MaxVersion
      BY <2>1, <2>3 DEF IInv, TypeOK, Token
    <2>5. PICK c : c = [calls[r] EXCEPT !.version = current, !.at = step]
      OBVIOUS
    <2>6. c \in Call /\ c.token = calls[r].token /\ c.at = step
      BY <2>3, <2>4, <2>5 DEF Call, Steps
    <2>7. /\ calls' \in [Requests -> Call] /\ calls'[r] = c
          /\ \A q \in Requests \ {r} : calls'[q] = calls[q]
      BY <1>0, <2>2, <2>5, <2>6
    <2>8. calls[r].token \in tokens /\ calls[r].token.place < MaxUses
      BY <2>3 DEF IInv, CallOK, Steps
    <2> QED
      BY <1>1, <1>2, <2>3, <2>6, <2>7, <2>8 DEF IInv, TypeOK, CallOK, Exchanging
  <1>5. CASE Revoke(r)
    <2>1. /\ calls[r].at = "Revoke" /\ End(r) /\ UNCHANGED version
          /\ revoked' = revoked \cup {calls[r].token.family}
      BY <1>5 DEF Revoke
    <2>2. revoked' \subseteq Families
      BY <1>0, <2>1, CallFields DEF IInv, TypeOK, Steps, Token
    <2> QED
      BY <1>2, <2>1, <2>2, Ends DEF IInv, TypeOK, CallOK, Exchanging, Steps
  <1>6. CASE UpdatePassword(r)
    <2>1. /\ calls[r].at = "Reset" /\ End(r) /\ UNCHANGED revoked
          /\ version' = [version EXCEPT ![calls[r].user] = calls[r].version]
      BY <1>6 DEF UpdatePassword
    <2>2. version' \in [Users -> 0..MaxVersion]
      BY <1>0, <2>1, CallFields DEF IInv, TypeOK
    <2> QED
      BY <1>2, <2>1, <2>2, Ends DEF IInv, TypeOK, CallOK, Exchanging, Steps
  <1>7. CASE \E u \in Users : BeginReset(r, u)
    <2>1. PICK u \in Users : BeginReset(r, u)
      BY <1>7
    <2>2. PICK c : c = [at |-> "Reset", user |-> u, version |-> version[u] + 1]
      OBVIOUS
    <2>3. version[u] + 1 \in 0..MaxVersion
      BY <2>1 DEF Bounds, BeginReset, IInv, TypeOK
    <2>4. c \in Call /\ c.at = "Reset"
      BY <2>2, <2>3 DEF Call
    <2>5. calls' = [calls EXCEPT ![r] = c] /\ UNCHANGED <<version, revoked>>
      BY <2>1, <2>2 DEF BeginReset
    <2>6. /\ calls' \in [Requests -> Call] /\ calls'[r] = c
          /\ \A q \in Requests \ {r} : calls'[q] = calls[q]
      BY <1>0, <2>4, <2>5
    <2> QED
      BY <1>2, <2>4, <2>5, <2>6 DEF IInv, TypeOK, CallOK, Exchanging, Steps
  <1> QED
    BY <1>3, <1>4, <1>5, <1>6, <1>7

--------------------------------------------------------------------------------
(* Families, tokens and requests stay consistent, whoever refreshes, logs  *)
(* out or resets a password together.                                      *)
THEOREM Invariant == Bounds => (Spec => []IInv)
  <1> SUFFICES ASSUME Bounds PROVE Spec => []IInv
    OBVIOUS
  <1>1. Init => IInv
    BY DEF Bounds, Init, IInv, TypeOK, CallOK, Live, Exchanging, NoCall, Steps
  <1>2. IInv /\ [Next]_sessionVars => IInv'
    <2> SUFFICES ASSUME IInv, [Next]_sessionVars PROVE IInv'
      OBVIOUS
    <2>1. CASE UNCHANGED sessionVars
      BY <2>1 DEF sessionVars, IInv, TypeOK, CallOK, Live, Exchanging
    <2>2. ASSUME NEW t \in tokens, Logout(t) PROVE IInv'
      <3>1. UNCHANGED <<version, tokens, used, calls>> /\ revoked' \subseteq Families
        BY <2>2 DEF Logout, IInv, TypeOK, Token
      <3> QED
        BY <3>1 DEF IInv, TypeOK, CallOK, Live, Exchanging
    <2> QED
      BY <2>1, <2>2, SignInKeeps, ConsumeKeeps, SignKeeps, OtherKeeps DEF Next
  <1> QED
    BY <1>1, <1>2, PTL DEF Spec

(* A family of refresh tokens never has two that could be exchanged: SET   *)
(* NX in consume_refresh_token decides among the requests that present one. *)
THEOREM OneLiveToken == Bounds => (Spec => []OneLiveTokenPerFamily)
  <1> SUFFICES ASSUME Bounds PROVE Spec => []OneLiveTokenPerFamily
    OBVIOUS
  <1>1. IInv => OneLiveTokenPerFamily
    <2> SUFFICES ASSUME IInv, NEW f \in Families
                 PROVE  Cardinality({t \in tokens : t.family = f /\ t \notin used})
                           + Cardinality(Rotating(f)) <= 1
      BY DEF OneLiveTokenPerFamily
    <2> DEFINE T == {t \in tokens : t.family = f /\ t \notin used}
               R == Rotating(f)
    <2>1. \A s, t \in T : s = t
      BY DEF IInv, Live
    <2>2. \A q, r \in R : q = r
      BY DEF IInv, Rotating, Exchanging
    <2>3. T = {} \/ R = {}
      BY DEF IInv, Live, Rotating, Exchanging
    <2>4. ASSUME NEW S, \A s, t \in S : s = t PROVE S = {} \/ \E s : S = {s}
      BY <2>4
    <2> HIDE DEF T, R
    <2>5. (T = {} \/ \E s : T = {s}) /\ (R = {} \/ \E s : R = {s})
      BY <2>1, <2>2, <2>4
    <2>6. ASSUME NEW S, S = {} \/ \E s : S = {s} PROVE Cardinality(S) \in 0..1
      <3>1. CASE S = {}
        BY <3>1, FS_EmptySet
      <3>2. CASE \E s : S = {s}
        <4>1. PICK s : S = {s}
          BY <3>2
        <4>2. Cardinality({s}) = 1
          BY FS_Singleton
        <4> QED
          BY <4>1, <4>2
      <3> QED
        BY <2>6, <3>1, <3>2
    <2>7. Cardinality(T) \in 0..1 /\ Cardinality(R) \in 0..1
      BY <2>5, <2>6
    <2>8. Cardinality({}) = 0
      BY FS_EmptySet
    <2>9. Cardinality(T) + Cardinality(R) <= 1
      <3>1. CASE T = {}
        <4>1. Cardinality(T) = 0
          BY <3>1, <2>8
        <4> QED
          BY <4>1, <2>7
      <3>2. CASE R = {}
        <4>1. Cardinality(R) = 0
          BY <3>2, <2>8
        <4> QED
          BY <4>1, <2>7
      <3> QED
        BY <2>3, <3>1, <3>2
    <2> QED
      BY <2>9 DEF T, R
  <1> QED
    BY <1>1, Invariant, PTL

================================================================================
