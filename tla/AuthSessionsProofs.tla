-------------------------- MODULE AuthSessionsProofs --------------------------
(***************************************************************************)
(* Machine-checked proofs about AuthSessions, for any emails, browsers and *)
(* terminal clients, any lifetimes, and any bound of the run.              *)
(***************************************************************************)
EXTENDS AuthSessions, FiniteSetTheorems, TLAPS

------------------------------------------------------------------------------
(* The inductive invariant. *)

(* Identities are drawn, one per email: minted or in the table.            *)
MintedInv ==
    /\ \A u \in users : u.id # 0 /\ u.id <= drawn.user
    /\ \A e \in Emails : minted[e] <= drawn.user
    /\ \A e, f \in Emails : minted[e] = minted[f] /\ minted[e] # 0 => e = f
    /\ \A e \in Emails, u \in users : u.id = minted[e] => u.email = e

(* A sign-in under way inserts what was minted for its email, or signs for *)
(* a row of the table; the token it checks is a session's.                 *)
RequestOk(r, us, m) ==
    /\ r.step = "insert" => r.email \in Emails /\ r.user # 0 /\ r.user = m[r.email]
    /\ r.step = "sign" => [id |-> r.user, email |-> r.email] \in us
    /\ r.jti <= MaxSessions
ReqInv == \A b \in Browsers : RequestOk(req[b], users, minted)

(* Only tokens of browser sessions are revoked.                            *)
SessionInv ==
    /\ \A b \in Browsers : browser[b].session <= MaxSessions
    /\ \A j \in revoked : j <= MaxSessions

(* A pair's token was signed, with an expiry the client dates later by no  *)
(* more than the answer took.                                              *)
Signed(j, exp) == j > MaxSessions /\ \E t \in jwts : t.jti = j /\ exp <= t.exp
TuiInv ==
    \A d \in Devices :
        /\ tui[d].phase = "answered" => Signed(tui[d].jti, tui[d].since + AccessTtl)
        /\ keyring[d].jti # 0 =>
              /\ keyring[d].jti > MaxSessions
              /\ \E t \in jwts : t.jti = keyring[d].jti /\ keyring[d].exp <= t.exp + Timeout

IInv == TypeOK /\ OneIdentityPerEmail /\ MintedInv /\ ReqInv /\ SessionInv /\ TuiInv

------------------------------------------------------------------------------
(* Lemmas about the state. *)

LEMMA Naturals_ ==
    ASSUME AuthAssumption
    PROVE  /\ SessionTtl \in Nat /\ AccessTtl \in Nat /\ RefreshTtl \in Nat
           /\ CodeTtl \in Nat /\ Skew \in Nat /\ Timeout \in Nat
           /\ MaxNow \in Nat /\ MaxEra \in Nat /\ MaxUsers \in Nat
           /\ MaxCodes \in Nat /\ MaxSessions \in Nat /\ MaxPairs \in Nat
BY DEF AuthAssumption

(* What was drawn is in range, and so is what is drawn next.               *)
LEMMA Draws ==
    ASSUME AuthAssumption, TypeOK
    PROVE  /\ drawn.user \in 0 .. MaxUsers /\ drawn.code \in 0 .. MaxCodes
           /\ drawn.session \in 0 .. MaxSessions /\ drawn.pair \in 0 .. MaxPairs
           /\ now \in 0 .. MaxNow
           /\ DrawUser => /\ drawn' \in [user: Ids, code: Codes, session: 0 .. MaxSessions,
                                         pair: 0 .. MaxPairs]
                          /\ drawn'.user = drawn.user + 1 /\ drawn'.user \in Ids
           /\ DrawCode => /\ drawn' \in [user: Ids, code: Codes, session: 0 .. MaxSessions,
                                         pair: 0 .. MaxPairs]
                          /\ drawn'.code \in Codes /\ drawn'.user = drawn.user
           /\ DrawSession => /\ drawn' \in [user: Ids, code: Codes, session: 0 .. MaxSessions,
                                            pair: 0 .. MaxPairs]
                             /\ drawn'.session \in 0 .. MaxSessions
                             /\ drawn'.user = drawn.user
           /\ DrawPair => /\ drawn' \in [user: Ids, code: Codes, session: 0 .. MaxSessions,
                                         pair: 0 .. MaxPairs]
                          /\ drawn'.pair \in 1 .. MaxPairs
                          /\ drawn'.user = drawn.user
<1>. DEFINE T == [user: Ids, code: Codes, session: 0 .. MaxSessions, pair: 0 .. MaxPairs]
<1>1. drawn \in T
  BY DEF TypeOK
<1>2. /\ drawn.user \in 0 .. MaxUsers /\ drawn.code \in 0 .. MaxCodes
      /\ drawn.session \in 0 .. MaxSessions /\ drawn.pair \in 0 .. MaxPairs
  BY <1>1 DEF Ids, Codes
<1>3. ASSUME DrawUser PROVE drawn' \in T /\ drawn'.user = drawn.user + 1 /\ drawn'.user \in Ids
  <2>1. drawn.user + 1 \in Ids
    BY <1>2, <1>3, Naturals_ DEF DrawUser, Ids
  <2>. QED BY <1>1, <1>3, <2>1 DEF DrawUser
<1>4. ASSUME DrawCode PROVE drawn' \in T /\ drawn'.code \in Codes /\ drawn'.user = drawn.user
  <2>1. drawn.code + 1 \in Codes
    BY <1>2, <1>4, Naturals_ DEF DrawCode, Codes
  <2>. QED BY <1>1, <1>4, <2>1 DEF DrawCode
<1>5. ASSUME DrawSession
      PROVE  drawn' \in T /\ drawn'.session \in 0 .. MaxSessions /\ drawn'.user = drawn.user
  <2>1. drawn.session + 1 \in 0 .. MaxSessions
    BY <1>2, <1>5, Naturals_ DEF DrawSession
  <2>. QED BY <1>1, <1>5, <2>1 DEF DrawSession
<1>6. ASSUME DrawPair
      PROVE  drawn' \in T /\ drawn'.pair \in 1 .. MaxPairs /\ drawn'.user = drawn.user
  <2>1. drawn.pair + 1 \in 0 .. MaxPairs /\ drawn.pair + 1 \in 1 .. MaxPairs
    BY <1>2, <1>6, Naturals_ DEF DrawPair
  <2>. QED BY <1>1, <1>6, <2>1 DEF DrawPair
<1>7. now \in 0 .. MaxNow
  BY DEF TypeOK
<1>. QED BY <1>2, <1>3, <1>4, <1>5, <1>6, <1>7

LEMMA InitHolds == AuthAssumption /\ Init => IInv
<1>. SUFFICES ASSUME AuthAssumption, Init PROVE IInv
  OBVIOUS
<1>1. 0 \in Ids /\ 0 \in Codes /\ 0 \in Jtis /\ 0 \in Times /\ 0 \in 0 .. MaxNow
      /\ 0 \in 0 .. MaxEra /\ 0 \in 0 .. MaxSessions /\ 0 \in 0 .. MaxPairs
  BY Naturals_ DEF Ids, Codes, Jtis, Times
<1>2. NewBrowser \in Browser /\ NoRequest \in Request /\ TuiOff \in Tui
      /\ NoTokens \in Tokens /\ NotRefreshing \in Refreshing
  BY <1>1 DEF NewBrowser, Browser, NoRequest, Request, TuiOff, Tui, NoTokens, Tokens,
              NotRefreshing, Refreshing
<1>3. TypeOK
  BY <1>1, <1>2 DEF Init, TypeOK
<1>4. MintedInv /\ OneIdentityPerEmail
  BY Naturals_ DEF Init, MintedInv, OneIdentityPerEmail
<1>5. ReqInv /\ SessionInv
  BY Naturals_ DEF Init, ReqInv, RequestOk, SessionInv, NoRequest, NewBrowser
<1>6. TuiInv
  BY DEF Init, TuiInv, TuiOff, NoTokens
<1>. QED BY <1>3, <1>4, <1>5, <1>6 DEF IInv

------------------------------------------------------------------------------
(* Lemmas about what a step leaves alone. *)

(* A step that adds no user and no identity, and signs tokens for users of *)
(* the table only.                                                         *)
LEMMA UsersAlone ==
    ASSUME IInv, UNCHANGED <<users, minted>>, drawn'.user = drawn.user,
           \A t \in jwts' : t \in jwts \/ [id |-> t.user, email |-> t.email] \in users
    PROVE  OneIdentityPerEmail' /\ MintedInv'
BY DEF IInv, OneIdentityPerEmail, MintedInv

(* A request that is put or left in its place keeps the others.            *)
LEMMA RequestPut ==
    ASSUME IInv, users \subseteq users',
           \A e \in Emails : minted[e] # 0 => minted'[e] = minted[e],
           NEW b \in Browsers, NEW r \in Request,
           req' = [req EXCEPT ![b] = r],
           RequestOk(r, users', minted')
    PROVE  req' \in [Browsers -> Request] /\ ReqInv'
<1>1. req' \in [Browsers -> Request]
  BY DEF IInv, TypeOK
<1>2. ASSUME NEW c \in Browsers PROVE RequestOk(req'[c], users', minted')
  <2>1. CASE c = b
    BY <2>1 DEF IInv, TypeOK
  <2>2. CASE c # b
    <3>1. req'[c] = req[c] /\ RequestOk(req[c], users, minted)
      BY <2>2 DEF IInv, TypeOK, ReqInv
    <3>. QED BY <3>1 DEF RequestOk
  <2>. QED BY <2>1, <2>2
<1>. QED BY <1>1, <1>2 DEF ReqInv

LEMMA RequestsAlone ==
    ASSUME IInv, UNCHANGED <<users, minted, req>>
    PROVE  ReqInv'
BY DEF IInv, ReqInv

LEMMA SessionsAlone ==
    ASSUME IInv, UNCHANGED <<browser, revoked>>
    PROVE  SessionInv'
BY DEF IInv, SessionInv

(* Tokens stay signed.                                                     *)
LEMMA TuiAlone ==
    ASSUME IInv, jwts \subseteq jwts', UNCHANGED <<tui, keyring>>
    PROVE  TuiInv'
BY DEF IInv, TuiInv, Signed

(* The terminal client goes to another phase than "answered".              *)
LEMMA TuiPut ==
    ASSUME IInv, jwts \subseteq jwts', keyring' = keyring,
           NEW d \in Devices, NEW s \in Tui, s.phase # "answered",
           tui' = [tui EXCEPT ![d] = s]
    PROVE  tui' \in [Devices -> Tui] /\ TuiInv'
<1>1. tui' \in [Devices -> Tui]
  BY DEF IInv, TypeOK
<1>2. \A c \in Devices : tui'[c].phase = "answered" => tui'[c] = tui[c]
  BY DEF IInv, TypeOK
<1>. QED BY <1>1, <1>2 DEF IInv, TuiInv, Signed

LEMMA NoRequestOk ==
    ASSUME AuthAssumption
    PROVE  /\ NoRequest \in Request
           /\ \A us, m : RequestOk(NoRequest, us, m)
BY Naturals_ DEF NoRequest, Request, RequestOk, Ids, Jtis

------------------------------------------------------------------------------
(* Browser sign-in. *)

LEMMA GoogleStartKeeps ==
    ASSUME AuthAssumption, IInv, NEW b \in Browsers, GoogleStart(b) PROVE IInv'
<1>1. browser \in [Browsers -> Browser]
  BY DEF IInv, TypeOK
<1>2. browser' \in [Browsers -> Browser]
      /\ \A c \in Browsers : browser'[c].session = browser[c].session
  BY <1>1 DEF GoogleStart, Browser
<1>3. UNCHANGED <<now, era, drawn, users, jwts, minted, revoked, codes, refresh,
                  req, tui, keyring, ref>>
  BY DEF GoogleStart, clock, memory
<1>4. TypeOK'
  BY <1>2, <1>3 DEF IInv, TypeOK
<1>5. SessionInv'
  BY <1>2, <1>3 DEF IInv, SessionInv
<1>. QED BY <1>3, <1>4, <1>5, UsersAlone, RequestsAlone, TuiAlone DEF IInv

(* What upsertUserByEmail does before its insert.                          *)
LEMMA UpsertKeeps ==
    ASSUME AuthAssumption, IInv, NEW b \in Browsers, NEW e \in Emails,
           req[b].step = "idle", Upsert(b, e),
           UNCHANGED <<now, era, users, jwts, revoked, codes, refresh, browser, tui,
                       keyring, ref>>
    PROVE  IInv'
<1>0. /\ users \in SUBSET UserRow /\ minted \in [Emails -> Ids]
      /\ drawn.user \in Nat /\ 0 \in Jtis /\ 0 <= MaxSessions
  BY Draws, Naturals_ DEF IInv, TypeOK, Jtis
<1>. DEFINE R(step, u) == [step |-> step, user |-> u, email |-> e, jti |-> 0]
<1>1. \A u \in Ids : R("sign", u) \in Request /\ R("insert", u) \in Request
  BY <1>0 DEF Request
<1>2. CASE \E u \in users : u.email = e
  <2>1. PICK u \in users : u.email = e /\ req' = [req EXCEPT ![b] = R("sign", u.id)]
        /\ UNCHANGED <<minted, drawn>>
    BY <1>2 DEF Upsert
  <2>2. u.id \in Ids /\ [id |-> u.id, email |-> u.email] = u
    BY <1>0 DEF UserRow
  <2>3. RequestOk(R("sign", u.id), users', minted')
    BY <1>0, <2>1, <2>2 DEF RequestOk
  <2>4. R("sign", u.id) \in Request
    BY <1>1, <2>2
  <2>. HIDE DEF R
  <2>5. req' \in [Browsers -> Request] /\ ReqInv'
    BY <2>1, <2>3, <2>4, RequestPut
  <2>6. TypeOK'
    BY <2>1, <2>5 DEF IInv, TypeOK
  <2>. QED BY <2>1, <2>5, <2>6, UsersAlone, SessionsAlone, TuiAlone DEF IInv
<1>3. CASE (\A u \in users : u.email # e) /\ minted[e] # 0
  <2>1. req' = [req EXCEPT ![b] = R("insert", minted'[e])] /\ UNCHANGED <<minted, drawn>>
    BY <1>3 DEF Upsert
  <2>2. RequestOk(R("insert", minted[e]), users', minted')
    BY <1>0, <1>3, <2>1 DEF RequestOk
  <2>3. R("insert", minted[e]) \in Request
    BY <1>0, <1>1
  <2>. HIDE DEF R
  <2>4. req' \in [Browsers -> Request] /\ ReqInv'
    BY <2>1, <2>2, <2>3, RequestPut
  <2>5. TypeOK'
    BY <2>1, <2>4 DEF IInv, TypeOK
  <2>. QED BY <2>1, <2>4, <2>5, UsersAlone, SessionsAlone, TuiAlone DEF IInv
<1>4. CASE (\A u \in users : u.email # e) /\ minted[e] = 0
  <2>1. /\ DrawUser /\ minted' = [minted EXCEPT ![e] = drawn'.user]
        /\ req' = [req EXCEPT ![b] = R("insert", minted'[e])]
    BY <1>4 DEF Upsert
  <2>. DEFINE new == drawn'.user
  <2>2. new \in Ids /\ new = drawn.user + 1
        /\ drawn' \in [user: Ids, code: Codes, session: 0 .. MaxSessions, pair: 0 .. MaxPairs]
    BY <2>1, Draws DEF IInv
  <2>. HIDE DEF new
  <2>3. /\ minted' \in [Emails -> Ids] /\ minted'[e] = new
        /\ \A f \in Emails : f # e => minted'[f] = minted[f]
    BY <1>0, <2>1, <2>2 DEF new
  <2>4. RequestOk(R("insert", new), users', minted')
    BY <1>0, <2>2, <2>3 DEF RequestOk
  <2>5. R("insert", new) \in Request
    BY <1>1, <2>2
  <2>. HIDE DEF R
  <2>6. req' \in [Browsers -> Request] /\ ReqInv'
    BY <1>4, <2>1, <2>3, <2>4, <2>5, RequestPut
  <2>7. TypeOK'
    BY <2>2, <2>3, <2>6 DEF IInv, TypeOK
  <2>8. drawn'.user = new
    BY DEF new
  <2>9. /\ \A u \in users : u.id # 0 /\ u.id <= drawn.user /\ u.id \in Nat
        /\ \A f \in Emails : minted[f] <= drawn.user /\ minted[f] \in Nat
    BY <1>0, Naturals_ DEF IInv, MintedInv, UserRow, Ids
  <2>10. MintedInv'
    <3>1. \A u \in users' : u.id # 0 /\ u.id <= drawn'.user
      BY <1>0, <2>2, <2>8, <2>9
    <3>2. \A f \in Emails : minted'[f] <= drawn'.user
      BY <1>0, <2>2, <2>3, <2>8, <2>9
    <3>3. ASSUME NEW f \in Emails, NEW g \in Emails, minted'[f] = minted'[g], minted'[f] # 0
          PROVE  f = g
      BY <1>0, <2>2, <2>3, <2>9, <3>3 DEF IInv, MintedInv
    <3>4. ASSUME NEW f \in Emails, NEW u \in users', u.id = minted'[f] PROVE u.email = f
      BY <1>0, <2>2, <2>3, <2>9, <3>4 DEF IInv, MintedInv
    <3>. QED BY <3>1, <3>2, <3>3, <3>4 DEF MintedInv
  <2>11. OneIdentityPerEmail'
    BY DEF IInv, OneIdentityPerEmail
  <2>. QED BY <2>6, <2>7, <2>10, <2>11, SessionsAlone, TuiAlone DEF IInv
<1>. QED BY <1>2, <1>3, <1>4

LEMMA GoogleCallbackKeeps ==
    ASSUME AuthAssumption, IInv, NEW b \in Browsers, NEW e \in Emails, GoogleCallback(b, e)
    PROVE  IInv'
<1>1. UNCHANGED <<now, era, users, jwts, revoked, codes, refresh, tui, keyring, ref>>
  BY DEF GoogleCallback, clock
<1>2. CASE e \in Allowed
  BY <1>1, <1>2, UpsertKeeps DEF GoogleCallback
<1>3. CASE e \notin Allowed
  <2>1. browser' = [browser EXCEPT ![b].asked = FALSE] /\ UNCHANGED <<req, minted, drawn>>
    BY <1>3 DEF GoogleCallback
  <2>2. browser \in [Browsers -> Browser]
    BY DEF IInv, TypeOK
  <2>3. browser' \in [Browsers -> Browser]
        /\ \A c \in Browsers : browser'[c].session = browser[c].session
    BY <2>1, <2>2 DEF Browser
  <2>4. TypeOK'
    BY <1>1, <2>1, <2>3 DEF IInv, TypeOK
  <2>5. SessionInv'
    BY <1>1, <2>3 DEF IInv, SessionInv
  <2>. QED BY <1>1, <2>1, <2>4, <2>5, UsersAlone, RequestsAlone, TuiAlone DEF IInv
<1>. QED BY <1>2, <1>3

LEMMA DevCallbackKeeps ==
    ASSUME AuthAssumption, IInv, NEW b \in Browsers, NEW e \in Emails, DevCallback(b, e)
    PROVE  IInv'
BY UpsertKeeps DEF DevCallback, clock

(* Two sign-ins that insert for one email insert the same identity; the    *)
(* slower one fails.                                                       *)
LEMMA InsertUserKeeps ==
    ASSUME AuthAssumption, IInv, NEW b \in Browsers, InsertUser(b) PROVE IInv'
<1>0. UNCHANGED <<now, era, drawn, jwts, minted, revoked, codes, refresh, browser,
                  tui, keyring, ref>>
  BY DEF InsertUser, clock, memory
<1>1. CASE \E u \in users : u.email = req[b].email
  <2>1. req' = [req EXCEPT ![b] = NoRequest] /\ users' = users
    BY <1>1 DEF InsertUser
  <2>2. req' \in [Browsers -> Request] /\ ReqInv'
    BY <1>0, <2>1, NoRequestOk, RequestPut
  <2>3. TypeOK'
    BY <1>0, <2>1, <2>2 DEF IInv, TypeOK
  <2>. QED BY <1>0, <2>1, <2>2, <2>3, UsersAlone, SessionsAlone, TuiAlone DEF IInv
<1>2. CASE \A u \in users : u.email # req[b].email
  <2>. DEFINE row == [id |-> req[b].user, email |-> req[b].email]
              r == [req[b] EXCEPT !.step = "sign"]
  <2>1. users' = users \cup {row} /\ req' = [req EXCEPT ![b] = r]
    BY <1>2 DEF InsertUser
  <2>2. req[b] \in Request /\ req[b].step = "insert" /\ RequestOk(req[b], users, minted)
    BY DEF IInv, TypeOK, ReqInv, InsertUser
  <2>3. /\ req[b].email \in Emails /\ req[b].user # 0 /\ req[b].user \in Ids
        /\ req[b].user = minted[req[b].email]
    BY <2>2 DEF RequestOk, Request
  <2>4. row \in UserRow /\ row.id = req[b].user /\ row.email = req[b].email
    BY <2>3 DEF UserRow
  <2>5. r \in Request /\ r.step = "sign" /\ r.user = req[b].user /\ r.email = req[b].email
        /\ r.jti = req[b].jti
    BY <2>2 DEF Request
  <2>6. [id |-> r.user, email |-> r.email] = row
    BY <2>5
  <2>. HIDE DEF r, row
  <2>7. RequestOk(r, users', minted')
    BY <2>1, <2>2, <2>5, <2>6 DEF RequestOk
  <2>8. req' \in [Browsers -> Request] /\ ReqInv'
    BY <1>0, <2>1, <2>5, <2>7, RequestPut
  <2>9. TypeOK'
    BY <1>0, <2>1, <2>4, <2>8 DEF IInv, TypeOK
  <2>10. OneIdentityPerEmail'
    <3>1. ASSUME NEW u \in users, u.email = row.email \/ u.id = row.id PROVE FALSE
      BY <1>2, <2>3, <2>4, <3>1 DEF IInv, MintedInv
    <3>2. \A u, v \in users' : u.email = v.email \/ u.id = v.id => u = v
      BY <2>1, <3>1 DEF IInv, OneIdentityPerEmail
    <3>. QED BY <1>0, <2>1, <3>2 DEF IInv, OneIdentityPerEmail
  <2>11. MintedInv'
    <3>1. row.id # 0 /\ row.id <= drawn.user
      BY <2>3, <2>4 DEF IInv, MintedInv
    <3>2. ASSUME NEW e \in Emails, row.id = minted[e] PROVE row.email = e
      BY <2>3, <2>4, <3>2 DEF IInv, MintedInv
    <3>. QED BY <1>0, <2>1, <3>1, <3>2 DEF IInv, MintedInv
  <2>. QED BY <1>0, <2>8, <2>9, <2>10, <2>11, SessionsAlone, TuiAlone DEF IInv
<1>. QED BY <1>1, <1>2

LEMMA SignSessionKeeps ==
    ASSUME AuthAssumption, IInv, NEW b \in Browsers, SignSession(b) PROVE IInv'
<1>. DEFINE j == drawn'.session
            t == [jti |-> j, user |-> req[b].user, email |-> req[b].email,
                  exp |-> now + SessionTtl]
            s == [asked |-> FALSE, session |-> j]
<1>0. UNCHANGED <<now, era, users, minted, revoked, codes, refresh, tui, keyring, ref>>
  BY DEF SignSession, clock, memory
<1>1. /\ jwts' = jwts \cup {t}
      /\ browser' = [browser EXCEPT ![b] = s]
      /\ req' = [req EXCEPT ![b] = NoRequest]
  BY DEF SignSession
<1>2. /\ drawn' \in [user: Ids, code: Codes, session: 0 .. MaxSessions, pair: 0 .. MaxPairs]
      /\ j \in 0 .. MaxSessions /\ drawn'.user = drawn.user
  BY Draws DEF SignSession, IInv
<1>. HIDE DEF j
<1>3. req[b] \in Request /\ [id |-> req[b].user, email |-> req[b].email] \in users
  BY DEF IInv, TypeOK, ReqInv, RequestOk, SignSession
<1>4. [id |-> req[b].user, email |-> req[b].email] \in UserRow
  BY <1>3 DEF IInv, TypeOK
<1>5. req[b].user \in Ids /\ req[b].email \in Emails
  BY <1>3, <1>4 DEF UserRow
<1>6. j \in Jtis /\ j <= MaxSessions /\ now + SessionTtl \in Times
  BY <1>2, Draws, Naturals_ DEF IInv, Jtis, Times
<1>7. t \in Jwt /\ [id |-> t.user, email |-> t.email] \in users
  BY <1>3, <1>5, <1>6 DEF Jwt
<1>8. s \in Browser /\ s.session = j
  BY <1>6 DEF Browser
<1>. HIDE DEF t, s
<1>9. req' \in [Browsers -> Request] /\ ReqInv'
  BY <1>0, <1>1, NoRequestOk, RequestPut
<1>10. browser' \in [Browsers -> Browser]
       /\ \A c \in Browsers : browser'[c].session <= MaxSessions
  BY <1>1, <1>6, <1>8 DEF IInv, TypeOK, SessionInv
<1>11. SessionInv'
  BY <1>0, <1>10 DEF IInv, SessionInv
<1>12. TypeOK'
  BY <1>0, <1>1, <1>2, <1>7, <1>9, <1>10 DEF IInv, TypeOK
<1>. QED BY <1>0, <1>1, <1>2, <1>7, <1>9, <1>11, <1>12, UsersAlone, TuiAlone DEF IInv

------------------------------------------------------------------------------
(* The gate, logout and the approval of a code. *)

(* A request moves on; the state apart from the requests stays.            *)
LEMMA OnlyRequest ==
    ASSUME AuthAssumption, IInv, NEW b \in Browsers, NEW r \in Request,
           r.step \notin {"insert", "sign"}, r.jti <= MaxSessions,
           req' = [req EXCEPT ![b] = r],
           UNCHANGED <<now, era, drawn, users, jwts, minted, revoked, refresh, browser,
                       tui, keyring, ref>>,
           codes' \in SUBSET CodeRow
    PROVE  IInv'
<1>1. RequestOk(r, users', minted')
  BY DEF RequestOk
<1>2. req' \in [Browsers -> Request] /\ ReqInv'
  BY <1>1, RequestPut
<1>3. TypeOK'
  BY <1>2 DEF IInv, TypeOK
<1>. QED BY <1>2, <1>3, UsersAlone, SessionsAlone, TuiAlone DEF IInv

LEMMA GateKeeps ==
    ASSUME AuthAssumption, IInv, NEW b \in Browsers,
           GateVerify(b) \/ GateCheck(b) \/ Serve(b)
    PROVE  IInv'
<1>1. UNCHANGED <<now, era, drawn, users, jwts, minted, revoked, refresh, browser,
                  tui, keyring, ref>> /\ codes' \in SUBSET CodeRow
  BY DEF GateVerify, GateCheck, Serve, clock, memory, IInv, TypeOK
<1>2. req[b] \in Request /\ req[b].jti <= MaxSessions
      /\ browser[b] \in Browser /\ browser[b].session <= MaxSessions
  BY DEF IInv, TypeOK, ReqInv, RequestOk, SessionInv
<1>3. NoRequest \in Request /\ NoRequest.step = "idle" /\ NoRequest.jti <= MaxSessions
  BY Naturals_, NoRequestOk DEF NoRequest
<1>4. CASE GateVerify(b)
  <2>. DEFINE r == [req[b] EXCEPT !.step = "check", !.jti = browser[b].session]
  <2>1. r \in Request /\ r.step = "check" /\ r.jti <= MaxSessions
    BY <1>2 DEF Request, Browser
  <2>2. req' = [req EXCEPT ![b] = r]
    BY <1>4 DEF GateVerify
  <2>. HIDE DEF r
  <2>. QED BY <1>1, <2>1, <2>2, OnlyRequest
<1>5. CASE GateCheck(b)
  <2>1. PICK t \in jwts :
          req' = IF req[b].jti \notin revoked /\ \E u \in users : u.id = t.user
                 THEN [req EXCEPT ![b].step = "admitted", ![b].user = t.user]
                 ELSE [req EXCEPT ![b] = NoRequest]
    BY <1>5 DEF GateCheck
  <2>. DEFINE r == [req[b] EXCEPT !.step = "admitted", !.user = t.user]
  <2>2. t.user \in Ids
    BY DEF IInv, TypeOK, Jwt
  <2>3. r \in Request /\ r.step = "admitted" /\ r.jti <= MaxSessions
    BY <1>2, <2>2 DEF Request
  <2>4. req' = [req EXCEPT ![b] = r] \/ req' = [req EXCEPT ![b] = NoRequest]
    BY <2>1
  <2>. HIDE DEF r
  <2>5. CASE req' = [req EXCEPT ![b] = r]
    BY <1>1, <2>3, <2>5, OnlyRequest
  <2>6. CASE req' = [req EXCEPT ![b] = NoRequest]
    BY <1>1, <1>3, <2>6, OnlyRequest
  <2>. QED BY <2>4, <2>5, <2>6
<1>6. CASE Serve(b)
  <2>1. req' = [req EXCEPT ![b] = NoRequest]
    BY <1>6 DEF Serve
  <2>. QED BY <1>1, <1>3, <2>1, OnlyRequest
<1>. QED BY <1>4, <1>5, <1>6

LEMMA ApproveKeeps ==
    ASSUME AuthAssumption, IInv, NEW b \in Browsers, NEW c \in codes, Approve(b, c)
    PROVE  IInv'
<1>. DEFINE d == [c EXCEPT !.user = req[b].user]
<1>1. c \in CodeRow /\ req[b].user \in Ids
  BY DEF IInv, TypeOK, Request
<1>2. d \in CodeRow
  BY <1>1 DEF CodeRow
<1>3. codes' = (codes \ {c}) \cup {d} /\ req' = [req EXCEPT ![b] = NoRequest]
      /\ UNCHANGED <<now, era, drawn, users, jwts, minted, revoked, refresh, browser,
                     tui, keyring, ref>>
  BY DEF Approve, clock
<1>. HIDE DEF d
<1>4. codes' \in SUBSET CodeRow
  BY <1>2, <1>3 DEF IInv, TypeOK
<1>5. NoRequest \in Request /\ NoRequest.step = "idle" /\ NoRequest.jti <= MaxSessions
  BY Naturals_, NoRequestOk DEF NoRequest
<1>. QED BY <1>3, <1>4, <1>5, OnlyRequest

LEMMA LogoutKeeps ==
    ASSUME AuthAssumption, IInv, NEW b \in Browsers, LogoutVerify(b) \/ LogoutRevoke(b)
    PROVE  IInv'
<1>1. req[b] \in Request /\ req[b].jti <= MaxSessions
      /\ browser[b] \in Browser /\ browser[b].session <= MaxSessions
      /\ browser \in [Browsers -> Browser]
  BY DEF IInv, TypeOK, ReqInv, RequestOk, SessionInv
<1>2. 0 \in Jtis /\ 0 <= MaxSessions
  BY Naturals_ DEF Jtis
<1>3. CASE LogoutVerify(b) /\ Verified(browser[b].session)
  <2>. DEFINE r == [req[b] EXCEPT !.step = "revoke", !.jti = browser[b].session]
  <2>1. r \in Request /\ r.step = "revoke" /\ r.jti <= MaxSessions
    BY <1>1 DEF Request, Browser
  <2>2. /\ req' = [req EXCEPT ![b] = r]
        /\ UNCHANGED <<now, era, drawn, users, jwts, minted, revoked, codes, refresh,
                       browser, tui, keyring, ref>>
    BY <1>3 DEF LogoutVerify, clock, memory
  <2>3. codes' \in SUBSET CodeRow
    BY <2>2 DEF IInv, TypeOK
  <2>. HIDE DEF r
  <2>. QED BY <2>1, <2>2, <2>3, OnlyRequest
<1>4. \/ LogoutVerify(b) /\ ~Verified(browser[b].session)
      \/ LogoutRevoke(b)
      => /\ browser' = [browser EXCEPT ![b].session = 0]
         /\ UNCHANGED <<now, era, drawn, users, jwts, minted, codes, refresh,
                        tui, keyring, ref>>
  BY DEF LogoutVerify, LogoutRevoke, clock, memory
<1>5. ASSUME browser' = [browser EXCEPT ![b].session = 0]
      PROVE  /\ browser' \in [Browsers -> Browser]
             /\ \A c \in Browsers : browser'[c].session <= MaxSessions
  <2>. DEFINE s == [browser[b] EXCEPT !.session = 0]
  <2>1. s \in Browser /\ s.session = 0
    BY <1>1, <1>2 DEF Browser
  <2>2. browser' = [browser EXCEPT ![b] = s]
    BY <1>5
  <2>. HIDE DEF s
  <2>. QED BY <1>1, <1>2, <2>1, <2>2 DEF IInv, SessionInv
<1>6. CASE LogoutVerify(b) /\ ~Verified(browser[b].session)
  <2>1. UNCHANGED <<req, revoked>>
    BY <1>6 DEF LogoutVerify, memory
  <2>2. TypeOK'
    BY <1>4, <1>5, <1>6, <2>1 DEF IInv, TypeOK
  <2>3. SessionInv'
    BY <1>4, <1>5, <1>6, <2>1 DEF IInv, SessionInv
  <2>. QED BY <1>4, <1>6, <2>1, <2>2, <2>3, UsersAlone, RequestsAlone, TuiAlone DEF IInv
<1>7. CASE LogoutRevoke(b)
  <2>1. revoked' = revoked \cup {req[b].jti} /\ req' = [req EXCEPT ![b] = NoRequest]
    BY <1>7 DEF LogoutRevoke
  <2>2. req' \in [Browsers -> Request] /\ ReqInv'
    BY <1>4, <1>7, <2>1, NoRequestOk, RequestPut
  <2>3. TypeOK'
    BY <1>1, <1>4, <1>5, <1>7, <2>1, <2>2 DEF IInv, TypeOK, Request
  <2>4. SessionInv'
    BY <1>1, <1>4, <1>5, <1>7, <2>1 DEF IInv, SessionInv
  <2>. QED BY <1>4, <1>7, <2>2, <2>3, <2>4, UsersAlone, TuiAlone DEF IInv
<1>. QED BY <1>3, <1>6, <1>7

------------------------------------------------------------------------------
(* Tokens for a client without a browser. *)

(* A pair names a user of the table and a number above the sessions'.      *)
LEMMA PairIssued ==
    ASSUME AuthAssumption, IInv, NEW user \in Ids, NEW parent \in Jtis, PairFor(user, parent)
    PROVE  /\ drawn' \in [user: Ids, code: Codes, session: 0 .. MaxSessions,
                          pair: 0 .. MaxPairs]
           /\ drawn'.user = drawn.user
           /\ PairJti(drawn'.pair) \in Jtis /\ PairJti(drawn'.pair) > MaxSessions
           /\ jwts' \in SUBSET Jwt /\ jwts \subseteq jwts'
           /\ \A t \in jwts' : t \in jwts \/ [id |-> t.user, email |-> t.email] \in users
           /\ \E t \in jwts' : t.jti = PairJti(drawn'.pair) /\ t.exp = now + AccessTtl
           /\ refresh' \in SUBSET RefreshRow
<1>. DEFINE j == PairJti(drawn'.pair)
<1>1. /\ drawn' \in [user: Ids, code: Codes, session: 0 .. MaxSessions, pair: 0 .. MaxPairs]
      /\ drawn'.pair \in 1 .. MaxPairs /\ drawn'.user = drawn.user
  BY Draws DEF PairFor, IInv
<1>2. j \in Jtis /\ j > MaxSessions
  BY <1>1, Naturals_ DEF PairJti, Jtis
<1>3. now + AccessTtl \in Times /\ now + RefreshTtl \in Times
  BY Draws, Naturals_ DEF IInv, Times
<1>4. PICK u \in users :
        /\ u.id = user
        /\ jwts' = jwts \cup {[jti |-> j, user |-> user, email |-> u.email,
                               exp |-> now + AccessTtl]}
  BY DEF PairFor
<1>5. refresh' = refresh \cup {[token |-> j, user |-> user, exp |-> now + RefreshTtl,
                                revoked |-> FALSE, parent |-> parent]}
  BY DEF PairFor
<1>. HIDE DEF j
<1>6. u \in UserRow
  BY DEF IInv, TypeOK
<1>. DEFINE t == [jti |-> j, user |-> user, email |-> u.email, exp |-> now + AccessTtl]
            r == [token |-> j, user |-> user, exp |-> now + RefreshTtl,
                  revoked |-> FALSE, parent |-> parent]
<1>7. [id |-> t.user, email |-> t.email] = u
  BY <1>4, <1>6 DEF UserRow
<1>8. t \in Jwt /\ t.jti = j /\ t.exp = now + AccessTtl
  BY <1>2, <1>3, <1>6 DEF Jwt, UserRow
<1>9. r \in RefreshRow
  BY <1>2, <1>3 DEF RefreshRow
<1>10. jwts' = jwts \cup {t} /\ refresh' = refresh \cup {r}
  BY <1>4, <1>5
<1>. HIDE DEF t, r
<1>11. \A x \in jwts' : x \in jwts \/ [id |-> x.user, email |-> x.email] \in users
  BY <1>7, <1>10
<1>12. jwts' \in SUBSET Jwt /\ jwts \subseteq jwts' /\ refresh' \in SUBSET RefreshRow
  BY <1>8, <1>9, <1>10 DEF IInv, TypeOK
<1>. QED BY <1>1, <1>2, <1>8, <1>10, <1>11, <1>12 DEF j

LEMMA RefreshReadKeeps ==
    ASSUME AuthAssumption, IInv, NEW a \in Callers, NEW r \in refresh, RefreshRead(a, r)
    PROVE  IInv'
<1>. DEFINE x == [step |-> "lookup", token |-> r.token, user |-> r.user]
<1>1. r.token \in Jtis /\ r.user \in Ids
  BY DEF IInv, TypeOK, RefreshRow
<1>2. x \in Refreshing
  BY <1>1 DEF Refreshing
<1>3. ref' = [ref EXCEPT ![a] = x]
      /\ UNCHANGED <<now, era, drawn, users, jwts, minted, revoked, codes, refresh,
                     browser, req, tui, keyring>>
  BY DEF RefreshRead, clock, memory
<1>. HIDE DEF x
<1>4. TypeOK'
  BY <1>2, <1>3 DEF IInv, TypeOK
<1>. QED BY <1>3, <1>4, UsersAlone, RequestsAlone, SessionsAlone, TuiAlone DEF IInv

LEMMA RefreshRevokeKeeps ==
    ASSUME AuthAssumption, IInv, NEW a \in Callers, RefreshRevoke(a) PROVE IInv'
<1>. DEFINE F(r) == [r EXCEPT !.revoked = @ \/ r.token = ref[a].token]
            x == [ref[a] EXCEPT !.step = "issue"]
<1>1. UNCHANGED <<now, era, drawn, users, jwts, minted, revoked, codes,
                  browser, req, tui, keyring>>
  BY DEF RefreshRevoke, clock
<1>2. refresh' = {F(r) : r \in refresh} /\ ref' = [ref EXCEPT ![a] = x]
  BY DEF RefreshRevoke
<1>3. ASSUME NEW r \in refresh PROVE F(r) \in RefreshRow
  <2>1. r \in RefreshRow
    BY DEF IInv, TypeOK
  <2>. DEFINE v == r.revoked \/ r.token = ref[a].token
  <2>2. v \in BOOLEAN
    OBVIOUS
  <2>3. F(r) = [r EXCEPT !.revoked = v]
    OBVIOUS
  <2>. HIDE DEF v, F
  <2>. QED BY <2>1, <2>2, <2>3 DEF RefreshRow
<1>4. x \in Refreshing
  BY DEF IInv, TypeOK, Refreshing
<1>. HIDE DEF F, x
<1>5. refresh' \in SUBSET RefreshRow
  BY <1>2, <1>3
<1>6. TypeOK'
  BY <1>1, <1>2, <1>4, <1>5 DEF IInv, TypeOK
<1>. QED BY <1>1, <1>6, UsersAlone, RequestsAlone, SessionsAlone, TuiAlone DEF IInv

LEMMA RefreshIssueKeeps ==
    ASSUME AuthAssumption, IInv, NEW a \in Callers, RefreshIssue(a) PROVE IInv'
<1>1. ref[a].user \in Ids /\ ref[a].token \in Jtis /\ PairFor(ref[a].user, ref[a].token)
  BY DEF IInv, TypeOK, Refreshing, RefreshIssue
<1>2. ref' = [ref EXCEPT ![a] = NotRefreshing]
      /\ UNCHANGED <<now, era, users, minted, revoked, codes, browser, req, tui, keyring>>
  BY DEF RefreshIssue, clock
<1>3. NotRefreshing \in Refreshing
  BY Naturals_ DEF NotRefreshing, Refreshing, Jtis, Ids
<1>4. TypeOK'
  BY <1>1, <1>2, <1>3, PairIssued DEF IInv, TypeOK
<1>. QED BY <1>1, <1>2, <1>4, PairIssued, UsersAlone, RequestsAlone, SessionsAlone,
            TuiAlone DEF IInv

------------------------------------------------------------------------------
(* The terminal client. *)

(* The client moves on; nothing is signed.                                 *)
LEMMA OnlyTui ==
    ASSUME AuthAssumption, IInv, NEW d \in Devices, NEW s \in Tui, s.phase # "answered",
           tui' = [tui EXCEPT ![d] = s],
           UNCHANGED <<now, era, users, jwts, minted, revoked, refresh, browser, req,
                       keyring, ref>>,
           drawn' \in [user: Ids, code: Codes, session: 0 .. MaxSessions, pair: 0 .. MaxPairs],
           drawn'.user = drawn.user,
           codes' \in SUBSET CodeRow
    PROVE  IInv'
<1>1. tui' \in [Devices -> Tui] /\ TuiInv'
  BY TuiPut
<1>2. TypeOK'
  BY <1>1 DEF IInv, TypeOK
<1>. QED BY <1>1, <1>2, UsersAlone, RequestsAlone, SessionsAlone DEF IInv

LEMMA TuiMovesKeep ==
    ASSUME AuthAssumption, IInv, NEW d \in Devices,
           TuiReuse(d) \/ TuiPoll(d) \/ TuiLost(d) \/ TuiConnect(d) \/ TuiQuit(d)
    PROVE  IInv'
<1>1. /\ UNCHANGED <<now, era, drawn, users, jwts, minted, revoked, codes, refresh,
                     browser, req, keyring, ref>>
      /\ drawn' \in [user: Ids, code: Codes, session: 0 .. MaxSessions, pair: 0 .. MaxPairs]
      /\ codes' \in SUBSET CodeRow
  BY DEF TuiReuse, TuiPoll, TuiLost, TuiConnect, TuiQuit, clock, memory, IInv, TypeOK
<1>2. tui[d] \in Tui /\ keyring[d].jti \in Jtis /\ TuiOff \in Tui /\ TuiOff.phase = "off"
  BY Naturals_ DEF IInv, TypeOK, Tokens, TuiOff, Tui, Codes, Ids, Jtis
<1>3. CASE TuiReuse(d)
  <2>. DEFINE s == [TuiOff EXCEPT !.phase = "ready", !.jti = keyring[d].jti]
  <2>1. s \in Tui /\ s.phase = "ready"
    BY <1>2 DEF Tui, TuiOff
  <2>2. tui' = [tui EXCEPT ![d] = s]
    BY <1>3 DEF TuiReuse
  <2>. HIDE DEF s
  <2>. QED BY <1>1, <2>1, <2>2, OnlyTui
<1>4. CASE TuiPoll(d)
  <2>. DEFINE s(c) == [tui[d] EXCEPT !.phase = "issuing", !.user = c.user]
              f == [tui[d] EXCEPT !.phase = "failed"]
  <2>1. tui' = [tui EXCEPT ![d] = f] \/ \E c \in codes : tui' = [tui EXCEPT ![d] = s(c)]
    BY <1>4 DEF TuiPoll
  <2>2. \A c \in codes : s(c) \in Tui /\ s(c).phase = "issuing"
    BY <1>2 DEF IInv, TypeOK, CodeRow, Tui
  <2>3. f \in Tui /\ f.phase = "failed"
    BY <1>2 DEF Tui
  <2>. HIDE DEF s, f
  <2>4. CASE tui' = [tui EXCEPT ![d] = f]
    BY <1>1, <2>3, <2>4, OnlyTui
  <2>5. ASSUME NEW c \in codes, tui' = [tui EXCEPT ![d] = s(c)] PROVE IInv'
    BY <1>1, <2>2, <2>5, OnlyTui
  <2>. QED BY <2>1, <2>4, <2>5
<1>5. CASE TuiLost(d) \/ TuiConnect(d)
  <2>. DEFINE s(p) == [tui[d] EXCEPT !.phase = p]
  <2>1. \A p \in {"live", "failed"} : s(p) \in Tui /\ s(p).phase = p
    BY <1>2 DEF Tui
  <2>2. \E p \in {"live", "failed"} : tui' = [tui EXCEPT ![d] = s(p)]
    BY <1>5 DEF TuiLost, TuiConnect
  <2>. HIDE DEF s
  <2>3. ASSUME NEW p \in {"live", "failed"}, tui' = [tui EXCEPT ![d] = s(p)] PROVE IInv'
    <3>1. s(p) \in Tui /\ s(p).phase # "answered"
      BY <2>1
    <3>. QED BY <1>1, <2>3, <3>1, OnlyTui
  <2>. QED BY <2>2, <2>3
<1>6. CASE TuiQuit(d)
  <2>1. tui' = [tui EXCEPT ![d] = TuiOff]
    BY <1>6 DEF TuiQuit
  <2>. QED BY <1>1, <1>2, <2>1, OnlyTui
<1>. QED BY <1>3, <1>4, <1>5, <1>6

LEMMA TuiPromptKeeps ==
    ASSUME AuthAssumption, IInv, NEW d \in Devices, TuiPrompt(d) PROVE IInv'
<1>. DEFINE n == drawn'.code
            s == [TuiOff EXCEPT !.phase = "polling", !.code = n]
            c == [code |-> n, user |-> 0, exp |-> now + CodeTtl]
<1>1. /\ drawn' \in [user: Ids, code: Codes, session: 0 .. MaxSessions, pair: 0 .. MaxPairs]
      /\ n \in Codes /\ drawn'.user = drawn.user
  BY Draws DEF TuiPrompt, IInv
<1>2. /\ tui' = [tui EXCEPT ![d] = s] /\ codes' = codes \cup {c}
      /\ UNCHANGED <<now, era, users, jwts, minted, revoked, refresh, browser, req,
                     keyring, ref>>
  BY DEF TuiPrompt, clock
<1>. HIDE DEF n
<1>3. 0 \in Ids /\ 0 \in Jtis /\ 0 \in 0 .. MaxNow
  BY Naturals_ DEF Ids, Jtis
<1>4. s \in Tui /\ s.phase = "polling"
  BY <1>1, <1>3 DEF TuiOff, Tui
<1>5. c \in CodeRow
  BY <1>1, Draws, Naturals_ DEF CodeRow, Ids, Times, IInv
<1>. HIDE DEF s, c
<1>6. codes' \in SUBSET CodeRow
  BY <1>2, <1>5 DEF IInv, TypeOK
<1>. QED BY <1>1, <1>2, <1>4, <1>6, OnlyTui

(* What the server signs, the client is about to hold.                     *)
LEMMA TuiIssueKeeps ==
    ASSUME AuthAssumption, IInv, NEW d \in Devices, TuiIssue(d) PROVE IInv'
<1>. DEFINE j == PairJti(drawn'.pair)
            s == [tui[d] EXCEPT !.phase = "answered", !.jti = j, !.since = now]
<1>1. tui[d] \in Tui /\ tui[d].user \in Ids /\ 0 \in Jtis /\ PairFor(tui[d].user, 0)
  BY Naturals_ DEF IInv, TypeOK, Tui, TuiIssue, Jtis
<1>2. /\ tui' = [tui EXCEPT ![d] = s]
      /\ UNCHANGED <<now, era, users, minted, revoked, codes, browser, req, keyring, ref>>
  BY DEF TuiIssue, clock
<1>3. /\ drawn' \in [user: Ids, code: Codes, session: 0 .. MaxSessions, pair: 0 .. MaxPairs]
      /\ drawn'.user = drawn.user
      /\ j \in Jtis /\ j > MaxSessions
      /\ jwts' \in SUBSET Jwt /\ jwts \subseteq jwts'
      /\ \A t \in jwts' : t \in jwts \/ [id |-> t.user, email |-> t.email] \in users
      /\ \E t \in jwts' : t.jti = j /\ t.exp = now + AccessTtl
      /\ refresh' \in SUBSET RefreshRow
  BY <1>1, PairIssued
<1>. HIDE DEF j
<1>4. s \in Tui /\ s.jti = j /\ s.since = now
  BY <1>1, <1>3, Draws DEF Tui, IInv
<1>. HIDE DEF s
<1>5. tui' \in [Devices -> Tui] /\ tui'[d] = s /\ \A c \in Devices : c # d => tui'[c] = tui[c]
  BY <1>2, <1>4 DEF IInv, TypeOK
<1>6. TypeOK'
  BY <1>2, <1>3, <1>5 DEF IInv, TypeOK
<1>7. now + AccessTtl \in Nat
  BY Draws, Naturals_ DEF IInv
<1>8. TuiInv'
  <2>1. ASSUME NEW c \in Devices, tui'[c].phase = "answered"
        PROVE  Signed(tui[c].jti, tui[c].since + AccessTtl)'
    <3>1. CASE c = d
      BY <1>2, <1>3, <1>4, <1>5, <1>7, <3>1 DEF Signed
    <3>2. CASE c # d
      BY <1>3, <1>5, <2>1, <3>2 DEF IInv, TuiInv, Signed
    <3>. QED BY <3>1, <3>2
  <2>2. ASSUME NEW c \in Devices, keyring'[c].jti # 0
        PROVE  /\ keyring'[c].jti > MaxSessions
               /\ \E t \in jwts' : t.jti = keyring'[c].jti
                                   /\ keyring'[c].exp <= t.exp + Timeout
    BY <1>2, <1>3, <2>2 DEF IInv, TuiInv
  <2>. QED BY <2>1, <2>2 DEF TuiInv
<1>. QED BY <1>2, <1>3, <1>6, <1>8, UsersAlone, RequestsAlone, SessionsAlone DEF IInv

(* Saved late by at most the timeout.                                      *)
LEMMA TuiSaveKeeps ==
    ASSUME AuthAssumption, IInv, NEW d \in Devices, TuiSave(d) PROVE IInv'
<1>. DEFINE s == [tui[d] EXCEPT !.phase = "ready"]
            k == [jti |-> tui[d].jti, exp |-> now + AccessTtl]
<1>1. /\ tui' = [tui EXCEPT ![d] = s] /\ keyring' = [keyring EXCEPT ![d] = k]
      /\ UNCHANGED <<now, era, drawn, users, jwts, minted, revoked, codes, refresh,
                     browser, req, ref>>
  BY DEF TuiSave, clock, memory
<1>2. tui[d] \in Tui /\ tui[d].jti \in Jtis /\ tui[d].since \in 0 .. MaxNow
  BY DEF IInv, TypeOK, Tui
<1>3. Signed(tui[d].jti, tui[d].since + AccessTtl) /\ now <= tui[d].since + Timeout
  BY DEF IInv, TuiInv, TuiSave
<1>4. s \in Tui /\ s.phase = "ready"
  BY <1>2 DEF Tui
<1>5. k \in Tokens /\ k.jti = tui[d].jti /\ k.exp = now + AccessTtl
  BY <1>2, Draws, Naturals_ DEF Tokens, Times, IInv
<1>6. PICK t \in jwts : t.jti = tui[d].jti /\ tui[d].since + AccessTtl <= t.exp
  BY <1>3 DEF Signed
<1>7. t.exp \in Nat
  BY Naturals_ DEF IInv, TypeOK, Jwt, Times
<1>8. k.exp <= t.exp + Timeout
  BY <1>2, <1>3, <1>5, <1>6, <1>7, Draws, Naturals_ DEF IInv
<1>. HIDE DEF s, k
<1>9. /\ tui' \in [Devices -> Tui] /\ keyring' \in [Devices -> Tokens]
      /\ tui'[d] = s /\ \A c \in Devices : c # d => tui'[c] = tui[c]
      /\ keyring'[d] = k /\ \A c \in Devices : c # d => keyring'[c] = keyring[c]
  BY <1>1, <1>4, <1>5 DEF IInv, TypeOK
<1>10. TypeOK'
  BY <1>1, <1>9 DEF IInv, TypeOK
<1>11. TuiInv'
  <2>1. ASSUME NEW c \in Devices, tui'[c].phase = "answered"
        PROVE  Signed(tui[c].jti, tui[c].since + AccessTtl)'
    <3>1. tui'[c] = tui[c]
      BY <1>4, <1>9, <2>1
    <3>. QED BY <1>1, <2>1, <3>1 DEF IInv, TuiInv, Signed
  <2>2. ASSUME NEW c \in Devices, keyring'[c].jti # 0
        PROVE  /\ keyring'[c].jti > MaxSessions
               /\ \E x \in jwts' : x.jti = keyring'[c].jti
                                   /\ keyring'[c].exp <= x.exp + Timeout
    <3>1. CASE c = d
      BY <1>1, <1>3, <1>5, <1>6, <1>8, <1>9, <3>1 DEF Signed
    <3>2. CASE c # d
      BY <1>1, <1>9, <2>2, <3>2 DEF IInv, TuiInv
    <3>. QED BY <3>1, <3>2
  <2>. QED BY <2>1, <2>2 DEF TuiInv
<1>. QED BY <1>1, <1>10, <1>11, UsersAlone, RequestsAlone, SessionsAlone DEF IInv

------------------------------------------------------------------------------
(* Time and restarts. *)

LEMMA TickKeeps ==
    ASSUME AuthAssumption, IInv, Tick PROVE IInv'
<1>1. now' \in 0 .. MaxNow
  BY Draws, Naturals_ DEF Tick, IInv
<1>2. UNCHANGED <<drawn, era, users, jwts, minted, revoked, codes, refresh, browser, req,
                  tui, keyring, ref>>
  BY DEF Tick, memory, clients
<1>3. TypeOK'
  BY <1>1, <1>2 DEF IInv, TypeOK
<1>. QED BY <1>2, <1>3, UsersAlone, RequestsAlone, SessionsAlone, TuiAlone DEF IInv

(* What was minted and not inserted is forgotten, and so is the request    *)
(* that was about to insert it.                                            *)
LEMMA RestartKeeps ==
    ASSUME AuthAssumption, IInv, Restart PROVE IInv'
<1>1. /\ minted' = [e \in Emails |-> 0]
      /\ revoked' = {} /\ codes' = {} /\ refresh' = {}
      /\ req' = [b \in Browsers |-> NoRequest]
      /\ ref' = [a \in Callers |-> NotRefreshing]
      /\ UNCHANGED <<now, drawn, users, jwts, browser, keyring>>
  BY DEF Restart
<1>2. era' \in 0 .. MaxEra
  BY Naturals_ DEF Restart, IInv, TypeOK
<1>3. 0 \in Ids /\ NoRequest \in Request /\ NotRefreshing \in Refreshing
  BY Naturals_, NoRequestOk DEF NotRefreshing, Refreshing, Ids, Jtis
<1>4. ASSUME NEW d \in Devices
      PROVE  tui'[d] \in Tui /\ (tui'[d].phase = "answered" => tui'[d] = tui[d])
  <2>. DEFINE f == [tui[d] EXCEPT !.phase = "failed"]
  <2>1. tui[d] \in Tui
    BY DEF IInv, TypeOK
  <2>2. f \in Tui
    BY <2>1 DEF Tui
  <2>3. f.phase = "failed"
    BY <2>1 DEF Tui
  <2>4. tui'[d] = IF tui[d].phase \in {"issuing", "answered"} THEN f ELSE tui[d]
    BY DEF Restart
  <2>. HIDE DEF f
  <2>. QED BY <2>1, <2>2, <2>3, <2>4
<1>5. tui' \in [Devices -> Tui]
  BY <1>4 DEF Restart
<1>6. TypeOK'
  BY <1>1, <1>2, <1>3, <1>5 DEF IInv, TypeOK
<1>7. ReqInv'
  BY <1>1, NoRequestOk DEF ReqInv
<1>8. MintedInv' /\ OneIdentityPerEmail'
  BY <1>1, Draws, Naturals_ DEF IInv, MintedInv, OneIdentityPerEmail
<1>9. SessionInv'
  BY <1>1 DEF IInv, SessionInv
<1>10. TuiInv'
  BY <1>1, <1>4 DEF IInv, TuiInv, Signed
<1>. QED BY <1>6, <1>7, <1>8, <1>9, <1>10 DEF IInv

LEMMA StutterKeeps ==
    ASSUME IInv, UNCHANGED vars PROVE IInv'
<1>1. TypeOK'
  BY DEF IInv, TypeOK, vars
<1>. QED BY <1>1, UsersAlone, RequestsAlone, SessionsAlone, TuiAlone DEF IInv, vars

LEMMA StepKeeps == AuthAssumption /\ IInv /\ [Next]_vars => IInv'
<1>. SUFFICES ASSUME AuthAssumption, IInv, [Next]_vars PROVE IInv'
  OBVIOUS
<1>1. ASSUME NEW b \in Browsers, BrowserStep(b) PROVE IInv'
  BY <1>1, GoogleStartKeeps, InsertUserKeeps, SignSessionKeeps, GateKeeps, LogoutKeeps,
     GoogleCallbackKeeps, DevCallbackKeeps, ApproveKeeps DEF BrowserStep
<1>2. ASSUME NEW a \in Callers, RefreshStep(a) PROVE IInv'
  BY <1>2, RefreshReadKeeps, RefreshRevokeKeeps, RefreshIssueKeeps DEF RefreshStep
<1>3. ASSUME NEW d \in Devices, TuiStep(d) PROVE IInv'
  BY <1>3, TuiMovesKeep, TuiPromptKeeps, TuiIssueKeeps, TuiSaveKeeps DEF TuiStep
<1>. QED BY <1>1, <1>2, <1>3, TickKeeps, RestartKeeps, StutterKeeps DEF Next

------------------------------------------------------------------------------
(* Theorems. *)

(* The strengthened invariant holds of every reachable state.              *)
THEOREM Invariant == AuthAssumption => (Spec => []IInv)
<1>. SUFFICES ASSUME AuthAssumption PROVE Spec => []IInv
  OBVIOUS
<1>1. Init => IInv
  BY InitHolds
<1>2. IInv /\ [Next]_vars => IInv'
  BY StepKeeps
<1>. QED BY <1>1, <1>2, PTL DEF Spec

(* Every variable keeps its type.                                          *)
THEOREM TypeCorrect == AuthAssumption => (Spec => []TypeOK)
<1>. SUFFICES ASSUME AuthAssumption PROVE Spec => []TypeOK
  OBVIOUS
<1>1. IInv => TypeOK
  BY DEF IInv
<1>. QED BY <1>1, Invariant, PTL

(* For any number of browsers that sign in at once and any number of       *)
(* restarts, an email has one identity, and every token ever signed for it *)
(* names that one (sqlite-user-store.ts upsertUserByEmail).                *)
THEOREM IdentitiesStayOne == AuthAssumption => (Spec => []OneIdentityPerEmail)
<1>. SUFFICES ASSUME AuthAssumption PROVE Spec => []OneIdentityPerEmail
  OBVIOUS
<1>1. IInv => OneIdentityPerEmail
  BY DEF IInv
<1>. QED BY <1>1, Invariant, PTL

(* A token the client still counts as fresh has not expired at the server, *)
(* was never revoked, and its user is in the table.                        *)
LEMMA FreshIsAdmitted ==
    AuthAssumption /\ TimeoutWithinSkew /\ IInv => StoredTokenAdmitted
<1>. SUFFICES ASSUME AuthAssumption, TimeoutWithinSkew, IInv,
                     NEW d \in Devices, Reusable(d)
              PROVE  Admits(keyring[d].jti)
  BY DEF StoredTokenAdmitted
<1>1. PICK t \in jwts : t.jti = keyring[d].jti /\ keyring[d].exp <= t.exp + Timeout
  BY DEF Reusable, IInv, TuiInv
<1>2. keyring[d].jti > MaxSessions /\ keyring[d].exp > now + Skew
  BY DEF Reusable, IInv, TuiInv
<1>3. t.exp \in Nat /\ keyring[d].exp \in Nat /\ keyring[d].jti \in Nat /\ now \in Nat
  BY Draws, Naturals_ DEF IInv, TypeOK, Jwt, Tokens, Times, Jtis
<1>4. t.exp > now
  BY <1>1, <1>2, <1>3, Naturals_ DEF TimeoutWithinSkew
<1>5. keyring[d].jti \notin revoked
  BY <1>2, <1>3, Naturals_ DEF IInv, SessionInv
<1>6. \E u \in users : u.id = t.user
  BY DEF IInv, OneIdentityPerEmail
<1>. QED BY <1>1, <1>4, <1>5, <1>6 DEF Admits

(* As long as the client's HTTP timeout is within its skew, a token it     *)
(* would start with is one the server admits, whatever was restarted and   *)
(* revoked in between (auth.py ensure_access_token, middleware.ts).        *)
THEOREM StoredTokenStaysAdmitted ==
    AuthAssumption /\ TimeoutWithinSkew => (Spec => []StoredTokenAdmitted)
<1>. SUFFICES ASSUME AuthAssumption, TimeoutWithinSkew PROVE Spec => []StoredTokenAdmitted
  OBVIOUS
<1>1. IInv => StoredTokenAdmitted
  BY FreshIsAdmitted
<1>. QED BY <1>1, Invariant, PTL

------------------------------------------------------------------------------
(* Rotation: who may still be given a successor of a refresh token, counted *)
(* with who was.                                                           *)

Last == PairJti(drawn.pair)
Successors(t) == {s \in refresh : s.parent = t}
Holding(t) == {a \in Callers : ref[a].step # "idle" /\ ref[a].token = t}

(* Tokens are drawn once; a token that was not revoked has no successor,   *)
(* and nobody is about to issue one.                                       *)
DrawnInv ==
    /\ \A s \in refresh : MaxSessions < s.token /\ s.token <= Last /\ s.parent <= Last
    /\ \A a \in Callers : ref[a].step # "idle" => ref[a].token <= Last
UnspentInv ==
    \A r \in refresh : ~r.revoked =>
        /\ Successors(r.token) = {}
        /\ \A a \in Callers : ref[a].step = "issue" => ref[a].token # r.token
CountInv ==
    \A r \in refresh :
        Cardinality(Successors(r.token)) + Cardinality(Holding(r.token))
            <= Cardinality(Callers)
RotationInv == IsFiniteSet(refresh) /\ DrawnInv /\ UnspentInv /\ CountInv

LEMMA Counts ==
    ASSUME IsFiniteSet(Callers), IsFiniteSet(refresh), NEW t
    PROVE  /\ IsFiniteSet(Successors(t)) /\ Cardinality(Successors(t)) \in Nat
           /\ IsFiniteSet(Holding(t)) /\ Cardinality(Holding(t)) \in Nat
           /\ Cardinality(Holding(t)) <= Cardinality(Callers)
           /\ Cardinality(Callers) \in Nat
<1>1. Successors(t) \in SUBSET refresh /\ Holding(t) \in SUBSET Callers
  BY DEF Successors, Holding
<1>2. IsFiniteSet(Successors(t))
  BY <1>1, FS_Subset
<1>3. IsFiniteSet(Holding(t)) /\ Cardinality(Holding(t)) <= Cardinality(Callers)
  BY <1>1, FS_Subset
<1>. QED BY <1>2, <1>3, FS_CardinalityType

LEMMA Lasts ==
    ASSUME AuthAssumption, TypeOK
    PROVE  /\ Last \in Nat /\ MaxSessions \in Nat /\ MaxSessions <= Last
           /\ DrawUser \/ DrawCode \/ DrawSession => Last' = Last
           /\ DrawPair => Last' = Last + 1
           /\ \A s \in refresh : s.token \in Nat /\ s.parent \in Nat
           /\ \A a \in Callers : ref[a].token \in Nat
<1>1. /\ drawn \in [user: Ids, code: Codes, session: 0 .. MaxSessions, pair: 0 .. MaxPairs]
      /\ drawn.pair \in Nat /\ MaxSessions \in Nat
  BY Draws, Naturals_ DEF TypeOK
<1>2. DrawUser \/ DrawCode \/ DrawSession => drawn'.pair = drawn.pair
  BY <1>1 DEF DrawUser, DrawCode, DrawSession
<1>3. DrawPair => drawn'.pair = drawn.pair + 1
  BY <1>1 DEF DrawPair
<1>4. \A s \in refresh : s.token \in Jtis /\ s.parent \in Jtis
  BY DEF TypeOK, RefreshRow
<1>5. \A a \in Callers : ref[a].token \in Jtis
  BY DEF TypeOK, Refreshing
<1>. QED BY <1>1, <1>2, <1>3, <1>4, <1>5, Naturals_ DEF Last, PairJti, Jtis

LEMMA RotationInit ==
    AuthAssumption /\ Init => RotationInv
<1>. SUFFICES ASSUME AuthAssumption, Init PROVE RotationInv
  OBVIOUS
<1>1. refresh = {} /\ \A a \in Callers : ref[a].step = "idle"
  BY DEF Init, NotRefreshing
<1>. QED BY <1>1, FS_EmptySet DEF RotationInv, DrawnInv, UnspentInv, CountInv

(* A step that touches neither refresh tokens nor refreshes.               *)
LEMMA RotationAlone ==
    ASSUME RotationInv, UNCHANGED <<refresh, ref>>, Last' = Last
    PROVE  RotationInv'
BY DEF RotationInv, DrawnInv, UnspentInv, CountInv, Successors, Holding

LEMMA RotationRead ==
    ASSUME AuthAssumption, IsFiniteSet(Callers), IInv, RotationInv,
           NEW a \in Callers, NEW r \in refresh, RefreshRead(a, r)
    PROVE  RotationInv'
<1>. DEFINE x == [step |-> "lookup", token |-> r.token, user |-> r.user]
<1>1. /\ ref' = [ref EXCEPT ![a] = x] /\ ref \in [Callers -> Refreshing]
      /\ UNCHANGED <<refresh, drawn>> /\ ~r.revoked
  BY DEF RefreshRead, memory, IInv, TypeOK
<1>2. /\ ref'[a].step = "lookup" /\ ref'[a].token = r.token
      /\ \A b \in Callers \ {a} : ref'[b] = ref[b]
  BY <1>1
<1>3. ref[a].step = "idle"
  BY DEF RefreshRead
<1>4. Last' = Last /\ \A t : Successors(t)' = Successors(t)
  BY <1>1 DEF Last, PairJti, Successors
<1>. HIDE DEF x
<1>5. DrawnInv'
  BY <1>1, <1>2, <1>4 DEF RotationInv, DrawnInv
<1>6. UnspentInv'
  BY <1>1, <1>2, <1>4 DEF RotationInv, UnspentInv
<1>7. CountInv'
  <2>. SUFFICES ASSUME NEW q \in refresh
                PROVE  Cardinality(Successors(q.token)') + Cardinality(Holding(q.token)')
                           <= Cardinality(Callers)
    BY <1>1 DEF CountInv
  <2>1. CASE q.token = r.token
    <3>1. Successors(q.token)' = {}
      BY <1>1, <1>4, <2>1 DEF RotationInv, UnspentInv
    <3>2. Holding(q.token)' \in SUBSET Callers
      BY DEF Holding
    <3>3. Cardinality(Holding(q.token)') <= Cardinality(Callers)
          /\ Cardinality(Holding(q.token)') \in Nat /\ Cardinality(Callers) \in Nat
      BY <3>2, FS_Subset, FS_CardinalityType
    <3>. QED BY <3>1, <3>3, FS_EmptySet
  <2>2. CASE q.token # r.token
    <3>1. Holding(q.token)' = Holding(q.token)
      BY <1>2, <1>3, <2>2 DEF Holding
    <3>. QED BY <1>4, <3>1 DEF RotationInv, CountInv
  <2>. QED BY <2>1, <2>2
<1>. QED BY <1>1, <1>5, <1>6, <1>7 DEF RotationInv

(* Revoking a row changes neither its token nor its parent.                *)
LEMMA RotationRevoke ==
    ASSUME AuthAssumption, IsFiniteSet(Callers), IInv, RotationInv,
           NEW a \in Callers, RefreshRevoke(a)
    PROVE  RotationInv'
<1>. DEFINE F(r) == [r EXCEPT !.revoked = @ \/ r.token = ref[a].token]
<1>1. /\ refresh' = {F(r) : r \in refresh}
      /\ ref' = [ref EXCEPT ![a].step = "issue"] /\ ref \in [Callers -> Refreshing]
      /\ UNCHANGED drawn /\ ref[a].step = "lookup"
  BY DEF RefreshRevoke, IInv, TypeOK
<1>2. /\ ref'[a].step = "issue" /\ ref'[a].token = ref[a].token
      /\ \A b \in Callers \ {a} : ref'[b] = ref[b]
  BY <1>1 DEF Refreshing
<1>3. ASSUME NEW r \in refresh
      PROVE  /\ F(r).token = r.token /\ F(r).parent = r.parent
             /\ F(r).revoked = (r.revoked \/ r.token = ref[a].token)
  <2>1. r \in RefreshRow
    BY DEF IInv, TypeOK
  <2>. QED BY <2>1 DEF RefreshRow
<1>4. Last' = Last
  BY <1>1 DEF Last, PairJti
<1>. HIDE DEF F
<1>5. \A t : Holding(t)' = Holding(t)
  BY <1>1, <1>2 DEF Holding
<1>6. ASSUME NEW t PROVE Successors(t)' = {F(r) : r \in Successors(t)}
  BY <1>1, <1>3 DEF Successors
<1>7. ASSUME NEW S \in SUBSET refresh, IsFiniteSet(S)
      PROVE  /\ IsFiniteSet({F(r) : r \in S})
             /\ Cardinality({F(r) : r \in S}) <= Cardinality(S)
  <2>. DEFINE T == {F(r) : r \in S}
              f == [r \in S |-> F(r)]
  <2>1. f \in Surjection(S, T)
    BY DEF Surjection
  <2>. QED BY <1>7, <2>1, FS_Surjection
<1>8. IsFiniteSet(refresh')
  BY <1>1, <1>7 DEF RotationInv
<1>9. DrawnInv'
  BY <1>1, <1>2, <1>3, <1>4 DEF RotationInv, DrawnInv
<1>10. UnspentInv'
  <2>. SUFFICES ASSUME NEW q \in refresh', ~q.revoked
                PROVE  /\ Successors(q.token)' = {}
                       /\ \A b \in Callers : ref'[b].step = "issue" => ref'[b].token # q.token
    BY DEF UnspentInv
  <2>1. PICK r \in refresh : q = F(r)
    BY <1>1
  <2>2. q.token = r.token /\ q.revoked = (r.revoked \/ r.token = ref[a].token)
    BY <1>3, <2>1
  <2>3. ~(r.revoked \/ r.token = ref[a].token)
    BY <2>2, Zenon
  <2>4. q.token = r.token /\ ~r.revoked /\ q.token # ref[a].token
    BY <2>2, <2>3
  <2>5. Successors(q.token) = {}
        /\ \A b \in Callers : ref[b].step = "issue" => ref[b].token # q.token
    BY <2>4 DEF RotationInv, UnspentInv
  <2>. QED BY <1>2, <1>6, <2>4, <2>5
<1>11. CountInv'
  <2>. SUFFICES ASSUME NEW r \in refresh
                PROVE  Cardinality(Successors(r.token)') + Cardinality(Holding(r.token)')
                           <= Cardinality(Callers)
    BY <1>1, <1>3 DEF CountInv
  <2>1. Successors(r.token) \in SUBSET refresh
    BY DEF Successors
  <2>2. /\ Cardinality(Successors(r.token)') <= Cardinality(Successors(r.token))
        /\ Cardinality(Successors(r.token)') \in Nat
    BY <1>6, <1>7, <2>1, Counts, FS_CardinalityType DEF RotationInv
  <2>3. Cardinality(Successors(r.token)) + Cardinality(Holding(r.token))
            <= Cardinality(Callers)
    BY DEF RotationInv, CountInv
  <2>. QED BY <1>5, <2>2, <2>3, Counts DEF RotationInv
<1>. QED BY <1>8, <1>9, <1>10, <1>11 DEF RotationInv

(* A new pair: its token has no successor and no holder, and only its      *)
(* parent has one successor more.                                          *)
LEMMA NewRow ==
    ASSUME AuthAssumption, IInv, RotationInv, NEW user, NEW p \in Nat, p <= Last,
           PairFor(user, p),
           \A b \in Callers : ref'[b].step # "idle" => ref'[b] = ref[b]
    PROVE  \E n :
             /\ n \notin refresh /\ refresh' = refresh \cup {n}
             /\ n.token = Last + 1 /\ n.parent = p
             /\ IsFiniteSet(refresh') /\ DrawnInv'
             /\ Successors(p)' = Successors(p) \cup {n}
             /\ \A t : t # p => Successors(t)' = Successors(t)
             /\ Successors(n.token)' = {} /\ Holding(n.token)' = {}
             /\ \A b \in Callers : ref'[b].step # "idle" => ref'[b].token # n.token
<1>0. Last' = Last + 1
  BY Lasts DEF PairFor, IInv
<1>1. PICK n : n = [token |-> PairJti(drawn'.pair), user |-> user, exp |-> now + RefreshTtl,
                    revoked |-> FALSE, parent |-> p]
  OBVIOUS
<1>2. refresh' = refresh \cup {n} /\ n.token = Last + 1 /\ n.parent = p
  BY <1>0, <1>1 DEF PairFor, Last
<1>3. /\ Last \in Nat /\ MaxSessions \in Nat /\ MaxSessions <= Last
      /\ \A s \in refresh : s.token \in Nat /\ s.parent \in Nat
      /\ \A b \in Callers : ref[b].token \in Nat
  BY Lasts DEF IInv
<1>4. /\ \A s \in refresh : MaxSessions < s.token /\ s.token <= Last /\ s.parent <= Last
      /\ \A b \in Callers : ref[b].step # "idle" => ref[b].token <= Last
  BY DEF RotationInv, DrawnInv
<1>5. ASSUME NEW b \in Callers, ref'[b].step # "idle"
      PROVE  ref'[b].token \in Nat /\ ref'[b].token <= Last
  <2>1. ref'[b] = ref[b]
    BY <1>5
  <2>2. ref[b].step # "idle"
    BY <1>5, <2>1, Zenon
  <2>3. ref[b].token \in Nat /\ ref[b].token <= Last
    BY <1>3, <1>4, <2>2
  <2>. QED BY <2>1, <2>3
<1>6. n \notin refresh
  BY <1>2, <1>3, <1>4
<1>7. IsFiniteSet(refresh')
  BY <1>2, FS_AddElement DEF RotationInv
<1>8. DrawnInv'
  BY <1>0, <1>2, <1>3, <1>4, <1>5 DEF DrawnInv
<1>9. /\ Successors(p)' = Successors(p) \cup {n}
      /\ \A t : t # p => Successors(t)' = Successors(t)
  BY <1>2 DEF Successors
<1>10. Successors(n.token)' = {}
  <2>1. \A s \in refresh' : s.parent # n.token
    BY <1>2, <1>3, <1>4
  <2>. QED BY <2>1 DEF Successors
<1>11. \A b \in Callers : ref'[b].step # "idle" => ref'[b].token # n.token
  BY <1>2, <1>3, <1>5
<1>12. Holding(n.token)' = {}
  BY <1>11 DEF Holding
<1>. QED BY <1>2, <1>6, <1>7, <1>8, <1>9, <1>10, <1>11, <1>12

(* One holder fewer, one successor more.                                   *)
LEMMA RotationIssue ==
    ASSUME AuthAssumption, IsFiniteSet(Callers), IInv, RotationInv,
           NEW a \in Callers, RefreshIssue(a)
    PROVE  RotationInv'
<1>0. PICK p, u : p = ref[a].token /\ u = ref[a].user
  OBVIOUS
<1>1. /\ ref[a].step = "issue" /\ PairFor(ref[a].user, ref[a].token)
      /\ ref' = [ref EXCEPT ![a] = NotRefreshing] /\ ref \in [Callers -> Refreshing]
  BY DEF RefreshIssue, IInv, TypeOK
<1>2. ref'[a].step = "idle" /\ \A b \in Callers \ {a} : ref'[b] = ref[b]
  BY <1>1 DEF NotRefreshing
<1>3. p \in Nat /\ p <= Last
  BY <1>0, <1>1, Lasts DEF IInv, RotationInv, DrawnInv
<1>4. PairFor(u, p) /\ \A b \in Callers : ref'[b].step # "idle" => ref'[b] = ref[b]
  BY <1>0, <1>1, <1>2
<1>5. PICK n :
        /\ n \notin refresh /\ refresh' = refresh \cup {n}
        /\ n.token = Last + 1 /\ n.parent = p
        /\ IsFiniteSet(refresh') /\ DrawnInv'
        /\ Successors(p)' = Successors(p) \cup {n}
        /\ \A t : t # p => Successors(t)' = Successors(t)
        /\ Successors(n.token)' = {} /\ Holding(n.token)' = {}
        /\ \A b \in Callers : ref'[b].step # "idle" => ref'[b].token # n.token
  BY <1>3, <1>4, NewRow
<1>6. \A r \in refresh : ~r.revoked => r.token # p
  BY <1>0, <1>1 DEF RotationInv, UnspentInv
<1>7. UnspentInv'
  <2>. SUFFICES ASSUME NEW r \in refresh', ~r.revoked
                PROVE  /\ Successors(r.token)' = {}
                       /\ \A b \in Callers : ref'[b].step = "issue" => ref'[b].token # r.token
    BY DEF UnspentInv
  <2>1. CASE r = n
    BY <1>5, <2>1
  <2>2. CASE r \in refresh
    BY <1>2, <1>5, <1>6, <2>2 DEF RotationInv, UnspentInv
  <2>. QED BY <1>5, <2>1, <2>2
<1>8. CountInv'
  <2>. SUFFICES ASSUME NEW r \in refresh'
                PROVE  Cardinality(Successors(r.token)') + Cardinality(Holding(r.token)')
                           <= Cardinality(Callers)
    BY DEF CountInv
  <2>0. IsFiniteSet(refresh)
    BY DEF RotationInv
  <2>1. CASE r = n
    <3>1. Cardinality(Successors(r.token)') = 0 /\ Cardinality(Holding(r.token)') = 0
      BY <1>5, <2>1, FS_EmptySet
    <3>2. Cardinality(Callers) \in Nat
      BY FS_CardinalityType
    <3>. QED BY <3>1, <3>2
  <2>2. CASE r \in refresh /\ r.token # p
    <3>1. Holding(r.token)' = Holding(r.token)
      BY <1>0, <1>2, <2>2 DEF Holding
    <3>. QED BY <1>5, <2>2, <3>1 DEF RotationInv, CountInv
  <2>3. CASE r \in refresh /\ r.token = p
    <3>1. Holding(p)' = Holding(p) \ {a} /\ a \in Holding(p)
      BY <1>0, <1>1, <1>2 DEF Holding
    <3>2. /\ IsFiniteSet(Successors(p)) /\ Cardinality(Successors(p)) \in Nat
          /\ IsFiniteSet(Holding(p)) /\ Cardinality(Holding(p)) \in Nat
      BY <2>0, Counts
    <3>3. n \notin Successors(p)
      BY <1>5 DEF Successors
    <3>4. Cardinality(Successors(p)') = Cardinality(Successors(p)) + 1
      <4>1. Cardinality(Successors(p) \cup {n}) = Cardinality(Successors(p)) + 1
        BY <3>2, <3>3, FS_AddElement
      <4>. QED BY <1>5, <4>1
    <3>5. Cardinality(Holding(p)') = Cardinality(Holding(p)) - 1
      BY <3>1, <3>2, FS_RemoveElement
    <3>6. Cardinality(Successors(p)) + Cardinality(Holding(p)) <= Cardinality(Callers)
      BY <2>3 DEF RotationInv, CountInv
    <3>7. Cardinality(Callers) \in Nat
      BY FS_CardinalityType
    <3>8. Cardinality(Successors(p)') + Cardinality(Holding(p)') <= Cardinality(Callers)
      BY <3>2, <3>4, <3>5, <3>6, <3>7
    <3>. QED BY <2>3, <3>8
  <2>. QED BY <1>5, <2>1, <2>2, <2>3
<1>. QED BY <1>5, <1>7, <1>8 DEF RotationInv

(* A pair for the terminal has no parent.                                  *)
LEMMA RotationTuiIssue ==
    ASSUME AuthAssumption, IsFiniteSet(Callers), IInv, RotationInv,
           NEW d \in Devices, TuiIssue(d)
    PROVE  RotationInv'
<1>1. PairFor(tui[d].user, 0) /\ ref' = ref
  BY DEF TuiIssue
<1>2. 0 \in Nat /\ 0 <= Last /\ MaxSessions \in Nat
      /\ \A s \in refresh : s.token \in Nat /\ s.token # 0
  BY Lasts DEF IInv, RotationInv, DrawnInv
<1>3. PICK n :
        /\ n \notin refresh /\ refresh' = refresh \cup {n}
        /\ n.token = Last + 1 /\ n.parent = 0
        /\ IsFiniteSet(refresh') /\ DrawnInv'
        /\ Successors(0)' = Successors(0) \cup {n}
        /\ \A t : t # 0 => Successors(t)' = Successors(t)
        /\ Successors(n.token)' = {} /\ Holding(n.token)' = {}
        /\ \A b \in Callers : ref'[b].step # "idle" => ref'[b].token # n.token
  BY <1>1, <1>2, NewRow
<1>4. \A t : Holding(t)' = Holding(t)
  BY <1>1 DEF Holding
<1>5. ASSUME NEW r \in refresh' PROVE r = n \/ (r \in refresh /\ Successors(r.token)' = Successors(r.token))
  BY <1>2, <1>3
<1>6. UnspentInv'
  <2>. SUFFICES ASSUME NEW r \in refresh', ~r.revoked
                PROVE  /\ Successors(r.token)' = {}
                       /\ \A b \in Callers : ref'[b].step = "issue" => ref'[b].token # r.token
    BY DEF UnspentInv
  <2>1. CASE r = n
    BY <1>3, <2>1
  <2>2. CASE r # n
    BY <1>1, <1>5, <2>2 DEF RotationInv, UnspentInv
  <2>. QED BY <2>1, <2>2
<1>7. CountInv'
  <2>. SUFFICES ASSUME NEW r \in refresh'
                PROVE  Cardinality(Successors(r.token)') + Cardinality(Holding(r.token)')
                           <= Cardinality(Callers)
    BY DEF CountInv
  <2>1. CASE r = n
    <3>1. Cardinality(Successors(r.token)') = 0 /\ Cardinality(Holding(r.token)') = 0
      BY <1>3, <2>1, FS_EmptySet
    <3>2. Cardinality(Callers) \in Nat
      BY FS_CardinalityType
    <3>. QED BY <3>1, <3>2
  <2>2. CASE r # n
    BY <1>4, <1>5, <2>2 DEF RotationInv, CountInv
  <2>. QED BY <2>1, <2>2
<1>. QED BY <1>3, <1>6, <1>7 DEF RotationInv

LEMMA RotationRestart ==
    ASSUME Restart PROVE RotationInv'
<1>1. refresh' = {} /\ \A a \in Callers : ref'[a].step = "idle"
  BY DEF Restart, NotRefreshing
<1>. QED BY <1>1, FS_EmptySet DEF RotationInv, DrawnInv, UnspentInv, CountInv

(* Every other step leaves refresh tokens and refreshes alone.             *)
LEMMA RotationOthers ==
    ASSUME AuthAssumption, IInv, RotationInv,
           \/ \E b \in Browsers : BrowserStep(b)
           \/ \E d \in Devices : TuiStep(d) /\ ~TuiIssue(d)
           \/ Tick \/ UNCHANGED vars
    PROVE  RotationInv'
<1>. DEFINE Kept == UNCHANGED <<refresh, ref>>
                    /\ (drawn' = drawn \/ DrawUser \/ DrawCode \/ DrawSession)
<1>1. ASSUME NEW b \in Browsers, BrowserStep(b) PROVE Kept
  <2>1. ASSUME NEW e \in Emails, GoogleCallback(b, e) \/ DevCallback(b, e) PROVE Kept
    BY <2>1 DEF GoogleCallback, DevCallback, Upsert
  <2>2. ASSUME NEW c \in codes, Approve(b, c) PROVE Kept
    BY <2>2 DEF Approve
  <2>3. CASE GoogleStart(b) \/ InsertUser(b) \/ SignSession(b) \/ GateVerify(b) \/ GateCheck(b)
             \/ Serve(b) \/ LogoutVerify(b) \/ LogoutRevoke(b)
    BY <2>3 DEF GoogleStart, InsertUser, SignSession, GateVerify, GateCheck, Serve,
                LogoutVerify, LogoutRevoke, memory
  <2>. QED BY <1>1, <2>1, <2>2, <2>3 DEF BrowserStep
<1>2. ASSUME NEW d \in Devices, TuiStep(d), ~TuiIssue(d) PROVE Kept
  BY <1>2 DEF TuiStep, TuiReuse, TuiPrompt, TuiPoll, TuiSave, TuiLost, TuiConnect, TuiQuit,
              memory
<1>3. Tick => Kept
  BY DEF Tick, memory, clients
<1>4. UNCHANGED vars => Kept
  BY DEF vars
<1>5. Kept
  BY <1>1, <1>2, <1>3, <1>4
<1>6. Last' = Last
  BY <1>5, Lasts DEF IInv, Last
<1>. QED BY <1>5, <1>6, RotationAlone

LEMMA RotationStep ==
    ASSUME AuthAssumption, IsFiniteSet(Callers), IInv, RotationInv, [Next]_vars
    PROVE  RotationInv'
<1>1. ASSUME NEW a \in Callers, RefreshStep(a) PROVE RotationInv'
  BY <1>1, RotationRead, RotationRevoke, RotationIssue DEF RefreshStep
<1>2. ASSUME NEW d \in Devices, TuiStep(d) PROVE RotationInv'
  BY <1>2, RotationTuiIssue, RotationOthers
<1>. QED BY <1>1, <1>2, RotationOthers, RotationRestart DEF Next

(* However many holders refresh with one token at once, however their      *)
(* reads, revocations and issues interleave, and whatever else is issued   *)
(* or forgotten meanwhile, each holder gets at most one successor of it    *)
(* (auth/routes.ts, /auth/token/refresh).                                  *)
THEOREM OneSuccessorPerHolder ==
    AuthAssumption /\ IsFiniteSet(Callers) => (Spec => []OneSuccessorEach)
<1>. SUFFICES ASSUME AuthAssumption, IsFiniteSet(Callers) PROVE Spec => []OneSuccessorEach
  OBVIOUS
<1>1. Init => RotationInv
  BY RotationInit
<1>2. IInv /\ RotationInv /\ [Next]_vars => RotationInv'
  BY RotationStep
<1>3. RotationInv => OneSuccessorEach
  <2>. SUFFICES ASSUME RotationInv, NEW r \in refresh
                PROVE  Cardinality(Successors(r.token)) <= Cardinality(Callers)
    BY DEF OneSuccessorEach, Successors
  <2>1. Cardinality(Successors(r.token)) + Cardinality(Holding(r.token))
            <= Cardinality(Callers)
    BY DEF RotationInv, CountInv
  <2>. QED BY <2>1, Counts DEF RotationInv
<1>. QED BY <1>1, <1>2, <1>3, Invariant, PTL DEF Spec

==============================================================================
