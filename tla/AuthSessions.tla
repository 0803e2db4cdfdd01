----------------------------- MODULE AuthSessions -----------------------------
(***************************************************************************)
(* Signing in and staying signed in: OAuth sign-in of a browser, session   *)
(* tokens and the gate in front of every route, logout, the device-code    *)
(* flow of the terminal client, refresh tokens, and a restart of the       *)
(* server between any two steps.                                           *)
(*                                                                         *)
(* server/src/auth/{routes,store,sqlite-user-store,session,middleware,     *)
(* hocuspocus,dev-routes}.ts and tui/src/bartleby_tui/auth.py.             *)
(*                                                                         *)
(* A signed token is its claims: nothing of the server's memory is needed  *)
(* to check it, so it survives a restart; the denylist, the device codes   *)
(* and the refresh tokens do not.  A handler is one action per stretch     *)
(* between awaits.  Display names, colours and the page a sign-in returns  *)
(* to are left out.                                                        *)
(***************************************************************************)
EXTENDS Naturals, FiniteSets

CONSTANTS
    Emails,
    Allowed,        \* the allowlist
    Browsers,
    Devices,        \* installations of the terminal client
    Callers,        \* holders of a refresh token that use /auth/token/refresh
    None,
    SessionTtl, AccessTtl, RefreshTtl, CodeTtl,     \* lifetimes, in ticks
    Skew,           \* TOKEN_EXPIRY_SKEW_SECONDS
    Timeout,        \* the client's HTTP timeout
    DevSignIn,      \* ALLOW_TEST_SIGN_IN
    MaxNow, MaxEra,             \* bounds: time, restarts,
    MaxUsers, MaxCodes, MaxSessions, MaxPairs   \* and values drawn of each kind

AuthAssumption ==
    /\ Allowed \subseteq Emails
    /\ None \notin Emails
    /\ {SessionTtl, AccessTtl, RefreshTtl, CodeTtl, Skew, Timeout} \subseteq Nat
    /\ {MaxNow, MaxEra, MaxUsers, MaxCodes, MaxSessions, MaxPairs} \subseteq Nat
    /\ DevSignIn \in BOOLEAN

\* Ten seconds of HTTP timeout against thirty of skew.
TimeoutWithinSkew == Timeout <= Skew

VARIABLES
    now, era,           \* clock, restarts so far
    drawn,              \* how many values of each kind were drawn
    users,              \* rows of the users table
    minted,             \* identities minted by this process, by email
    revoked, codes, refresh,    \* the rest of the process's memory
    jwts,               \* tokens ever signed
    browser, req,       \* cookie jar, request under way
    tui, keyring,       \* the terminal client and what it stored
    ref                 \* refresh requests under way

vars == <<now, era, drawn, users, minted, revoked, codes, refresh, jwts,
          browser, req, tui, keyring, ref>>
memory == <<minted, revoked, codes, refresh>>
clients == <<browser, req, tui, keyring, ref>>
clock == <<now, era>>

------------------------------------------------------------------------------
(* State.  A drawn value is the number of its draw, and 0 is none; the     *)
(* access and the refresh token of a pair bear the same number, above      *)
(* those of the browsers' sessions.                                        *)

Ids == 0 .. MaxUsers
Codes == 0 .. MaxCodes
Jtis == 0 .. MaxSessions + MaxPairs
Times == 0 .. (MaxNow + SessionTtl + AccessTtl + RefreshTtl + CodeTtl)

UserRow == [id: Ids, email: Emails]
Jwt == [jti: Jtis, user: Ids, email: Emails, exp: Times]
CodeRow == [code: Codes, user: Ids, exp: Times]
RefreshRow == [token: Jtis, user: Ids, exp: Times, revoked: BOOLEAN, parent: Jtis]

\* asked: the state cookie of the last start is in the jar; a callback with
\* an older state is a 400 that changes nothing, and is left out.
Browser == [asked: BOOLEAN, session: Jtis]
NewBrowser == [asked |-> FALSE, session |-> 0]

Request == [step: {"idle", "insert", "sign", "check", "admitted", "revoke"},
            user: Ids, email: Emails \cup {None}, jti: Jtis]
NoRequest == [step |-> "idle", user |-> 0, email |-> None, jti |-> 0]

Tui == [phase: {"off", "polling", "issuing", "answered", "ready", "live", "failed"},
        code: Codes, user: Ids, jti: Jtis, since: 0 .. MaxNow]
TuiOff == [phase |-> "off", code |-> 0, user |-> 0, jti |-> 0, since |-> 0]

Tokens == [jti: Jtis, exp: Times]
NoTokens == [jti |-> 0, exp |-> 0]

Refreshing == [step: {"idle", "lookup", "issue"}, token: Jtis, user: Ids]
NotRefreshing == [step |-> "idle", token |-> 0, user |-> 0]

TypeOK ==
    /\ now \in 0 .. MaxNow /\ era \in 0 .. MaxEra
    /\ drawn \in [user: Ids, code: Codes, session: 0 .. MaxSessions, pair: 0 .. MaxPairs]
    /\ users \in SUBSET UserRow
    /\ minted \in [Emails -> Ids]
    /\ revoked \in SUBSET Jtis
    /\ codes \in SUBSET CodeRow
    /\ refresh \in SUBSET RefreshRow
    /\ jwts \in SUBSET Jwt
    /\ browser \in [Browsers -> Browser]
    /\ req \in [Browsers -> Request]
    /\ tui \in [Devices -> Tui]
    /\ keyring \in [Devices -> Tokens]
    /\ ref \in [Callers -> Refreshing]

Init ==
    /\ now = 0 /\ era = 0
    /\ drawn = [user |-> 0, code |-> 0, session |-> 0, pair |-> 0]
    /\ users = {} /\ jwts = {}
    /\ minted = [e \in Emails |-> 0]
    /\ revoked = {} /\ codes = {} /\ refresh = {}
    /\ browser = [b \in Browsers |-> NewBrowser]
    /\ req = [b \in Browsers |-> NoRequest]
    /\ tui = [d \in Devices |-> TuiOff]
    /\ keyring = [d \in Devices |-> NoTokens]
    /\ ref = [a \in Callers |-> NotRefreshing]

DrawUser == drawn.user < MaxUsers /\ drawn' = [drawn EXCEPT !.user = @ + 1]
DrawCode == drawn.code < MaxCodes /\ drawn' = [drawn EXCEPT !.code = @ + 1]
DrawSession == drawn.session < MaxSessions /\ drawn' = [drawn EXCEPT !.session = @ + 1]
DrawPair == drawn.pair < MaxPairs /\ drawn' = [drawn EXCEPT !.pair = @ + 1]
PairJti(n) == MaxSessions + n

------------------------------------------------------------------------------
(* Checking a token.                                                       *)

\* The signature, and the expiry against the clock.
Verified(j) == \E t \in jwts : t.jti = j /\ t.exp > now

\* What the gate, the approval page and the socket's hook all require of a token.
Admits(j) ==
    \E t \in jwts :
        /\ t.jti = j /\ t.exp > now
        /\ j \notin revoked
        /\ \E u \in users : u.id = t.user

------------------------------------------------------------------------------
(* Browser sign-in.                                                        *)

\* A state value goes into the cookie and into the address Google returns to.
GoogleStart(b) ==
    /\ req[b].step = "idle"
    /\ browser' = [browser EXCEPT ![b].asked = TRUE]
    /\ UNCHANGED <<clock, drawn, users, jwts, memory, req, tui, keyring, ref>>

\* Looking the email up and, for a new one, minting the identity: what
\* happens before the first await of upsertUserByEmail gives way.
Upsert(b, e) ==
    \/ \E u \in users :
        /\ u.email = e
        /\ req' = [req EXCEPT ![b] =
                [step |-> "sign", user |-> u.id, email |-> e, jti |-> 0]]
        /\ UNCHANGED <<minted, drawn>>
    \/ /\ \A u \in users : u.email # e
       /\ IF minted[e] # 0
          THEN UNCHANGED <<minted, drawn>>
          ELSE DrawUser /\ minted' = [minted EXCEPT ![e] = drawn'.user]
       /\ req' = [req EXCEPT ![b] =
                [step |-> "insert", user |-> minted'[e], email |-> e, jti |-> 0]]

\* Back from Google as e; an email that is not on the allowlist gets a 403
\* and loses the state cookie.
GoogleCallback(b, e) ==
    /\ req[b].step = "idle"
    /\ browser[b].asked
    /\ IF e \in Allowed
       THEN Upsert(b, e) /\ UNCHANGED browser
       ELSE /\ browser' = [browser EXCEPT ![b].asked = FALSE]
            /\ UNCHANGED <<req, minted, drawn>>
    /\ UNCHANGED <<clock, users, jwts, revoked, codes, refresh, tui, keyring, ref>>

\* The test-only sign-in: the same upsert, without Google or the allowlist.
DevCallback(b, e) ==
    /\ DevSignIn
    /\ req[b].step = "idle"
    /\ Upsert(b, e)
    /\ UNCHANGED <<clock, users, jwts, revoked, codes, refresh, browser, tui, keyring, ref>>

\* The row is inserted; the email is unique, so the slower of two first
\* sign-ins fails here.
InsertUser(b) ==
    /\ req[b].step = "insert"
    /\ IF \E u \in users : u.email = req[b].email
       THEN req' = [req EXCEPT ![b] = NoRequest] /\ UNCHANGED users
       ELSE /\ users' = users \cup {[id |-> req[b].user, email |-> req[b].email]}
            /\ req' = [req EXCEPT ![b].step = "sign"]
    /\ UNCHANGED <<clock, drawn, jwts, memory, browser, tui, keyring, ref>>

\* The session token is signed and set.
SignSession(b) ==
    /\ req[b].step = "sign"
    /\ DrawSession
    /\ jwts' = jwts \cup {[jti |-> drawn'.session, user |-> req[b].user,
                           email |-> req[b].email, exp |-> now + SessionTtl]}
    /\ browser' = [browser EXCEPT ![b] =
            [asked |-> FALSE, session |-> drawn'.session]]
    /\ req' = [req EXCEPT ![b] = NoRequest]
    /\ UNCHANGED <<clock, users, memory, tui, keyring, ref>>

------------------------------------------------------------------------------
(* The gate, logout and the approval of a code.                            *)

GateVerify(b) ==
    /\ req[b].step = "idle"
    /\ Verified(browser[b].session)
    /\ req' = [req EXCEPT ![b].step = "check", ![b].jti = browser[b].session]
    /\ UNCHANGED <<clock, drawn, users, jwts, memory, browser, tui, keyring, ref>>

GateCheck(b) ==
    /\ req[b].step = "check"
    /\ \E t \in jwts :
        /\ t.jti = req[b].jti
        /\ req' = IF req[b].jti \notin revoked /\ \E u \in users : u.id = t.user
                  THEN [req EXCEPT ![b].step = "admitted", ![b].user = t.user]
                  ELSE [req EXCEPT ![b] = NoRequest]
    /\ UNCHANGED <<clock, drawn, users, jwts, memory, browser, tui, keyring, ref>>

\* An admitted request that changes nothing here: /auth/me, or any other route.
Serve(b) ==
    /\ req[b].step = "admitted"
    /\ req' = [req EXCEPT ![b] = NoRequest]
    /\ UNCHANGED <<clock, drawn, users, jwts, memory, browser, tui, keyring, ref>>

\* The code typed on the page is attached to the user; a later approval of
\* the same code overwrites it, and an unknown code is a 404.
Approve(b, c) ==
    /\ req[b].step = "admitted"
    /\ c \in codes
    /\ codes' = (codes \ {c}) \cup {[c EXCEPT !.user = req[b].user]}
    /\ req' = [req EXCEPT ![b] = NoRequest]
    /\ UNCHANGED <<clock, drawn, users, jwts, minted, revoked, refresh,
                   browser, tui, keyring, ref>>

\* Logout answers ok whatever the cookie was; a token that still verifies is
\* put on the denylist after the verification's await.
LogoutVerify(b) ==
    /\ req[b].step = "idle"
    /\ browser[b].session # 0
    /\ IF Verified(browser[b].session)
       THEN /\ req' = [req EXCEPT ![b].step = "revoke", ![b].jti = browser[b].session]
            /\ UNCHANGED browser
       ELSE browser' = [browser EXCEPT ![b].session = 0] /\ UNCHANGED req
    /\ UNCHANGED <<clock, drawn, users, jwts, memory, tui, keyring, ref>>

LogoutRevoke(b) ==
    /\ req[b].step = "revoke"
    /\ revoked' = revoked \cup {req[b].jti}
    /\ browser' = [browser EXCEPT ![b].session = 0]
    /\ req' = [req EXCEPT ![b] = NoRequest]
    /\ UNCHANGED <<clock, drawn, users, jwts, minted, codes, refresh, tui, keyring, ref>>

------------------------------------------------------------------------------
(* Tokens for a client without a browser.                                  *)

\* issueDeviceTokenPair: an access token and a stored refresh token.
PairFor(user, parent) ==
    /\ DrawPair
    /\ \E u \in users :
        /\ u.id = user
        /\ jwts' = jwts \cup {[jti |-> PairJti(drawn'.pair), user |-> user,
                               email |-> u.email, exp |-> now + AccessTtl]}
    /\ refresh' = refresh \cup {[token |-> PairJti(drawn'.pair), user |-> user,
                exp |-> now + RefreshTtl, revoked |-> FALSE, parent |-> parent]}

\* Faulty: the revocation is not looked at.
RefreshReadAny(a, r) ==
    /\ ref[a].step = "idle"
    /\ r \in refresh
    /\ r.exp > now
    /\ ref' = [ref EXCEPT ![a] = [step |-> "lookup", token |-> r.token, user |-> r.user]]
    /\ UNCHANGED <<clock, drawn, users, jwts, memory, browser, req, tui, keyring>>

\* A refresh: the token is read, the user looked up, and only then is the
\* token revoked.
RefreshRead(a, r) ==
    /\ ref[a].step = "idle"
    /\ r \in refresh
    /\ ~r.revoked /\ r.exp > now
    /\ ref' = [ref EXCEPT ![a] = [step |-> "lookup", token |-> r.token, user |-> r.user]]
    /\ UNCHANGED <<clock, drawn, users, jwts, memory, browser, req, tui, keyring>>

RefreshRevoke(a) ==
    /\ ref[a].step = "lookup"
    /\ refresh' = {[r EXCEPT !.revoked = @ \/ r.token = ref[a].token] : r \in refresh}
    /\ ref' = [ref EXCEPT ![a].step = "issue"]
    /\ UNCHANGED <<clock, drawn, users, jwts, minted, revoked, codes,
                   browser, req, tui, keyring>>

RefreshIssue(a) ==
    /\ ref[a].step = "issue"
    /\ PairFor(ref[a].user, ref[a].token)
    /\ ref' = [ref EXCEPT ![a] = NotRefreshing]
    /\ UNCHANGED <<clock, users, minted, revoked, codes, browser, req, tui, keyring>>

------------------------------------------------------------------------------
(* The terminal client.                                                    *)

\* Faulty: the token is used to its last tick.
ReusableUntilExpiry(d) == keyring[d].jti # 0 /\ keyring[d].exp > now

\* The stored access token is used while it is further than the skew from
\* expiry; nothing tries the stored refresh token.
Reusable(d) == keyring[d].jti # 0 /\ keyring[d].exp > now + Skew

TuiReuse(d) ==
    /\ tui[d].phase = "off"
    /\ Reusable(d)
    /\ tui' = [tui EXCEPT ![d] = [TuiOff EXCEPT !.phase = "ready", !.jti = keyring[d].jti]]
    /\ UNCHANGED <<clock, drawn, users, jwts, memory, browser, req, keyring, ref>>

\* /auth/device/start: a new code, shown to the user.
TuiPrompt(d) ==
    /\ tui[d].phase = "off"
    /\ ~Reusable(d)
    /\ DrawCode
    /\ codes' = codes \cup {[code |-> drawn'.code, user |-> 0, exp |-> now + CodeTtl]}
    /\ tui' = [tui EXCEPT ![d] = [TuiOff EXCEPT !.phase = "polling", !.code = drawn'.code]]
    /\ UNCHANGED <<clock, users, jwts, minted, revoked, refresh, browser, req, keyring, ref>>

\* A poll of an unapproved code changes nothing; an expired code ends the
\* client, and so does one that a restart forgot.
TuiPoll(d) ==
    /\ tui[d].phase = "polling"
    /\ \/ /\ \A c \in codes : c.code = tui[d].code => c.exp <= now
          /\ tui' = [tui EXCEPT ![d].phase = "failed"]
       \/ \E c \in codes :
            /\ c.code = tui[d].code /\ c.exp > now /\ c.user # 0
            /\ tui' = [tui EXCEPT ![d].phase = "issuing", ![d].user = c.user]
    /\ UNCHANGED <<clock, drawn, users, jwts, memory, browser, req, keyring, ref>>

TuiIssue(d) ==
    /\ tui[d].phase = "issuing"
    /\ PairFor(tui[d].user, 0)
    /\ tui' = [tui EXCEPT ![d].phase = "answered", ![d].jti = PairJti(drawn'.pair),
                          ![d].since = now]
    /\ UNCHANGED <<clock, users, minted, revoked, codes, browser, req, keyring, ref>>

\* The client dates the token from the arrival of the answer, later than
\* the server did by what the answer took.
TuiSave(d) ==
    /\ tui[d].phase = "answered"
    /\ now <= tui[d].since + Timeout
    /\ keyring' = [keyring EXCEPT ![d] =
            [jti |-> tui[d].jti, exp |-> now + AccessTtl]]
    /\ tui' = [tui EXCEPT ![d].phase = "ready"]
    /\ UNCHANGED <<clock, drawn, users, jwts, memory, browser, req, ref>>

\* A request that fails or times out ends the client with an exception.
TuiLost(d) ==
    /\ tui[d].phase \in {"polling", "issuing", "answered", "ready"}
    /\ tui' = [tui EXCEPT ![d].phase = "failed"]
    /\ UNCHANGED <<clock, drawn, users, jwts, memory, browser, req, keyring, ref>>

\* /auth/me, and then the socket, with the token as bearer.
TuiConnect(d) ==
    /\ tui[d].phase = "ready"
    /\ tui' = [tui EXCEPT ![d].phase = IF Admits(tui[d].jti) THEN "live" ELSE "failed"]
    /\ UNCHANGED <<clock, drawn, users, jwts, memory, browser, req, keyring, ref>>

TuiQuit(d) ==
    /\ tui[d].phase \in {"live", "failed"}
    /\ tui' = [tui EXCEPT ![d] = TuiOff]
    /\ UNCHANGED <<clock, drawn, users, jwts, memory, browser, req, keyring, ref>>

------------------------------------------------------------------------------
(* Time and restarts.                                                      *)

Tick ==
    /\ now < MaxNow
    /\ now' = now + 1
    /\ UNCHANGED <<drawn, era, users, jwts, memory, clients>>

\* Faulty: the users table is in memory as well.
RestartInMemory ==
    /\ era < MaxEra
    /\ era' = era + 1
    /\ users' = {}
    /\ minted' = [e \in Emails |-> 0]
    /\ revoked' = {} /\ codes' = {} /\ refresh' = {}
    /\ req' = [b \in Browsers |-> NoRequest]
    /\ ref' = [a \in Callers |-> NotRefreshing]
    /\ UNCHANGED <<now, drawn, jwts, browser, tui, keyring>>

\* The users table is on disk; everything else the server knew is gone, and
\* with it every request under way.
Restart ==
    /\ era < MaxEra
    /\ era' = era + 1
    /\ minted' = [e \in Emails |-> 0]
    /\ revoked' = {} /\ codes' = {} /\ refresh' = {}
    /\ req' = [b \in Browsers |-> NoRequest]
    /\ ref' = [a \in Callers |-> NotRefreshing]
    /\ tui' = [d \in Devices |->
                IF tui[d].phase \in {"issuing", "answered"}
                THEN [tui[d] EXCEPT !.phase = "failed"] ELSE tui[d]]
    /\ UNCHANGED <<now, drawn, users, jwts, browser, keyring>>

BrowserStep(b) ==
    \/ GoogleStart(b) \/ InsertUser(b) \/ SignSession(b)
    \/ GateVerify(b) \/ GateCheck(b) \/ Serve(b)
    \/ LogoutVerify(b) \/ LogoutRevoke(b)
    \/ \E e \in Emails : GoogleCallback(b, e) \/ DevCallback(b, e)
    \/ \E c \in codes : Approve(b, c)

RefreshStep(a) ==
    \/ \E r \in refresh : RefreshRead(a, r)
    \/ RefreshRevoke(a) \/ RefreshIssue(a)

TuiStep(d) ==
    \/ TuiReuse(d) \/ TuiPrompt(d) \/ TuiPoll(d) \/ TuiIssue(d) \/ TuiSave(d)
    \/ TuiLost(d) \/ TuiConnect(d) \/ TuiQuit(d)

Next ==
    \/ \E b \in Browsers : BrowserStep(b)
    \/ \E a \in Callers : RefreshStep(a)
    \/ \E d \in Devices : TuiStep(d)
    \/ Tick \/ Restart

Spec == Init /\ [][Next]_vars

------------------------------------------------------------------------------
(* Properties.                                                             *)

\* Two first sign-ins at once, a restart that forgets the minted identities,
\* a sign-in years later: every token ever signed for an email names the
\* same user, the one in the table, so that what was written under an
\* identity stays with it (sqlite-user-store.ts).
OneIdentityPerEmail ==
    /\ \A u, v \in users : u.email = v.email \/ u.id = v.id => u = v
    /\ \A t \in jwts : [id |-> t.user, email |-> t.email] \in users

\* Whatever the terminal client would start with right now, the server would
\* admit right now: the answer's delay is covered by the skew, a restart
\* keeps the user, and nothing revokes an access token (auth.py, session.ts).
StoredTokenAdmitted ==
    \A d \in Devices : Reusable(d) => Admits(keyring[d].jti)

\* Rotation, as far as it goes: a refresh token is read before it is revoked,
\* so two holders that refresh at once both get a successor, but no holder
\* gets two, whatever else refreshes, and a spent token stays spent
\* (auth/routes.ts, /auth/token/refresh).
OneSuccessorEach ==
    \A r \in refresh :
        Cardinality({s \in refresh : s.parent = r.token}) <= Cardinality(Callers)

==============================================================================
