------------------------------- MODULE Sessions -------------------------------
(***************************************************************************)
(* The tokens of one user: login, refresh and logout, the signed tokens    *)
(* themselves, which expire by their own clock, and the blacklist of       *)
(* logged-out tokens, which is kept twice, in a memory cache and in the    *)
(* table token_blacklist.                                                  *)
(*                                                                         *)
(* A lookup asks the memory first and the table second, as two steps; a    *)
(* logout writes the memory first and the table second, the access token   *)
(* first and the refresh token of the cookie second.  A failed write of    *)
(* the table is logged, and a failed read counts as "not blacklisted".     *)
(***************************************************************************)
EXTENDS Naturals

CONSTANTS
  Tokens,         \* identities of tokens
  Requests,       \* slots of concurrent requests
  NoToken,        \* a token that has not been issued; a request without the cookie
  NoRow,          \* token_blacklist has no row for the token
  AccessTTL, RefreshTTL,   \* lifetimes of the two kinds of tokens, in ticks
  BlacklistTTL,   \* TokenBlacklistCache.ttl
  MaxTokenFaults  \* bound: failed statements, evictions and restarts

MaxSession == AccessTTL + RefreshTTL

\* What the signature vouches for is the time a token has left.  The history adds the ticks
\* since the login at which the role in its claims was read, up to MaxSession, and its kind:
\* as issued by Login or for a refresh token, or "renewed", for a token that was not one.
Claims == [left : 0..MaxSession, age : 0..MaxSession, kind : {"access", "refresh", "renewed"}]

SessionsAssumption ==
  /\ NoToken \notin Tokens \cup Claims
  /\ AccessTTL \in Nat \ {0} /\ RefreshTTL \in Nat \ {0} /\ BlacklistTTL \in Nat \ {0}
  /\ NoRow \notin 0..BlacklistTTL
  /\ MaxTokenFaults \in Nat

VARIABLES
  tok,        \* tok[t]: the claims of token t
  mem,        \* mem[t]: ticks that the key "blacklist:<t>" has left, 0 when it is absent
  tbl,        \* tbl[t]: ticks that the row of t's hash has left, 0 when it has expired
  spc,        \* spc[r]: the next step of request r
  op,         \* op[r]: what the request is
  shown,      \* shown[r]: the token that AuthMiddleware or RefreshToken looks at
  cookie,     \* cookie[r]: the refresh token that a logout finds in its cookie
  shield,     \* history: ticks for which a token is promised to be refused after its logout
  unsaved,    \* history: tokens whose row could not be written
  guarded,    \* history: guarded[r]: r's token was promised to be refused since r began
  slipped,    \* history: a guarded request has been let through
  tokenFaults

requests == <<spc, op, shown, cookie, guarded>>
vars     == <<tok, mem, tbl, requests, shield, unsaved, slipped, tokenFaults>>

-----------------------------------------------------------------------------
Init ==
  /\ tok = [t \in Tokens |-> NoToken]
  /\ mem = [t \in Tokens |-> 0]
  /\ tbl = [t \in Tokens |-> NoRow]
  /\ spc = [r \in Requests |-> "idle"]
  /\ op = [r \in Requests |-> "use"]
  /\ shown = [r \in Requests |-> NoToken]
  /\ cookie = [r \in Requests |-> NoToken]
  /\ shield = [t \in Tokens |-> 0]
  /\ unsaved = {}
  /\ guarded = [r \in Requests |-> FALSE]
  /\ slipped = FALSE
  /\ tokenFaults = 0

Fault == tokenFaults < MaxTokenFaults /\ tokenFaults' = tokenFaults + 1

Issued == {t \in Tokens : tok[t] # NoToken}

\* The cookie refresh_token is only ever set by Login.
Cookies == {t \in Issued : tok[t].kind = "refresh"}

-----------------------------------------------------------------------------
(* Login.  The account may be active or not, whenever it is asked for.       *)

NewToken(left, k) == [left |-> left, age |-> 0, kind |-> k]

\* Login reads the row and signs two tokens; nobody else sees anything in between.
Login ==
  /\ \E a, f \in Tokens \ Issued :
       /\ a # f
       /\ tok' = [tok EXCEPT ![a] = NewToken(AccessTTL, "access"),
                             ![f] = NewToken(RefreshTTL, "refresh")]
  /\ UNCHANGED <<mem, tbl, requests, shield, unsaved, slipped, tokenFaults>>

-----------------------------------------------------------------------------
(* IsBlacklisted, then ValidateToken: AuthMiddleware for an API request or a *)
(* logout, the handler RefreshToken for a refresh.                           *)

\* A client may show any token it has been given for any purpose: the claims do not say
\* which kind a token is.
Begin(r, kind, t, c) ==
  /\ spc[r] = "idle"
  /\ spc' = [spc EXCEPT ![r] = "memory"]
  /\ op' = [op EXCEPT ![r] = kind]
  /\ shown' = [shown EXCEPT ![r] = t]
  /\ cookie' = [cookie EXCEPT ![r] = c]
  /\ guarded' = [guarded EXCEPT ![r] = shield[t] > 0]
  /\ UNCHANGED <<tok, mem, tbl, shield, unsaved, slipped, tokenFaults>>

\* The request ends, or leaves the checks for the rest of its handler.
Continue(r, step) ==
  /\ spc' = [spc EXCEPT ![r] = step]
  /\ guarded' = [guarded EXCEPT ![r] = FALSE]
  /\ IF step = "idle"
     THEN /\ op' = [op EXCEPT ![r] = "use"]
          /\ shown' = [shown EXCEPT ![r] = NoToken]
          /\ cookie' = [cookie EXCEPT ![r] = NoToken]
     ELSE UNCHANGED <<op, shown, cookie>>

CheckMemory(r) ==
  /\ spc[r] = "memory"
  /\ IF mem[shown[r]] > 0
     THEN Continue(r, "idle")
     ELSE /\ spc' = [spc EXCEPT ![r] = "table"]
          /\ UNCHANGED <<op, shown, cookie, guarded>>
  /\ UNCHANGED <<tok, mem, tbl, shield, unsaved, slipped, tokenFaults>>

\* The rows that have not expired.
InTable(t) == tbl[t] # NoRow /\ tbl[t] > 0

\* A hit is put into the memory for the whole lifetime again.
CheckTable(r) ==
  /\ spc[r] = "table"
  /\ IF InTable(shown[r])
     THEN /\ mem' = [mem EXCEPT ![shown[r]] = BlacklistTTL]
          /\ Continue(r, "idle")
     ELSE /\ spc' = [spc EXCEPT ![r] = "validate"]
          /\ UNCHANGED <<mem, op, shown, cookie, guarded>>
  /\ UNCHANGED <<tok, tbl, shield, unsaved, slipped, tokenFaults>>

\* An error of the database counts as no row.
CheckTableFails(r) ==
  /\ spc[r] = "table" /\ Fault
  /\ spc' = [spc EXCEPT ![r] = "validate"]
  /\ guarded' = [guarded EXCEPT ![r] = FALSE]
  /\ UNCHANGED <<tok, mem, tbl, op, shown, cookie, shield, unsaved, slipped>>

Valid(t) == tok[t].left > 0

\* The claims and the account are good: an API request goes on to its handler, a logout
\* to the blacklist.  (The account's status is read through the cache of Accounts.)
Admit(r) ==
  /\ spc[r] = "validate" /\ op[r] # "refresh"
  /\ Valid(shown[r])
  /\ slipped' = (slipped \/ guarded[r])
  /\ Continue(r, IF op[r] = "use" THEN "idle" ELSE "addMemory")
  /\ UNCHANGED <<tok, mem, tbl, shield, unsaved, tokenFaults>>

\* The token has expired, the account is disabled, is still cached as disabled, or could
\* not be read.
Refuse(r) ==
  /\ spc[r] = "validate"
  /\ Continue(r, "idle")
  /\ UNCHANGED <<tok, mem, tbl, shield, unsaved, slipped, tokenFaults>>

\* The token shown stays as it is; the new one has its claims and a life of its own.
Exchanged_Renewed(c) == [c EXCEPT !.left = RefreshTTL]

Exchanged(c) ==
  [c EXCEPT !.kind = IF @ = "refresh" THEN "access" ELSE "renewed", !.left = AccessTTL]

\* RefreshAccessToken and FindByID.
Refresh(r) ==
  /\ spc[r] = "validate" /\ op[r] = "refresh"
  /\ Valid(shown[r])
  /\ \E a \in Tokens \ Issued : tok' = [tok EXCEPT ![a] = Exchanged(tok[shown[r]])]
  /\ slipped' = (slipped \/ guarded[r])
  /\ Continue(r, "idle")
  /\ UNCHANGED <<mem, tbl, shield, unsaved, tokenFaults>>

-----------------------------------------------------------------------------
(* AddToBlacklist for the token that the logout has shown, then for the one *)
(* in its cookie.                                                           *)

Adding(r) == IF spc[r] \in {"addMemory", "addRow"} THEN shown[r] ELSE cookie[r]

AddMemory(r) ==
  /\ spc[r] \in {"addMemory", "addCookieMemory"}
  /\ mem' = [mem EXCEPT ![Adding(r)] = BlacklistTTL]
  /\ spc' = [spc EXCEPT ![r] = IF spc[r] = "addMemory" THEN "addRow" ELSE "addCookieRow"]
  /\ UNCHANGED <<tok, tbl, op, shown, cookie, shield, unsaved, guarded, slipped, tokenFaults>>

AfterRow_NoCookie(r) == "answer"

AfterRow(r) ==
  IF spc[r] = "addRow" /\ cookie[r] # NoToken THEN "addCookieMemory" ELSE "answer"

\* token_hash is unique: a second row for one token is an error, and is only logged.
AddRow(r) ==
  /\ spc[r] \in {"addRow", "addCookieRow"}
  /\ tbl' = [tbl EXCEPT ![Adding(r)] = IF @ = NoRow THEN BlacklistTTL ELSE @]
  /\ spc' = [spc EXCEPT ![r] = AfterRow(r)]
  /\ UNCHANGED <<tok, mem, op, shown, cookie, shield, unsaved, guarded, slipped, tokenFaults>>

AddRowFails(r) ==
  /\ spc[r] \in {"addRow", "addCookieRow"} /\ Fault
  /\ unsaved' = IF tbl[Adding(r)] = NoRow THEN unsaved \cup {Adding(r)} ELSE unsaved
  /\ spc' = [spc EXCEPT ![r] = AfterRow(r)]
  /\ UNCHANGED <<tok, mem, tbl, op, shown, cookie, shield, guarded, slipped>>

\* Both copies are new, or the only one is.
Promised(t) == tbl[t] = BlacklistTTL \/ (tbl[t] = NoRow /\ mem[t] = BlacklistTTL)

\* Logout answers that the user is logged out.  The promise is counted from a token's
\* first logout.
Answer(r) ==
  /\ spc[r] = "answer"
  /\ Continue(r, "idle")
  /\ shield' = [t \in Tokens |->
                  IF t \in {shown[r], cookie[r]} /\ Promised(t) THEN BlacklistTTL ELSE shield[t]]
  /\ UNCHANGED <<tok, mem, tbl, unsaved, slipped, tokenFaults>>

-----------------------------------------------------------------------------
Less_Wrapping(n) == n - 1

\* A time that has run out stays so.
Less(n) == IF n = 0 THEN 0 ELSE n - 1

\* The age of a token that has run out does not matter any more, nor one beyond MaxSession.
Older(c) == IF c.left <= 1 THEN 0 ELSE IF c.age = MaxSession THEN MaxSession ELSE c.age + 1

\* A tick is long beside the writes of a logout.
Tick ==
  /\ \A r \in Requests : spc[r] \in {"idle", "memory", "table", "validate"}
  /\ tok' = [t \in Tokens |->
               IF tok[t] = NoToken THEN NoToken
               ELSE [tok[t] EXCEPT !.left = Less(@), !.age = Older(tok[t])]]
  /\ mem' = [t \in Tokens |-> Less(mem[t])]
  /\ tbl' = [t \in Tokens |-> IF tbl[t] = NoRow THEN NoRow ELSE Less(tbl[t])]
  /\ shield' = [t \in Tokens |-> Less(shield[t])]
  /\ guarded' = [r \in Requests |-> guarded[r] /\ shield[shown[r]] > 1]
  /\ UNCHANGED <<spc, op, shown, cookie, unsaved, slipped, tokenFaults>>

\* The cache is full: an entry goes before its time.
Evict(t) ==
  /\ mem[t] > 0 /\ Fault
  /\ mem' = [mem EXCEPT ![t] = 0]
  /\ IF t \in unsaved
     THEN /\ shield' = [shield EXCEPT ![t] = 0]
          /\ guarded' = [r \in Requests |-> guarded[r] /\ shown[r] # t]
     ELSE UNCHANGED <<shield, guarded>>
  /\ UNCHANGED <<tok, tbl, spc, op, shown, cookie, unsaved, slipped>>

\* LoadFromDB puts the hashes of the table under keys that no lookup asks for, so that
\* after a restart the memory knows of no token.
Loaded == [t \in Tokens |-> 0]

Restart ==
  /\ Fault
  /\ mem' = Loaded
  /\ spc' = [r \in Requests |-> "idle"]
  /\ op' = [r \in Requests |-> "use"]
  /\ shown' = [r \in Requests |-> NoToken]
  /\ cookie' = [r \in Requests |-> NoToken]
  /\ shield' = [t \in Tokens |-> IF t \in unsaved THEN 0 ELSE shield[t]]
  /\ guarded' = [r \in Requests |-> FALSE]
  /\ UNCHANGED <<tok, tbl, unsaved, slipped>>

-----------------------------------------------------------------------------
RequestStep(r) ==
  \/ \E kind \in {"use", "refresh"}, t \in Issued : Begin(r, kind, t, NoToken)
  \/ \E t \in Issued, c \in Cookies \cup {NoToken} : Begin(r, "logout", t, c)
  \/ CheckMemory(r) \/ CheckTable(r) \/ CheckTableFails(r)
  \/ Admit(r) \/ Refuse(r) \/ Refresh(r)
  \/ AddMemory(r) \/ AddRow(r) \/ AddRowFails(r) \/ Answer(r)

Next ==
  \/ Login \/ Tick \/ Restart
  \/ \E t \in Tokens : Evict(t)
  \/ \E r \in Requests : RequestStep(r)

Spec == Init /\ [][Next]_vars

-----------------------------------------------------------------------------
Steps == {"idle", "memory", "table", "validate",
          "addMemory", "addRow", "addCookieMemory", "addCookieRow", "answer"}

TypeOK ==
  /\ tok \in [Tokens -> Claims \cup {NoToken}]
  /\ mem \in [Tokens -> 0..BlacklistTTL]
  /\ tbl \in [Tokens -> 0..BlacklistTTL \cup {NoRow}]
  /\ spc \in [Requests -> Steps]
  /\ op \in [Requests -> {"use", "refresh", "logout"}]
  /\ shown \in [Requests -> Tokens \cup {NoToken}]
  /\ cookie \in [Requests -> Tokens \cup {NoToken}]
  /\ shield \in [Tokens -> 0..BlacklistTTL]
  /\ unsaved \in SUBSET Tokens
  /\ guarded \in [Requests -> BOOLEAN] /\ slipped \in BOOLEAN
  /\ tokenFaults \in 0..MaxTokenFaults

\* A token that a logout has answered for, its refresh token included, is refused by
\* every request and refresh that begins within the blacklist's lifetime (Logout,
\* IsBlacklisted), through expiry, eviction and a restart between any two steps, unless
\* neither copy of the blacklist was left to ask or the table could not be read.
RevokedStaysOut == ~slipped

\* A good refresh token was signed at the login of its session, and a good access token
\* that came of it carries a role that was read at most the two lifetimes ago (Login,
\* RefreshAccessToken): refreshing prolongs neither the session for ever, nor the life of
\* a role that was taken away.  RefreshAccessToken takes an access token as well, and what
\* it returns for one, "renewed", is outside this bound.
SessionsEnd ==
  \A t \in Issued :
    Valid(t) /\ tok[t].kind # "renewed" =>
      /\ tok[t].age + tok[t].left <= MaxSession
      /\ tok[t].kind = "refresh" => tok[t].age + tok[t].left = RefreshTTL
=============================================================================
