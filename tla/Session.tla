------------------------------- MODULE Session ------------------------------
(***************************************************************************)
(* The signed-in session of one user: the token rows of the identity       *)
(* service, and one tab of the web app that keeps a pair of tokens, sends  *)
(* requests with them and renews them.                                     *)
(*                                                                         *)
(* A JWT of one user and role differs from another only by the second it   *)
(* was issued in, so a token is that second, and an access token and the   *)
(* refresh token issued with it are the same number.  A row of the table   *)
(* has an id as well: two logins in one second write equal tokens.         *)
(*                                                                         *)
(* Two agents of the tab renew the tokens, each on its own: the response   *)
(* interceptor after a 401, and the provider on a timer or when the page   *)
(* is loaded; then it also fetches the user, while the page sends its own  *)
(* requests already.                                                       *)
(* RefreshToken runs as three steps on the server.  A request of the tab   *)
(* is authorised by asking the identity service whether the row of its     *)
(* token is still there.                                                   *)
(*                                                                         *)
(* Every set() of the auth store writes the tab's whole pair to the local  *)
(* storage, and a load of the page reads it from there.  A second tab of   *)
(* the browser does the same with a pair of its own, and neither hears of  *)
(* the other's writes.  A call of the second tab and the set() after it    *)
(* are one step, but for the fetch of its user, whose set() may come late. *)
(***************************************************************************)
EXTENDS Naturals, FiniteSets

CONSTANTS Query,        \* slots for the requests of the tab, used in order
          None,
          AccessLife,   \* seconds an access token is good for
          RefreshLife,  \* seconds a refresh token is good for
          MaxTime,      \* bound on the clock
          MaxWork,      \* bound on logins, timers, requests of the tab and
                        \* what is done elsewhere
          MaxFaults     \* bound on failed calls

ASSUME SessionAssumption ==
  /\ Query \subseteq Nat /\ 1 \in Query
  /\ {AccessLife, RefreshLife, MaxTime, MaxWork, MaxFaults} \subseteq Nat
  /\ None \notin Nat

Agent == {"interceptor", "provider"}
Second == 0..MaxTime
Row == [id : 1..(2 * MaxWork), token : Second]
NoRow == [id |-> 0, token |-> 0]

VARIABLES now,
          rows,         \* the token table
          written,      \* the last row id
          work,         \* how many of these so far
          refresh,      \* the refresh request of each agent
          held,         \* the pair of tokens in the auth store of the tab
          stored,       \* the pair in the local storage
          other,        \* the pair in the auth store of the second tab
          otherFetches, \* the second tab waits for its user
          isRefreshing, \* the interceptor's flag
          booting,      \* what the provider does after a load of the page
          query,        \* requests of the tab
          faults,
          \* History.
          logins, doubled, \* logins, and removals of a row already gone
          presented,    \* which agent sent which refresh token
          spoilt,       \* refresh tokens ended otherwise, or whose call failed
          restored,     \* presented before the second tab stored them again
          thrownOut     \* the refresh token with which the tab was signed out

vars == <<now, rows, written, work, refresh, held, stored, other, otherFetches,
          isRefreshing, booting, query, faults, logins, doubled, presented, spoilt,
          restored, thrownOut>>
serverVars == <<rows, written>>
otherVars == <<other, otherFetches, restored>>
storeVars == <<held, stored>>
tabVars == <<storeVars, isRefreshing, booting, query, thrownOut>>
history == <<logins, doubled, presented, spoilt, otherVars>>

IdleRefresh == [at |-> "idle", token |-> 0, row |-> NoRow, new |-> 0, mounted |-> FALSE]
IdleQuery == [at |-> "idle", kind |-> "read", token |-> 0, body |-> 0, retried |-> FALSE]

Init ==
  /\ now = 0 /\ rows = {} /\ written = 0 /\ work = 0 /\ faults = 0
  /\ refresh = [a \in Agent |-> IdleRefresh]
  /\ held = None /\ stored = None /\ other = None /\ otherFetches = FALSE
  /\ isRefreshing = FALSE /\ booting = "no" /\ thrownOut = None
  /\ query = [q \in Query |-> IdleQuery]
  /\ logins = 0 /\ doubled = 0 /\ presented = {} /\ spoilt = {} /\ restored = {}

Tick ==
  /\ now < MaxTime /\ now' = now + 1
  /\ UNCHANGED <<work, serverVars, refresh, tabVars, faults, history>>

-----------------------------------------------------------------------------
\* The identity service.

Expired(token, life) == now - token >= life
RowsOf(token) == {r \in rows : r.token = token}

\* GenerateToken: a new row, whatever rows there are.
GenerateToken ==
  /\ written' = written + 1
  /\ rows' = rows \cup {[id |-> written + 1, token |-> now]}

Fault == faults < MaxFaults /\ faults' = faults + 1
Work == work < MaxWork /\ work' = work + 1

\* Another device signs in.
LoginElsewhere ==
  /\ Work /\ GenerateToken /\ logins' = logins + 1
  /\ UNCHANGED <<now, refresh, tabVars, faults, doubled, presented, spoilt, otherVars>>

\* The user is deleted, and all rows go, or another holder of a token signs
\* out.
EndElsewhere ==
  /\ Work
  /\ \E gone \in {rows} \cup {{r} : r \in rows} :
       /\ gone # {} /\ rows' = rows \ gone
       /\ spoilt' = spoilt \cup {r.token : r \in gone}
  /\ UNCHANGED <<now, written, refresh, tabVars, faults, logins, doubled, presented, otherVars>>

RefreshStep(a, new) ==
  refresh' = [refresh EXCEPT ![a] = new]

\* ValidateToken of type REFRESH.
ValidateToken(a) ==
  LET token == refresh[a].token
      found == IF Expired(token, RefreshLife) THEN {} ELSE RowsOf(token) IN
  /\ refresh[a].at = "validate"
  /\ \/ \E r \in found : RefreshStep(a, [refresh[a] EXCEPT !.at = "remove", !.row = r])
     \/ found = {} /\ RefreshStep(a, [refresh[a] EXCEPT !.at = "failed"])
  /\ UNCHANGED <<now, work, serverVars, tabVars, faults, history>>

\* Fault: the old row stays.
Without_Kept(row) == rows

Without(row) == rows \ {row}

\* Removing a row that is gone is no error.
RemoveToken(a) ==
  /\ refresh[a].at = "remove"
  /\ RefreshStep(a, [refresh[a] EXCEPT !.at = "generate"])
  /\ rows' = Without(refresh[a].row)
  /\ doubled' = IF refresh[a].row \in rows THEN doubled ELSE doubled + 1
  /\ UNCHANGED <<now, work, written, tabVars, faults, logins, presented, spoilt, otherVars>>

AnswerRefresh(a) ==
  /\ refresh[a].at = "generate" /\ GenerateToken
  /\ RefreshStep(a, [refresh[a] EXCEPT !.at = "ok", !.new = now])
  /\ UNCHANGED <<now, work, tabVars, faults, history>>

\* A step fails, the process dies, or the answer comes too late.
RefreshFails(a) ==
  /\ refresh[a].at \notin {"idle", "failed"} /\ Fault
  /\ RefreshStep(a, [refresh[a] EXCEPT !.at = "failed"])
  /\ spoilt' = spoilt \cup {refresh[a].token}
  /\ UNCHANGED <<now, work, serverVars, tabVars, logins, doubled, presented, otherVars>>

\* JwtGuard: the signature and the time are checked here, the row by a call
\* to identity; a call that fails or is throttled is a refusal too.
Introspect(token) == ~Expired(token, AccessLife) /\ RowsOf(token) # {}

QueryStep(q, new) == query' = [query EXCEPT ![q] = new]

Authorise(q) ==
  /\ query[q].at = "sent" /\ Introspect(query[q].token)
  /\ QueryStep(q, [query[q] EXCEPT !.at = "ok"])
  /\ \/ query[q].kind # "logout" /\ UNCHANGED <<rows, spoilt>>
     \/ /\ query[q].kind = "logout"
        /\ \/ \E r \in RowsOf(query[q].body) : rows' = rows \ {r}
           \/ RowsOf(query[q].body) = {} /\ UNCHANGED rows
        /\ spoilt' = spoilt \cup {query[q].body}
  /\ UNCHANGED <<now, work, written, refresh, storeVars, isRefreshing, booting, thrownOut,
                 faults, logins, doubled, presented, otherVars>>

Deny(q) ==
  /\ query[q].at = "sent"
  /\ \/ ~Introspect(query[q].token) /\ UNCHANGED faults
     \/ Introspect(query[q].token) /\ Fault
  /\ QueryStep(q, [query[q] EXCEPT !.at = "denied"])
  /\ UNCHANGED <<now, work, serverVars, refresh, storeVars, isRefreshing, booting, thrownOut, history>>

-----------------------------------------------------------------------------
\* The tab.

\* A set() of the auth store writes the whole pair to the local storage.
Set(pair) == held' = pair /\ stored' = pair

\* Requests take the first free slot.
Free(q) == query[q].at = "idle" /\ \A p \in Query : query[p].at = "idle" => p >= q

\* The user signs in at the tab, which fetches the user next and stays on the
\* login page until then.
SigningIn == \E q \in Query : query[q].kind = "user"

Login(q) ==
  /\ Work /\ held = None /\ booting = "no" /\ Free(q)
  /\ GenerateToken /\ Set(now) /\ logins' = logins + 1
  /\ QueryStep(q, [IdleQuery EXCEPT !.at = "sent", !.kind = "user", !.token = now])
  /\ UNCHANGED <<now, refresh, isRefreshing, booting, thrownOut,
                 faults, doubled, presented, spoilt, otherVars>>

Send(q, kind) ==
  /\ Work /\ held # None /\ booting # "start" /\ ~SigningIn /\ Free(q)
  /\ QueryStep(q, [IdleQuery EXCEPT !.at = "sent", !.kind = kind,
                                    !.token = held, !.body = held])
  /\ UNCHANGED <<now, serverVars, refresh, storeVars, isRefreshing, booting, thrownOut, faults, history>>

\* A request ends.  A logout, however it ends, clears the store; it does not
\* reload the page.  The user that was fetched goes to the store.
Ends(q) ==
  /\ QueryStep(q, IdleQuery)
  /\ CASE query[q].kind = "logout" -> Set(None)
       [] query[q].kind \in {"me", "user"} /\ query[q].at = "ok" -> Set(held)
       [] OTHER -> UNCHANGED storeVars

Settle(q) ==
  /\ \/ query[q].at = "ok"
     \/ query[q].at = "denied" /\ query[q].retried
  /\ query[q].kind = "me" => query[q].at = "ok"
  /\ Ends(q)
  /\ booting' = IF query[q].kind = "me" THEN "no" ELSE booting
  /\ UNCHANGED <<now, work, serverVars, refresh, isRefreshing, thrownOut, faults, history>>

\* clearAuth and a navigation that loads the page again: what was under way
\* in the tab is gone, and so is the flag.
SignOut(token) ==
  /\ Set(None) /\ isRefreshing' = FALSE /\ booting' = "no" /\ thrownOut' = token
  /\ query' = [q \in Query |-> IdleQuery]

Unmounted ==
  [a \in Agent |-> [refresh[a] EXCEPT !.mounted = FALSE]]

Present(a, token) ==
  /\ RefreshStep(a, [IdleRefresh EXCEPT !.at = "validate", !.token = token,
                                       !.mounted = TRUE])
  /\ presented' = presented \cup {<<a, token>>}

\* A 401 waits while a refresh runs, and starts one otherwise.
WaitForRefresh(q) ==
  /\ query[q].at = "denied" /\ ~query[q].retried /\ isRefreshing
  /\ QueryStep(q, [query[q] EXCEPT !.at = "queued"])
  /\ UNCHANGED <<now, work, serverVars, refresh, storeVars, isRefreshing, booting, thrownOut, faults, history>>

StartRefresh(q) ==
  /\ query[q].at = "denied" /\ ~query[q].retried /\ ~isRefreshing
  /\ held # None /\ refresh["interceptor"].at = "idle"
  /\ Present("interceptor", held) /\ isRefreshing' = TRUE
  /\ QueryStep(q, [query[q] EXCEPT !.at = "refreshing", !.retried = TRUE])
  /\ UNCHANGED <<now, work, serverVars, storeVars, booting, thrownOut, faults,
                 logins, doubled, spoilt, otherVars>>

\* The store was cleared while the request was away.
NoTokens(q) ==
  /\ query[q].at = "denied" /\ ~query[q].retried /\ ~isRefreshing
  /\ held = None /\ SignOut(None) /\ refresh' = Unmounted
  /\ UNCHANGED <<now, work, serverVars, faults, history>>

\* The flag and the request it was set for go together, except after a reload.
Waiting == {q \in Query : query[q].at \in {"queued", "refreshing"}}

\* Fault: the old refresh token is kept, since it is still there.
Stored_Old(old, new) == old

Stored(old, new) == new

\* Fault: the flag is reset only when the refresh fails.
AfterRefresh_Stuck == TRUE

\* The finally block.
AfterRefresh == FALSE

RefreshDone ==
  LET answer == refresh["interceptor"] IN
  /\ answer.at \in {"ok", "failed"} /\ answer.mounted
  /\ \/ /\ answer.at = "ok" /\ RefreshStep("interceptor", IdleRefresh)
        /\ Set(Stored(answer.token, answer.new)) /\ isRefreshing' = AfterRefresh
        /\ query' = [q \in Query |-> IF q \in Waiting
                       THEN [query[q] EXCEPT !.at = "sent", !.token = answer.new]
                       ELSE query[q]]
        /\ UNCHANGED <<booting, thrownOut>>
     \/ /\ answer.at = "failed" /\ SignOut(answer.token)
        /\ refresh' = [Unmounted EXCEPT !["interceptor"] = IdleRefresh]
  /\ UNCHANGED <<now, work, serverVars, faults, history>>

\* The page that sent it was loaded again since.
ForgetRefresh(a) ==
  /\ refresh[a].at \in {"ok", "failed"} /\ ~refresh[a].mounted
  /\ RefreshStep(a, IdleRefresh)
  /\ UNCHANGED <<now, work, serverVars, tabVars, faults, history>>

\* Every 25 minutes.
StartTimer ==
  /\ refresh["provider"].at = "idle" /\ held # None /\ Work
  /\ booting = "no" /\ ~SigningIn
  /\ Present("provider", held)
  /\ UNCHANGED <<now, serverVars, tabVars, faults, logins, doubled, spoilt, otherVars>>

\* An answer counts only if the store still has the refresh token it was for.
TimerDone ==
  LET answer == refresh["provider"] IN
  /\ answer.at \in {"ok", "failed"} /\ answer.mounted /\ booting # "refresh"
  /\ \/ /\ held # answer.token \/ answer.at = "ok"
        /\ RefreshStep("provider", IdleRefresh)
        /\ IF held = answer.token THEN Set(Stored(held, answer.new)) ELSE UNCHANGED storeVars
        /\ UNCHANGED <<isRefreshing, booting, query, thrownOut>>
     \/ /\ held = answer.token /\ answer.at = "failed" /\ SignOut(answer.token)
        /\ refresh' = [Unmounted EXCEPT !["provider"] = IdleRefresh]
  /\ UNCHANGED <<now, work, serverVars, faults, history>>

\* The page is loaded again, with whatever pair is in the local storage.
Reload ==
  /\ Work
  /\ query' = [q \in Query |-> IdleQuery] /\ isRefreshing' = FALSE
  /\ held' = stored /\ booting' = IF stored = None THEN "no" ELSE "start"
  /\ refresh' = Unmounted
  /\ spoilt' = spoilt \cup {refresh[a].token : a \in {b \in Agent : refresh[b].at # "idle"}}
  /\ UNCHANGED <<now, serverVars, stored, thrownOut, faults, logins, doubled, presented, otherVars>>

FetchUser(token) ==
  \E q \in Query :
    /\ Free(q) /\ booting' = "me"
    /\ QueryStep(q, [IdleQuery EXCEPT !.at = "sent", !.kind = "me", !.token = token])

\* An expired access token is renewed before the user is fetched.
Bootstrap ==
  /\ booting = "start"
  /\ \/ /\ Expired(held, AccessLife) /\ refresh["provider"].at = "idle"
        /\ Present("provider", held) /\ booting' = "refresh" /\ UNCHANGED query
     \/ /\ ~Expired(held, AccessLife) /\ FetchUser(held)
        /\ UNCHANGED <<refresh, presented>>
  /\ UNCHANGED <<now, work, serverVars, storeVars, isRefreshing, thrownOut, faults,
                 logins, doubled, spoilt, otherVars>>

BootRefreshed ==
  LET answer == refresh["provider"] IN
  /\ booting = "refresh"
  /\ \/ /\ answer.at = "ok" /\ RefreshStep("provider", IdleRefresh)
        /\ Set(Stored(held, answer.new)) /\ FetchUser(held')
        /\ UNCHANGED <<isRefreshing, thrownOut>>
     \/ /\ answer.at = "failed" /\ SignOut(answer.token)
        /\ refresh' = [Unmounted EXCEPT !["provider"] = IdleRefresh]
  /\ UNCHANGED <<now, work, serverVars, faults, history>>

\* The user cannot be fetched, whatever the error: the tab is signed out.
FetchUserFails(q) ==
  /\ query[q].kind = "me"
  /\ \/ query[q].at = "denied" /\ query[q].retried /\ UNCHANGED faults
     \/ query[q].at = "sent" /\ Fault
  /\ SignOut(held) /\ refresh' = Unmounted
  /\ spoilt' = spoilt \cup ({held} \ {None})
  /\ UNCHANGED <<now, work, serverVars, logins, doubled, presented, otherVars>>

-----------------------------------------------------------------------------
\* The second tab.

firstVars == <<now, refresh, held, isRefreshing, booting, query, thrownOut, faults>>

\* A set() there.
SetOther(pair) == other' = pair /\ stored' = pair

\* It is opened or loaded again, and fetches the user of its pair.
OpenOther ==
  /\ other # stored /\ other' = stored /\ otherFetches' = (stored # None)
  /\ UNCHANGED <<firstVars, work, serverVars, stored, logins, doubled, presented, spoilt, restored>>

LoginOther ==
  /\ Work /\ other = None /\ GenerateToken /\ logins' = logins + 1
  /\ SetOther(now) /\ otherFetches' = TRUE
  /\ UNCHANGED <<firstVars, doubled, presented, spoilt, restored>>

\* The user arrives; the pair of this tab is stored again with it, whatever
\* the other tab has stored since.
OtherFetched ==
  /\ otherFetches /\ otherFetches' = FALSE /\ SetOther(other)
  /\ restored' = IF other # stored /\ \E a \in Agent \cup {"tab2"} : <<a, other>> \in presented
                   THEN restored \cup {other} ELSE restored
  /\ UNCHANGED <<firstVars, work, serverVars, logins, doubled, presented, spoilt>>

\* It renews its pair, or is refused and signs out.
RefreshOther ==
  /\ Work /\ other # None /\ presented' = presented \cup {<<"tab2", other>>}
  /\ \/ \E r \in RowsOf(other) :
          /\ ~Expired(other, RefreshLife)
          /\ written' = written + 1
          /\ rows' = (rows \ {r}) \cup {[id |-> written + 1, token |-> now]}
          /\ SetOther(now) /\ UNCHANGED otherFetches
     \/ /\ Expired(other, RefreshLife) \/ RowsOf(other) = {}
        /\ SetOther(None) /\ otherFetches' = FALSE /\ UNCHANGED serverVars
  /\ UNCHANGED <<firstVars, logins, doubled, spoilt, restored>>

\* It signs out, with or without the server's help.
SignOutOther ==
  /\ Work /\ other # None /\ SetOther(None) /\ otherFetches' = FALSE
  /\ \E gone \in {{}} \cup {{r} : r \in RowsOf(other)} :
       rows' = rows \ gone /\ spoilt' = spoilt \cup {r.token : r \in gone}
  /\ UNCHANGED <<firstVars, written, logins, doubled, presented, restored>>

-----------------------------------------------------------------------------
RefreshServer(a) == ValidateToken(a) \/ RemoveToken(a) \/ AnswerRefresh(a)
Respond(q) == Authorise(q) \/ Deny(q)
Finish(a) == IF a = "interceptor" THEN RefreshDone ELSE TimerDone
HandleDenied(q) == WaitForRefresh(q) \/ StartRefresh(q) \/ NoTokens(q)

Next ==
  \/ Tick \/ LoginElsewhere \/ EndElsewhere \/ Reload
  \/ StartTimer \/ Bootstrap \/ BootRefreshed
  \/ OpenOther \/ LoginOther \/ OtherFetched \/ RefreshOther \/ SignOutOther
  \/ \E a \in Agent : RefreshServer(a) \/ RefreshFails(a) \/ Finish(a) \/ ForgetRefresh(a)
  \/ \E q \in Query :
       \/ Login(q) \/ Respond(q) \/ HandleDenied(q) \/ Settle(q) \/ FetchUserFails(q)
       \/ \E kind \in {"read", "logout"} : Send(q, kind)

Spec == Init /\ [][Next]_vars

\* Calls are answered or time out, and the tab handles what it gets: while
\* any of this can happen, some of it does.
FairSpec ==
  /\ Spec
  /\ WF_vars(\/ \E a \in Agent : RefreshServer(a) \/ ForgetRefresh(a) \/ Finish(a)
             \/ \E q \in Query : \/ Respond(q) \/ HandleDenied(q)
                                \/ Settle(q) \/ FetchUserFails(q)
             \/ BootRefreshed)

-----------------------------------------------------------------------------
\* The tables, the agents and the tab hold what the code puts in them.
TypeOK ==
  /\ now \in Second /\ rows \subseteq Row /\ written \in 0..(2 * MaxWork) /\ work \in 0..MaxWork
  /\ refresh \in [Agent -> [at : {"idle", "validate", "remove", "generate", "ok", "failed"},
                            token : Second, row : Row \cup {NoRow}, new : Second,
                            mounted : BOOLEAN]]
  /\ {held, stored, other} \subseteq Second \cup {None}
  /\ otherFetches \in BOOLEAN /\ isRefreshing \in BOOLEAN
  /\ booting \in {"no", "start", "refresh", "me"}
  /\ query \in [Query -> [at : {"idle", "sent", "ok", "denied", "queued", "refreshing"},
                          kind : {"read", "logout", "me", "user"}, token : Second, body : Second,
                          retried : BOOLEAN]]
  /\ faults \in 0..MaxFaults
  /\ logins \in Nat /\ doubled \in Nat
  /\ presented \subseteq (Agent \cup {"tab2"}) \X Second 
  /\ spoilt \subseteq Second /\ restored \subseteq Second
  /\ thrownOut \in Second \cup {None}

\* A refresh token buys one session: there are never more rows than logins,
\* refreshes under way included, but for the refreshes that overlapped.  Two
\* requests that both validated a row before either removed it each get a
\* new one (refresh-token.ts:51-61): that is the only way to gain a session.
SessionsAreEarned ==
  Cardinality(rows) + Cardinality({a \in Agent : refresh[a].at = "generate"})
    <= logins + doubled

\* Every request of the tab comes to an end: one that waits behind a refresh
\* is sent again when it is done or goes with the page, and no 401 is turned
\* into a refresh for ever (axios-instance.ts:59-97).
RequestsEnd ==
  \A q \in Query : query[q].at # "idle" ~> query[q].at = "idle"

\* The tab signs its user out only for a cause: the refresh token ran out or
\* was ended elsewhere, its refresh failed or was lost, the user could not be
\* fetched when the page was loaded, two of the three agents that renew
\* tokens without knowing of one another presented it, or it had been used
\* when the second tab put it back in the store the tabs share
\* (axios-instance.ts:69-95, AuthProvider.tsx:19-88, auth.store.ts:57-107).
SignedOutForCause ==
  [][ thrownOut' \notin {thrownOut, None} =>
        \/ Expired(thrownOut', RefreshLife)
        \/ thrownOut' \in spoilt' \cup restored
        \/ \E a, b \in Agent \cup {"tab2"} :
             a # b /\ {<<a, thrownOut'>>, <<b, thrownOut'>>} \subseteq presented ]_vars

=============================================================================
