---------------------------- MODULE SessionProofs ---------------------------
(***************************************************************************)
(* Theorems about Session: how many sessions a user can have, and why the  *)
(* tab signs its user out, for any requests, lifetimes, interleavings of   *)
(* the agents and bounds.                                                  *)
(***************************************************************************)
EXTENDS Session, FiniteSetTheorems, TLAPS

TokenRow == [id : Nat, token : Nat]
RefreshRow ==
  [at : {"idle", "validate", "remove", "generate", "ok", "failed"},
   token : Nat \cup {None}, row : TokenRow, new : Nat, mounted : BOOLEAN]

\* What the count needs of the types.  A refresh may carry any token; the row
\* it validated was one of the table.
Typed ==
  /\ now \in Nat /\ written \in Nat /\ logins \in Nat /\ doubled \in Nat
  /\ held \in Nat \cup {None} /\ stored \in Nat \cup {None} /\ other \in Nat \cup {None}
  /\ rows \in SUBSET TokenRow /\ IsFiniteSet(rows)
  /\ refresh \in [Agent -> RefreshRow]

\* The refreshes that have removed their row and not yet written the new one.
Generating == {a \in Agent : refresh[a].at = "generate"}

LEMMA Agents == IsFiniteSet(Agent) /\ IsFiniteSet(Generating)
<1>1. IsFiniteSet(Agent)
  <2>1. Agent = {"interceptor"} \cup {"provider"}
    BY DEF Agent
  <2>2. QED
    BY <2>1, FS_Singleton, FS_Union
<1>2. QED
  BY <1>1, FS_Subset DEF Generating

LEMMA Idle == IdleRefresh \in RefreshRow /\ IdleRefresh.at # "generate"
  BY DEF IdleRefresh, RefreshRow, NoRow, TokenRow

\* One element more.
LEMMA Grown ==
  ASSUME NEW S, IsFiniteSet(S), NEW x
  PROVE  /\ IsFiniteSet(S \cup {x}) /\ Cardinality(S) \in Nat
         /\ Cardinality(S \cup {x}) \in Nat
         /\ Cardinality(S \cup {x}) <= Cardinality(S) + 1
<1>1. IsFiniteSet(S \cup {x})
  BY FS_AddElement
<1>2. Cardinality(S) \in Nat /\ Cardinality(S \cup {x}) \in Nat
  BY <1>1, FS_CardinalityType
<1>3. Cardinality(S \cup {x}) = IF x \in S THEN Cardinality(S) ELSE Cardinality(S) + 1
  BY FS_AddElement
<1>4. QED
  BY <1>1, <1>2, <1>3

\* Writing a row and removing one.
LEMMA Written ==
  ASSUME Typed, GenerateToken
  PROVE  /\ rows' \in SUBSET TokenRow /\ IsFiniteSet(rows') /\ written' \in Nat
         /\ Cardinality(rows') <= Cardinality(rows) + 1
<1>1. [id |-> written + 1, token |-> now] \in TokenRow
  BY DEF Typed, TokenRow
<1>2. PICK r \in TokenRow : rows' = rows \cup {r}
  BY <1>1 DEF GenerateToken
<1>3. IsFiniteSet(rows') /\ Cardinality(rows') <= Cardinality(rows) + 1
  BY <1>2, Grown DEF Typed
<1>4. QED
  BY <1>2, <1>3 DEF GenerateToken, Typed

LEMMA Removed ==
  ASSUME Typed, NEW gone
  PROVE  /\ rows \ gone \in SUBSET TokenRow /\ IsFiniteSet(rows \ gone)
         /\ Cardinality(rows \ gone) <= Cardinality(rows)
  BY FS_Subset DEF Typed

\* A refresh that is begun, goes on or is dropped.
LEMMA Goes ==
  ASSUME Typed, NEW a \in Agent, NEW new \in RefreshRow, RefreshStep(a, new)
  PROVE  /\ refresh' \in [Agent -> RefreshRow]
         /\ Generating' = IF new.at = "generate" THEN Generating \cup {a}
                                                 ELSE Generating \ {a}
  BY DEF RefreshStep, Typed, Generating

LEMMA Dismounted ==
  ASSUME Typed
  PROVE  /\ Unmounted \in [Agent -> RefreshRow]
         /\ \A a \in Agent : Unmounted[a].at = refresh[a].at
  BY DEF Unmounted, Typed, RefreshRow

\* A step that writes no row and lets no refresh into the gap keeps the count.
LEMMA Shrinks ==
  ASSUME Typed, SessionsAreEarned, UNCHANGED <<logins, doubled>>,
         IsFiniteSet(rows'), Cardinality(rows') <= Cardinality(rows),
         Generating' \subseteq Generating
  PROVE  SessionsAreEarned'
<1>1. Cardinality(Generating') <= Cardinality(Generating)
  BY Agents, FS_Subset
<1>2. /\ Cardinality(rows) \in Nat /\ Cardinality(rows') \in Nat
      /\ Cardinality(Generating) \in Nat /\ Cardinality(Generating') \in Nat
  BY Agents, FS_CardinalityType, FS_Subset DEF Typed
<1>3. Cardinality(rows) + Cardinality(Generating) <= logins + doubled
  BY DEF SessionsAreEarned, Generating
<1>4. Cardinality(rows') + Cardinality(Generating') <= logins' + doubled'
  BY <1>1, <1>2, <1>3 DEF Typed
<1>5. QED
  BY <1>4 DEF SessionsAreEarned, Generating

LEMMA EarnedHolds == Spec => [](Typed /\ SessionsAreEarned)
<1>1. ASSUME Init PROVE Typed /\ SessionsAreEarned
  <2>1. Typed
    BY <1>1, Idle, FS_EmptySet DEF Init, Typed
  <2>2. Generating = {}
    BY <1>1, Idle DEF Init, Generating
  <2>3. QED
    BY <1>1, <2>1, <2>2, FS_EmptySet DEF Init, SessionsAreEarned, Generating
<1>2. ASSUME Typed, SessionsAreEarned, [Next]_vars
      PROVE  Typed' /\ SessionsAreEarned'
  <2> USE <1>2 DEF serverVars, storeVars, tabVars, otherVars, history
  <2>0. /\ Cardinality(rows) \in Nat /\ Cardinality(Generating) \in Nat
        /\ Cardinality(rows) + Cardinality(Generating) <= logins + doubled
    BY Agents, FS_CardinalityType DEF Typed, SessionsAreEarned, Generating
  <2> DEFINE PairsTyped == {held, stored, other} \subseteq Nat \cup {None}
  <2>1. ASSUME UNCHANGED <<serverVars, refresh, logins, doubled>>,
               now' \in Nat, PairsTyped'
        PROVE  Typed' /\ SessionsAreEarned'
    BY <2>1 DEF Typed, SessionsAreEarned
  <2>2. ASSUME UNCHANGED <<now, serverVars, logins, doubled>>,
               PairsTyped', refresh' \in [Agent -> RefreshRow],
               Generating' \subseteq Generating
        PROVE  Typed' /\ SessionsAreEarned'
    BY <2>2, <2>0, Shrinks DEF Typed
  <2>3. ASSUME GenerateToken, PairsTyped', UNCHANGED <<now, refresh, doubled>>,
               logins' = logins + 1
        PROVE  Typed' /\ SessionsAreEarned'
    <3>1. /\ rows' \in SUBSET TokenRow /\ IsFiniteSet(rows') /\ written' \in Nat
          /\ Cardinality(rows') <= Cardinality(rows) + 1
      BY <2>3, Written
    <3>2. Typed'
      BY <2>3, <3>1 DEF Typed
    <3>3. logins' = logins + 1 /\ doubled' = doubled
      BY <2>3
    <3>4. Cardinality(rows') \in Nat
      BY <3>1, FS_CardinalityType
    <3>5. logins' \in Nat /\ doubled' \in Nat /\ logins \in Nat /\ doubled \in Nat
      BY <3>2 DEF Typed
    <3>6. Cardinality(Generating') = Cardinality(Generating)
      BY <2>3 DEF Generating
    <3>7. Cardinality(rows') + Cardinality(Generating') <= logins' + doubled'
      BY <2>0, <3>1, <3>3, <3>4, <3>5, <3>6
    <3>8. QED
      BY <3>2, <3>7 DEF SessionsAreEarned, Generating
  <2>4. CASE LoginElsewhere \/ LoginOther \/ \E q \in Query : Login(q)
    <3>1. PairsTyped'
      BY <2>4 DEF LoginElsewhere, LoginOther, Login, firstVars, SetOther, Set, Typed
    <3>2. QED
      BY <2>3, <2>4, <3>1 DEF LoginElsewhere, LoginOther, Login, firstVars
  <2>5. CASE RefreshOther
    <3>0. [id |-> written + 1, token |-> now] \in TokenRow /\ PairsTyped'
      BY <2>5 DEF RefreshOther, firstVars, SetOther, Typed, TokenRow
    <3>1. CASE \E r \in rows, x \in TokenRow :
                 rows' = (rows \ {r}) \cup {x} /\ written' = written + 1
      <4>1. PICK r \in rows, x \in TokenRow : rows' = (rows \ {r}) \cup {x}
        BY <3>1
      <4>2. /\ IsFiniteSet(rows \ {r})
            /\ Cardinality(rows \ {r}) = Cardinality(rows) - 1
        BY <4>1, FS_RemoveElement DEF Typed
      <4>3. /\ IsFiniteSet(rows') /\ Cardinality(rows') \in Nat
            /\ Cardinality(rows') <= Cardinality(rows \ {r}) + 1
        BY <4>1, <4>2, Grown
      <4>4. IsFiniteSet(rows') /\ Cardinality(rows') <= Cardinality(rows)
        BY <2>0, <4>2, <4>3
      <4>5. Generating' = Generating
        BY <2>5 DEF RefreshOther, firstVars, Generating
      <4>6. Typed'
        BY <2>5, <3>0, <3>1, <4>1, <4>4 DEF RefreshOther, firstVars, Typed
      <4>7. QED
        BY <2>5, <4>4, <4>5, <4>6, Shrinks DEF RefreshOther
    <3>2. CASE UNCHANGED serverVars
      BY <2>1, <2>5, <3>0, <3>2 DEF RefreshOther, firstVars, Typed
    <3>3. QED
      BY <2>5, <3>0, <3>1, <3>2 DEF RefreshOther, RowsOf
  <2>6. CASE EndElsewhere \/ SignOutOther
    <3>1. PICK gone : rows' = rows \ gone
      BY <2>6 DEF EndElsewhere, SignOutOther
    <3>2. Generating' = Generating
      BY <2>6 DEF EndElsewhere, SignOutOther, firstVars, Generating
    <3>3. PairsTyped'
      BY <2>6 DEF EndElsewhere, SignOutOther, firstVars, SetOther, Typed
    <3>4. QED
      BY <2>6, <3>1, <3>2, <3>3, Removed, Shrinks
      DEF EndElsewhere, SignOutOther, firstVars, Typed
  <2>7. CASE \E a \in Agent : RemoveToken(a)
    <3>1. PICK a \in Agent : RemoveToken(a)
      BY <2>7
    <3>2. [refresh[a] EXCEPT !.at = "generate"] \in RefreshRow
          /\ [refresh[a] EXCEPT !.at = "generate"].at = "generate"
      BY DEF Typed, RefreshRow
    <3>3. /\ refresh' \in [Agent -> RefreshRow]
          /\ Generating' = Generating \cup {a}
      BY <3>1, <3>2, Goes DEF RemoveToken
    <3>4. Cardinality(Generating') <= Cardinality(Generating) + 1
          /\ Cardinality(Generating') \in Nat
      BY <3>3, Agents, Grown
    <3>5. rows' = rows \ {refresh[a].row}
      BY <3>1 DEF RemoveToken, Without
    <3>6. /\ rows' \in SUBSET TokenRow /\ IsFiniteSet(rows')
          /\ Cardinality(rows') \in Nat
      BY <3>5, Removed, FS_CardinalityType
    <3>7. Cardinality(rows') + doubled <= Cardinality(rows) + doubled' - 1
          /\ doubled' \in Nat
      <4>1. CASE refresh[a].row \in rows
        BY <2>0, <3>1, <3>5, <3>6, <4>1, FS_RemoveElement DEF RemoveToken, Typed
      <4>2. CASE refresh[a].row \notin rows
        <5>1. rows' = rows
          BY <3>5, <4>2
        <5>2. QED
          BY <2>0, <3>1, <4>2, <5>1 DEF RemoveToken, Typed
      <4>3. QED
        BY <4>1, <4>2
    <3>8. Typed'
      BY <3>1, <3>3, <3>6, <3>7 DEF RemoveToken, Typed
    <3>9. logins' = logins /\ logins \in Nat /\ doubled \in Nat
      BY <3>1 DEF RemoveToken, Typed
    <3>10. Cardinality(rows') + Cardinality(Generating') <= logins' + doubled'
      BY <2>0, <3>4, <3>6, <3>7, <3>9
    <3>11. QED
      BY <3>8, <3>10 DEF SessionsAreEarned, Generating
  <2>8. CASE \E a \in Agent : AnswerRefresh(a)
    <3>1. PICK a \in Agent : AnswerRefresh(a)
      BY <2>8
    <3>2. [refresh[a] EXCEPT !.at = "ok", !.new = now] \in RefreshRow
          /\ [refresh[a] EXCEPT !.at = "ok", !.new = now].at = "ok"
      BY DEF Typed, RefreshRow
    <3>3. /\ refresh' \in [Agent -> RefreshRow]
          /\ Generating' = Generating \ {a}
      BY <3>1, <3>2, Goes DEF AnswerRefresh
    <3>4. a \in Generating
      BY <3>1 DEF AnswerRefresh, Generating
    <3>5. Cardinality(Generating') = Cardinality(Generating) - 1
      BY <3>3, <3>4, Agents, FS_RemoveElement
    <3>6. /\ rows' \in SUBSET TokenRow /\ IsFiniteSet(rows') /\ written' \in Nat
          /\ Cardinality(rows') <= Cardinality(rows) + 1
          /\ Cardinality(rows') \in Nat
      BY <3>1, Written, FS_CardinalityType DEF AnswerRefresh
    <3>7. Typed'
      BY <3>1, <3>3, <3>6 DEF AnswerRefresh, Typed
    <3>8. /\ logins' = logins /\ doubled' = doubled
          /\ logins \in Nat /\ doubled \in Nat
      BY <3>1 DEF AnswerRefresh, history, Typed
    <3>9. Cardinality(rows') + Cardinality(Generating') <= logins' + doubled'
      BY <2>0, <3>5, <3>6, <3>8
    <3>10. QED
      BY <3>7, <3>9 DEF SessionsAreEarned, Generating
  <2>9. CASE \E q \in Query : Authorise(q)
    <3>1. PICK gone : rows' = rows \ gone
      BY <2>9 DEF Authorise
    <3>2. Generating' = Generating
      BY <2>9 DEF Authorise, Generating
    <3>3. QED
      BY <2>9, <3>1, <3>2, Removed, Shrinks DEF Authorise, Typed
  <2>10. ASSUME NEW a \in Agent, NEW new \in RefreshRow, new.at # "generate",
                RefreshStep(a, new)
         PROVE  refresh' \in [Agent -> RefreshRow] /\ Generating' \subseteq Generating
    BY <2>10, Goes
  <2>11. ASSUME NEW a \in Agent, NEW s \in {"remove", "failed"}, NEW row \in TokenRow
         PROVE  /\ [refresh[a] EXCEPT !.at = s, !.row = row] \in RefreshRow
                /\ [refresh[a] EXCEPT !.at = s, !.row = row].at = s
                /\ [refresh[a] EXCEPT !.at = s] \in RefreshRow
                /\ [refresh[a] EXCEPT !.at = s].at = s
    BY <2>11 DEF Typed, RefreshRow
  <2>12. CASE \E a \in Agent : ValidateToken(a)
    <3>1. PICK a \in Agent : ValidateToken(a)
      BY <2>12
    <3>2. \E new \in RefreshRow : new.at # "generate" /\ RefreshStep(a, new)
      <4>1. RowsOf(refresh[a].token) \subseteq TokenRow
        BY DEF RowsOf, Typed
      <4>2. [id |-> 0, token |-> 0] \in TokenRow
        BY DEF TokenRow
      <4>3. QED
        BY <2>11, <3>1, <4>1, <4>2 DEF ValidateToken
    <3>3. QED
      BY <2>2, <2>10, <3>1, <3>2 DEF ValidateToken, Typed
  <2>13. CASE \E a \in Agent : RefreshFails(a)
    <3>1. PICK a \in Agent : RefreshFails(a)
      BY <2>13
    <3>2. \E new \in RefreshRow : new.at # "generate" /\ RefreshStep(a, new)
      <4>1. [id |-> 0, token |-> 0] \in TokenRow
        BY DEF TokenRow
      <4>2. QED
        BY <2>11, <3>1, <4>1 DEF RefreshFails
    <3>3. QED
      BY <2>2, <2>10, <3>1, <3>2 DEF RefreshFails, Typed
  <2>14. ASSUME NEW a \in Agent, Present(a, held)
         PROVE  refresh' \in [Agent -> RefreshRow] /\ Generating' \subseteq Generating
    <3>1. [IdleRefresh EXCEPT !.at = "validate", !.token = held, !.mounted = TRUE]
            \in RefreshRow
          /\ [IdleRefresh EXCEPT !.at = "validate", !.token = held,
                                 !.mounted = TRUE].at # "generate"
      BY Idle DEF Typed, RefreshRow, IdleRefresh
    <3>2. QED
      BY <2>10, <2>14, <3>1 DEF Present
  <2>15. ASSUME NEW a \in Agent, RefreshStep(a, IdleRefresh)
         PROVE  refresh' \in [Agent -> RefreshRow] /\ Generating' \subseteq Generating
    BY <2>10, <2>15, Idle
  <2>16. ASSUME refresh' = Unmounted
         PROVE  refresh' \in [Agent -> RefreshRow] /\ Generating' \subseteq Generating
    BY <2>16, Dismounted DEF Generating
  <2>17. ASSUME NEW a \in Agent, refresh' = [Unmounted EXCEPT ![a] = IdleRefresh]
         PROVE  refresh' \in [Agent -> RefreshRow] /\ Generating' \subseteq Generating
    BY <2>17, Dismounted, Idle DEF Generating
  <2>18. "interceptor" \in Agent /\ "provider" \in Agent
    BY DEF Agent
  <2>19. \A a \in Agent : refresh[a].new \in Nat
    BY DEF Typed, RefreshRow
  <2>20. CASE \E a \in Agent : ForgetRefresh(a)
    BY <2>2, <2>15, <2>20 DEF ForgetRefresh, Typed
  <2>21. CASE RefreshDone
    <3>1. PairsTyped'
      BY <2>18, <2>19, <2>21 DEF RefreshDone, Stored, Set, SignOut, Typed
    <3>2. refresh' \in [Agent -> RefreshRow] /\ Generating' \subseteq Generating
      BY <2>15, <2>17, <2>18, <2>21 DEF RefreshDone
    <3>3. QED
      BY <2>2, <2>21, <3>1, <3>2 DEF RefreshDone
  <2>22. CASE TimerDone
    <3>1. PairsTyped'
      BY <2>18, <2>19, <2>22 DEF TimerDone, Stored, Set, storeVars, SignOut, Typed
    <3>2. refresh' \in [Agent -> RefreshRow] /\ Generating' \subseteq Generating
      BY <2>15, <2>17, <2>18, <2>22 DEF TimerDone
    <3>3. QED
      BY <2>2, <2>22, <3>1, <3>2 DEF TimerDone
  <2>23. CASE BootRefreshed
    <3>1. PairsTyped'
      BY <2>18, <2>19, <2>23 DEF BootRefreshed, Stored, Set, SignOut, Typed
    <3>2. refresh' \in [Agent -> RefreshRow] /\ Generating' \subseteq Generating
      BY <2>15, <2>17, <2>18, <2>23 DEF BootRefreshed
    <3>3. QED
      BY <2>2, <2>23, <3>1, <3>2 DEF BootRefreshed
  <2>24. CASE StartTimer \/ \E q \in Query : StartRefresh(q)
    <3>1. PairsTyped'
      BY <2>24 DEF StartTimer, StartRefresh, storeVars, Typed
    <3>2. QED
      BY <2>2, <2>14, <2>18, <2>24, <3>1 DEF StartTimer, StartRefresh
  <2>25. CASE Bootstrap
    <3>1. PairsTyped'
      BY <2>25 DEF Bootstrap, storeVars, Typed
    <3>2. QED
      BY <2>1, <2>2, <2>14, <2>18, <2>25, <3>1 DEF Bootstrap, Typed
  <2>26. CASE Reload
    <3>1. PairsTyped'
      BY <2>26 DEF Reload, Typed
    <3>2. QED
      BY <2>2, <2>16, <2>26, <3>1 DEF Reload
  <2>27. CASE \E q \in Query : NoTokens(q) \/ FetchUserFails(q)
    <3>1. PairsTyped'
      BY <2>27 DEF NoTokens, FetchUserFails, SignOut, Set, Typed
    <3>2. QED
      BY <2>2, <2>16, <2>27, <3>1 DEF NoTokens, FetchUserFails
  <2>28. CASE Tick \/ OpenOther \/ OtherFetched
    <3>1. PairsTyped' /\ now' \in Nat
      BY <2>28 DEF Tick, storeVars, OpenOther, OtherFetched, firstVars, SetOther, Typed
    <3>2. QED
      BY <2>1, <2>28, <3>1 DEF Tick, OpenOther, OtherFetched, firstVars
  <2>29. CASE \E q \in Query : \/ Deny(q) \/ WaitForRefresh(q) \/ Settle(q)
                              \/ \E kind \in {"read", "logout"} : Send(q, kind)
    <3>1. PairsTyped' /\ now' = now
      BY <2>29 DEF Deny, WaitForRefresh, Settle, Ends, Send, storeVars, Set, Typed
    <3>2. QED
      BY <2>1, <2>29, <3>1 DEF Deny, WaitForRefresh, Settle, Send, Typed
  <2>30. CASE UNCHANGED vars
    BY <2>1, <2>30 DEF vars, Typed
  <2>31. QED
    BY <2>4, <2>5, <2>6, <2>7, <2>8, <2>9, <2>12, <2>13, <2>20, <2>21, <2>22,
       <2>23, <2>24, <2>25, <2>26, <2>27, <2>28, <2>29, <2>30
    DEF Next, RefreshServer, Respond, Finish, HandleDenied
<1>3. QED
  BY <1>1, <1>2, PTL DEF Spec

\* SessionsAreEarned: there are never more token rows than logins and overlapping
\* refreshes, however the agents of the tab, a second tab and other devices
\* interleave, and whatever fails.
THEOREM EverySessionIsEarned == Spec => []SessionsAreEarned
BY EarnedHolds, PTL

-----------------------------------------------------------------------------
(* Why a refresh fails.                                                    *)

\* What may end a refresh token, as SignedOutForCause lists it.
HasCause(t) ==
  \/ Expired(t, RefreshLife) \/ t \in spoilt \cup restored
  \/ \E a, b \in Agent \cup {"tab2"} :
       a # b /\ {<<a, t>>, <<b, t>>} \subseteq presented

\* An agent has yet to use the row of a token, has used it up and will put
\* another token in its place, or has a new token the store waits for.
Uses(a, t) == refresh[a].at \in {"validate", "remove"} /\ refresh[a].token = t
Replaces(a, t) ==
  /\ refresh[a].at \in {"generate", "ok"} /\ refresh[a].mounted
  /\ refresh[a].token = t
Brings(a, t) ==
  refresh[a].at = "ok" /\ refresh[a].mounted /\ refresh[a].new = t

\* A token is kept by the tab, until an agent is about to replace it; or else it
\* is in the local storage, where the tab may find it, or with the second tab,
\* which may put it there.
Unused(t) == \A a \in Agent \cup {"tab2"} : <<a, t>> \notin presented
Keeps(t) ==
  IF held = t THEN \A a \in Agent : ~Replaces(a, t)
              ELSE stored = t \/ (other = t /\ Unused(t))

\* Who needs a row of a token: whoever keeps it, and each agent that does not
\* share the row with the tab's store.
Claimants(t) ==
  {a \in Agent : \/ Brings(a, t)
                 \/ Uses(a, t) /\ (~refresh[a].mounted \/ held # t)}
  \cup {x \in {"kept"} : Keeps(t)}

\* There is a row for each of them, until something ends the token or the
\* second tab has used it.
Covered(t) == Cardinality(Claimants(t)) <= Cardinality(RowsOf(t))
Backed(t) == HasCause(t) \/ <<"tab2", t>> \in presented \/ Covered(t)

Sent == \A a \in Agent : refresh[a].at # "idle" => <<a, refresh[a].token>> \in presented
Matches == \A a \in Agent : refresh[a].at = "remove" => refresh[a].row.token = refresh[a].token
Numbered == \A r \in rows : r.id <= written
Booted ==
  booting = "refresh" =>
    refresh["provider"].at # "idle" /\ refresh["provider"].mounted
FailuresHaveCause ==
  \A a \in Agent : refresh[a].at = "failed" /\ refresh[a].token \in Nat =>
    HasCause(refresh[a].token)

Order == Sent /\ Matches /\ Numbered /\ Booted
Cause == Order /\ FailuresHaveCause /\ \A t \in Nat : Backed(t)

\* Four ways in which one set stays no larger than another.
LEMMA Fewer ==
  ASSUME NEW C, NEW D, NEW R, NEW S, IsFiniteSet(C), IsFiniteSet(S),
         Cardinality(C) <= Cardinality(R), D \subseteq C, R \subseteq S
  PROVE  Cardinality(D) <= Cardinality(S)
<1>1. /\ IsFiniteSet(D) /\ Cardinality(D) <= Cardinality(C)
      /\ IsFiniteSet(R) /\ Cardinality(R) <= Cardinality(S)
  BY FS_Subset
<1>2. {Cardinality(C), Cardinality(D), Cardinality(R), Cardinality(S)} \subseteq Nat
  BY <1>1, FS_CardinalityType
<1>3. QED
  BY <1>1, <1>2

LEMMA Swapped ==
  ASSUME NEW C, NEW D, NEW R, NEW S, IsFiniteSet(C), IsFiniteSet(S),
         Cardinality(C) <= Cardinality(R),
         NEW x \in C, NEW y, D \subseteq (C \ {x}) \cup {y}, R \subseteq S
  PROVE  Cardinality(D) <= Cardinality(S)
<1> DEFINE E == (C \ {x}) \cup {y}
<1>1. /\ IsFiniteSet(C \ {x}) /\ Cardinality(C \ {x}) = Cardinality(C) - 1
  BY FS_RemoveElement
<1>2. /\ IsFiniteSet(E) /\ Cardinality(E) <= Cardinality(C \ {x}) + 1
      /\ Cardinality(E) \in Nat /\ Cardinality(C \ {x}) \in Nat
  BY <1>1, Grown
<1>3. Cardinality(C) \in Nat
  BY FS_CardinalityType
<1> HIDE DEF E
<1>4. Cardinality(E) <= Cardinality(C)
  BY <1>1, <1>2, <1>3
<1>5. IsFiniteSet(R)
  BY FS_Subset
<1>6. Cardinality(R) \in Nat
  BY <1>5, FS_CardinalityType
<1>7. Cardinality(E) <= Cardinality(R)
  BY <1>2, <1>3, <1>4, <1>6
<1>8. QED
  BY <1>2, <1>7, Fewer DEF E

LEMMA Added ==
  ASSUME NEW C, NEW D, NEW R, NEW S, IsFiniteSet(C), IsFiniteSet(S),
         Cardinality(C) <= Cardinality(R),
         NEW y, NEW r, r \notin R, D \subseteq C \cup {y}, R \cup {r} \subseteq S
  PROVE  Cardinality(D) <= Cardinality(S)
<1>1. /\ IsFiniteSet(C \cup {y}) /\ Cardinality(C \cup {y}) <= Cardinality(C) + 1
      /\ Cardinality(C \cup {y}) \in Nat /\ Cardinality(C) \in Nat
  BY Grown
<1>2. IsFiniteSet(R)
  BY FS_Subset
<1>3. Cardinality(R \cup {r}) = Cardinality(R) + 1 /\ Cardinality(R) \in Nat
  BY <1>2, FS_AddElement, FS_CardinalityType
<1>4. Cardinality(C \cup {y}) <= Cardinality(R \cup {r})
  BY <1>1, <1>3
<1>5. QED
  BY <1>1, <1>4, Fewer

LEMMA Dropped ==
  ASSUME NEW C, NEW D, NEW R, NEW r, IsFiniteSet(C), IsFiniteSet(R),
         Cardinality(C) <= Cardinality(R), NEW x \in C, D \subseteq C \ {x}
  PROVE  Cardinality(D) <= Cardinality(R \ {r})
<1>1. /\ IsFiniteSet(C \ {x}) /\ Cardinality(C \ {x}) = Cardinality(C) - 1
  BY FS_RemoveElement
<1>2. /\ IsFiniteSet(R \ {r}) /\ Cardinality(R \ {r}) >= Cardinality(R) - 1
  <2>1. CASE r \in R
    <3>1. IsFiniteSet(R \ {r}) /\ Cardinality(R \ {r}) = Cardinality(R) - 1
      BY <2>1, FS_RemoveElement
    <3>2. Cardinality(R \ {r}) \in Nat
      BY <3>1, FS_CardinalityType
    <3>3. QED
      BY <3>1, <3>2
  <2>2. CASE r \notin R
    <3>1. R \ {r} = R
      BY <2>2
    <3>2. Cardinality(R) \in Nat
      BY FS_CardinalityType
    <3>3. QED
      BY <3>1, <3>2
  <2>3. QED
    BY <2>1, <2>2
<1>3. /\ Cardinality(C) \in Nat /\ Cardinality(R) \in Nat
      /\ Cardinality(C \ {x}) \in Nat /\ Cardinality(R \ {r}) \in Nat
  BY <1>1, <1>2, FS_CardinalityType
<1>4. Cardinality(C \ {x}) <= Cardinality(R \ {r})
  BY <1>1, <1>2, <1>3
<1>5. QED
  BY <1>1, <1>2, <1>4, Fewer

LEMMA ClaimantsAre ==
  ASSUME Typed, NEW t
  PROVE  /\ IsFiniteSet(Claimants(t)) /\ IsFiniteSet(RowsOf(t))
         /\ "kept" \in Claimants(t) <=> Keeps(t)
         /\ \A a \in Agent :
              a \in Claimants(t) <=>
                \/ Brings(a, t)
                \/ Uses(a, t) /\ (~refresh[a].mounted \/ held # t)
         /\ \A x \in Claimants(t) : x \in Agent \/ x = "kept"
         /\ "kept" \notin Agent
<1>1. "kept" \notin Agent
  BY DEF Agent
<1>2. /\ \A x \in Claimants(t) : x \in Agent \/ x = "kept"
      /\ "kept" \in Claimants(t) <=> Keeps(t)
      /\ \A a \in Agent :
           a \in Claimants(t) <=>
             \/ Brings(a, t)
             \/ Uses(a, t) /\ (~refresh[a].mounted \/ held # t)
  BY <1>1 DEF Claimants
<1>3. IsFiniteSet(Agent \cup {"kept"})
  BY Agents, FS_AddElement
<1>4. IsFiniteSet(Claimants(t))
  BY <1>2, <1>3, FS_Subset
<1>5. IsFiniteSet(RowsOf(t))
  BY FS_Subset DEF RowsOf, Typed
<1>6. QED
  BY <1>1, <1>2, <1>4, <1>5

\* What happened does not come undone.
LEMMA HistoryGrows ==
  ASSUME Typed, [Next]_vars
  PROVE  /\ now <= now' /\ spoilt \subseteq spoilt' /\ restored \subseteq restored'
         /\ presented \subseteq presented'
<1> USE DEF otherVars, history
<1>1. now \in Nat
  BY DEF Typed
<1>2. CASE UNCHANGED vars
  BY <1>1, <1>2 DEF vars
<1>3. CASE Tick \/ LoginElsewhere \/ EndElsewhere \/ Reload
  BY <1>1, <1>3 DEF Tick, LoginElsewhere, EndElsewhere, Reload
<1>4. CASE StartTimer \/ Bootstrap \/ BootRefreshed
  BY <1>1, <1>4 DEF StartTimer, Bootstrap, BootRefreshed, Present
<1>5. CASE \E a \in Agent : RefreshServer(a) \/ RefreshFails(a) \/ Finish(a) \/ ForgetRefresh(a)
  <2>1. UNCHANGED <<now, presented, restored>> /\ spoilt \subseteq spoilt'
    BY <1>5 DEF RefreshServer, ValidateToken, RemoveToken, AnswerRefresh, RefreshFails,
                Finish, RefreshDone, TimerDone, ForgetRefresh
  <2>2. QED
    BY <1>1, <2>1
<1>6. CASE \E q \in Query : Respond(q) \/ HandleDenied(q) \/ Settle(q) \/ FetchUserFails(q)
  BY <1>1, <1>6 DEF Respond, Authorise, Deny, HandleDenied, WaitForRefresh, StartRefresh,
                    NoTokens, Settle, FetchUserFails, Present
<1>7. CASE \E q \in Query : Login(q) \/ \E kind \in {"read", "logout"} : Send(q, kind)
  BY <1>1, <1>7 DEF Login, Send
<1>8. CASE OpenOther \/ LoginOther \/ OtherFetched \/ RefreshOther \/ SignOutOther
  BY <1>1, <1>8 DEF OpenOther, LoginOther, OtherFetched, RefreshOther, SignOutOther, firstVars
<1>9. QED
  BY <1>2, <1>3, <1>4, <1>5, <1>6, <1>7, <1>8 DEF Next

LEMMA Later ==
  ASSUME NEW n \in Nat, NEW m \in Nat, NEW t \in Nat, NEW life \in Nat,
         m >= n, n - t >= life
  PROVE  m - t >= life
  OBVIOUS

LEMMA CauseStays ==
  ASSUME Typed, Typed', [Next]_vars, NEW t \in Nat, HasCause(t)
  PROVE  HasCause(t)'
<1>1. /\ now' >= now /\ spoilt \subseteq spoilt' /\ restored \subseteq restored'
      /\ presented \subseteq presented'
  BY HistoryGrows
<1>2. now \in Nat /\ now' \in Nat /\ RefreshLife \in Nat
  BY SessionAssumption DEF Typed
<1>3. Expired(t, RefreshLife) => Expired(t, RefreshLife)'
  <2>1. now' >= now
    BY <1>1
  <2>2. QED
    BY <1>2, <2>1, Later DEF Expired
<1>4. QED
  BY <1>1, <1>3 DEF HasCause

LEMMA StepIs ==
  ASSUME Typed, NEW a \in Agent, NEW new, RefreshStep(a, new)
  PROVE  refresh'[a] = new /\ \A b \in Agent \ {a} : refresh'[b] = refresh[b]
  BY DEF RefreshStep, Typed

\* The page is gone; what the server does for it goes on.
LEMMA DismountedIs ==
  ASSUME Typed, NEW a \in Agent
  PROVE  /\ Unmounted[a].at = refresh[a].at /\ Unmounted[a].token = refresh[a].token
         /\ Unmounted[a].new = refresh[a].new /\ Unmounted[a].row = refresh[a].row
         /\ Unmounted[a].mounted = FALSE
  BY DEF Unmounted, Typed, RefreshRow

\* Without a cause a token is with one agent only.
LEMMA OneAgent ==
  ASSUME Sent, NEW t, ~HasCause(t), NEW a \in Agent, NEW b \in Agent,
         refresh[a].at # "idle", refresh[a].token = t,
         refresh[b].at # "idle", refresh[b].token = t
  PROVE  a = b
<1>1. {<<a, t>>, <<b, t>>} \subseteq presented
  BY DEF Sent
<1>2. QED
  BY <1>1 DEF HasCause

\* A step that leaves the store and the refreshes alone, and the rows of t, and
\* keeps t nowhere else.
LEMMA Untouched ==
  ASSUME Typed, Typed', NEW t, Covered(t), presented \subseteq presented',
         UNCHANGED <<held, refresh>>, RowsOf(t) \subseteq RowsOf(t)',
         held # t /\ Keeps(t)' => Keeps(t)
  PROVE  Covered(t)'
<1>1. Claimants(t)' \subseteq Claimants(t)
  BY DEF Claimants, Brings, Uses, Replaces, Keeps
<1>2. IsFiniteSet(Claimants(t)) /\ IsFiniteSet(RowsOf(t)')
  BY ClaimantsAre, FS_Subset DEF Typed, RowsOf
<1>3. QED
  BY <1>1, <1>2, Fewer DEF Covered

\* The tab stores another token.  Then t is kept only by the second tab, if it
\* was there and unused.
LEMMA SetAway ==
  ASSUME Typed, Sent, NEW t, presented \subseteq presented',
         held' # t, stored' # t, other' = other, Keeps(t)'
  PROVE  /\ Keeps(t)
         /\ \A a \in Agent : refresh[a].at # "idle" => refresh[a].token # t
<1>1. other = t /\ \A a \in Agent : <<a, t>> \notin presented
  BY DEF Keeps, Unused
<1>2. \A a \in Agent : refresh[a].at # "idle" => refresh[a].token # t
  BY <1>1 DEF Sent
<1>3. Unused(t)
  BY DEF Keeps, Unused
<1>4. QED
  BY <1>1, <1>2, <1>3 DEF Keeps, Replaces

\* The store is cleared, and with it goes the page or nothing: an agent that
\* shared its row with the store needs it for itself.
LEMMA Cleared ==
  ASSUME Typed, Typed', Sent, NEW t \in Nat, Covered(t), ~HasCause(t),
         Set(None), other' = other, rows' = rows, presented \subseteq presented',
         \A a \in Agent :
           \/ refresh'[a] = refresh[a] \/ refresh'[a].at = "idle"
           \/ refresh'[a] = Unmounted[a]
  PROVE  Covered(t)'
<1> DEFINE C == Claimants(t)
           D == Claimants(t)'
<1>1. held' # t /\ stored' # t
  BY SessionAssumption DEF Set
<1>2. /\ IsFiniteSet(C) /\ IsFiniteSet(RowsOf(t)') /\ RowsOf(t)' = RowsOf(t)
      /\ \A x \in D : x \in Agent \/ x = "kept"
      /\ "kept" \in D => Keeps(t)'
  BY ClaimantsAre DEF RowsOf, Claimants, Agent
<1>3. ASSUME NEW a \in D, a # "kept"
      PROVE  a \in Agent /\ (Brings(a, t) \/ Uses(a, t))
  <2>1. a \in Agent /\ (Brings(a, t)' \/ Uses(a, t)')
    BY <1>2, <1>3 DEF Claimants
  <2>2. Unmounted[a].at = refresh[a].at /\ Unmounted[a].token = refresh[a].token
        /\ ~Unmounted[a].mounted
    BY <2>1, DismountedIs
  <2>3. QED
    BY <2>1, <2>2 DEF Brings, Uses
<1>4. CASE \E b \in Agent : Uses(b, t) /\ held = t
  <2>1. PICK b \in Agent : Uses(b, t) /\ held = t
    BY <1>4
  <2>2. \A a \in Agent : ~Replaces(a, t)
    BY <2>1, OneAgent DEF Uses, Replaces
  <2>3. "kept" \in C
    BY <2>1, <2>2, ClaimantsAre DEF Keeps
  <2>4. "kept" \notin D
    BY <1>1, <1>2, <2>1, SetAway DEF Uses
  <2>5. D \subseteq (C \ {"kept"}) \cup {b}
    BY <1>2, <1>3, <2>1, <2>4, OneAgent, ClaimantsAre DEF Uses
  <2>6. QED
    BY <1>2, <2>3, <2>5, Swapped DEF Covered
<1>5. CASE ~ \E b \in Agent : Uses(b, t) /\ held = t
  <2>1. D \subseteq C
    BY <1>1, <1>2, <1>3, <1>5, SetAway, ClaimantsAre
  <2>2. QED
    BY <1>2, <2>1, Fewer DEF Covered
<1>6. QED
  BY <1>4, <1>5

\* The store takes the token an agent brings.
LEMMA Stores ==
  ASSUME Typed, Typed', Sent, NEW t \in Nat, Covered(t), ~HasCause(t),
         NEW a \in Agent, refresh[a].at = "ok", refresh[a].mounted,
         RefreshStep(a, IdleRefresh), Set(refresh[a].new), other' = other,
         rows' = rows, presented \subseteq presented'
  PROVE  Covered(t)'
<1> DEFINE C == Claimants(t)
           D == Claimants(t)'
<1>1. /\ refresh'[a].at = "idle" /\ \A b \in Agent \ {a} : refresh'[b] = refresh[b]
  BY StepIs DEF IdleRefresh
<1>2. /\ IsFiniteSet(C) /\ IsFiniteSet(RowsOf(t)') /\ RowsOf(t)' = RowsOf(t)
      /\ \A x \in D : x \in Agent \/ x = "kept"
  BY ClaimantsAre DEF RowsOf, Claimants
<1>3. ASSUME NEW b \in D, b # "kept"
      PROVE  /\ b \in Agent \ {a}
             /\ \/ Brings(b, t)
                \/ Uses(b, t) /\ (~refresh[b].mounted \/ held' # t)
  <2>1. b \in Agent
    BY <1>2, <1>3
  <2>2. \/ Brings(b, t)'
        \/ Uses(b, t)' /\ (~refresh'[b].mounted \/ held' # t)
    BY <1>3, <2>1 DEF Claimants
  <2>3. b # a
    BY <1>1, <2>2 DEF Brings, Uses
  <2>4. QED
    BY <1>1, <2>1, <2>2, <2>3 DEF Brings, Uses
<1>4. "kept" \in D => Keeps(t)'
  BY DEF Claimants, Agent
<1>5. a # "kept" /\ held' = refresh[a].new /\ stored' = held'
  BY DEF Agent, Set
<1>6. CASE held' = t
  <2>1. a \in C
    BY <1>5, <1>6, ClaimantsAre DEF Brings
  <2>2. D \subseteq (C \ {a}) \cup {"kept"}
    BY <1>3, <1>6, ClaimantsAre
  <2>3. QED
    BY <1>2, <2>1, <2>2, Swapped DEF Covered
<1>7. CASE held' # t /\ \E b \in Agent : Uses(b, t) /\ held = t
  <2>1. PICK b \in Agent : Uses(b, t) /\ held = t
    BY <1>7
  <2>2. \A c \in Agent : ~Replaces(c, t)
    BY <2>1, OneAgent DEF Uses, Replaces
  <2>3. "kept" \in C
    BY <2>1, <2>2, ClaimantsAre DEF Keeps
  <2>4. D \subseteq (C \ {"kept"}) \cup {b}
    <3>0. "kept" \notin D
      BY <1>4, <1>5, <1>7, <2>1, SetAway DEF Uses
    <3>1. ASSUME NEW x \in D PROVE x \in (C \ {"kept"}) \cup {b}
      <4>1. x # "kept" /\ x \in Agent
        BY <1>2, <3>0
      <4>2. Brings(x, t) \/ Uses(x, t)
        BY <1>3, <4>1
      <4>3. Uses(x, t) => x = b
        BY <2>1, <4>1, OneAgent DEF Uses
      <4>4. QED
        BY <4>1, <4>2, <4>3, ClaimantsAre
    <3>2. QED
      BY <3>1
  <2>5. QED
    BY <1>2, <2>3, <2>4, Swapped DEF Covered
<1>8. CASE held' # t /\ ~ \E b \in Agent : Uses(b, t) /\ held = t
  <2>1. D \subseteq C
    BY <1>2, <1>3, <1>4, <1>5, <1>8, SetAway, ClaimantsAre
  <2>2. QED
    BY <1>2, <2>1, Fewer DEF Covered
<1>9. QED
  BY <1>6, <1>7, <1>8

\* One agent moves, needs no row it did not need, and goes on replacing what
\* the store has.
LEMMA Moves ==
  ASSUME Typed, Typed', NEW t, Covered(t), NEW a \in Agent, NEW new,
         RefreshStep(a, new), UNCHANGED <<storeVars, other, rows>>,
         presented \subseteq presented', a \in Claimants(t)' => a \in Claimants(t),
         held = t /\ Replaces(a, t) => Replaces(a, t)'
  PROVE  Covered(t)'
<1> USE DEF storeVars
<1>1. \A b \in Agent \ {a} : refresh'[b] = refresh[b]
  BY StepIs
<1>2. IsFiniteSet(Claimants(t)) /\ IsFiniteSet(RowsOf(t)') /\ RowsOf(t)' = RowsOf(t)
  BY ClaimantsAre DEF RowsOf
<1>3. ASSUME NEW x \in Claimants(t)' PROVE x \in Claimants(t)
  <2>1. x \in Agent \/ x = "kept"
    BY DEF Claimants
  <2>2. CASE x \in Agent \ {a}
    <3>1. \/ Brings(x, t)'
          \/ Uses(x, t)' /\ (~refresh'[x].mounted \/ held' # t)
      BY <2>2 DEF Claimants, Agent
    <3>2. QED
      BY <1>1, <2>2, <3>1, ClaimantsAre DEF Brings, Uses
  <2>3. CASE x = a
    BY <2>3
  <2>4. CASE x = "kept"
    <3>1. Keeps(t)'
      BY <2>4 DEF Claimants, Agent
    <3>2. Keeps(t)
      BY <1>1, <3>1 DEF Keeps, Unused, Replaces
    <3>3. QED
      BY <2>4, <3>2, ClaimantsAre
  <2>5. QED
    BY <2>1, <2>2, <2>3, <2>4
<1>4. QED
  BY <1>2, <1>3, Fewer DEF Covered

\* What is sent is the token of the store, which has its row.
LEMMA Presents ==
  ASSUME Typed, Typed', NEW t, Covered(t), NEW a \in Agent,
         refresh[a].at = "idle", Present(a, held), UNCHANGED <<storeVars, other, rows>>
  PROVE  Covered(t)'
<1> DEFINE new == [IdleRefresh EXCEPT !.at = "validate", !.token = held, !.mounted = TRUE]
<1>1. /\ RefreshStep(a, new) /\ new.at = "validate" /\ new.token = held /\ new.mounted
      /\ presented \subseteq presented' /\ held' = held
  BY DEF Present, IdleRefresh, storeVars
<1> HIDE DEF new
<1>2. refresh'[a] = new
  BY <1>1, StepIs
<1>3. a \notin Claimants(t)'
  BY <1>1, <1>2 DEF Claimants, Brings, Uses, Agent
<1>4. ~Replaces(a, t)
  BY DEF Replaces
<1>5. QED
  BY <1>1, <1>3, <1>4, Moves

\* A new row is not one of those there were.
LEMMA NewRow ==
  ASSUME Typed, Numbered, NEW t, RowsOf(t) \subseteq rows',
         [id |-> written + 1, token |-> now] \in rows'
  PROVE  /\ RowsOf(t) \subseteq RowsOf(t)'
         /\ t = now => \E r : r \notin RowsOf(t) /\ RowsOf(t) \cup {r} \subseteq RowsOf(t)'
<1> DEFINE r == [id |-> written + 1, token |-> now]
<1>1. r \in rows' /\ r.id = written + 1 /\ r.token = now
  OBVIOUS
<1>2. \A x \in rows : x.id <= written /\ x.id \in Nat
  BY DEF Numbered, Typed, TokenRow
<1>3. written \in Nat
  BY DEF Typed
<1> HIDE DEF r
<1>4. r \notin rows
  BY <1>1, <1>2, <1>3
<1>5. QED
  BY <1>1, <1>4 DEF RowsOf

LEMMA GeneratedRow ==
  ASSUME Typed, Numbered, GenerateToken, NEW t
  PROVE  /\ RowsOf(t) \subseteq RowsOf(t)'
         /\ t = now => \E r : r \notin RowsOf(t) /\ RowsOf(t) \cup {r} \subseteq RowsOf(t)'
<1>1. RowsOf(t) \subseteq rows' /\ [id |-> written + 1, token |-> now] \in rows'
  BY DEF GenerateToken, RowsOf
<1>2. QED
  BY <1>1, NewRow

\* The new row is for whoever keeps its token now, in either tab.
LEMMA Issued ==
  ASSUME Typed, Typed', NEW t \in Nat, Covered(t), refresh' = refresh,
         presented \subseteq presented', RowsOf(t) \subseteq RowsOf(t)',
         t = now => \E r : r \notin RowsOf(t) /\ RowsOf(t) \cup {r} \subseteq RowsOf(t)',
         held' = held \/ (held # t /\ held' = now),
         held' # t /\ t # now /\ Keeps(t)' => Keeps(t)
  PROVE  Covered(t)'
<1>1. IsFiniteSet(Claimants(t)) /\ IsFiniteSet(RowsOf(t)')
  BY ClaimantsAre, FS_Subset DEF Typed, RowsOf
<1>2. Claimants(t)' \subseteq Claimants(t) \cup {"kept"}
  BY DEF Claimants, Brings, Uses
<1>3. CASE now = t
  <2>1. PICK r : r \notin RowsOf(t) /\ RowsOf(t) \cup {r} \subseteq RowsOf(t)'
    BY <1>3
  <2>2. QED
    BY <1>1, <1>2, <2>1, Added DEF Covered
<1>4. CASE now # t
  <2>1. "kept" \in Claimants(t)' => Keeps(t)'
    BY DEF Claimants, Agent
  <2>2. Keeps(t)' => Keeps(t)
    BY <1>4 DEF Keeps, Replaces
  <2>3. Claimants(t)' \subseteq Claimants(t)
    BY <1>2, <2>1, <2>2, ClaimantsAre
  <2>4. QED
    BY <1>1, <2>3, Fewer DEF Covered
<1>5. QED
  BY <1>3, <1>4

LEMMA LoginCovers ==
  ASSUME Typed, Typed', Numbered, NEW t \in Nat, Covered(t),
         LoginElsewhere \/ LoginOther \/ \E q \in Query : Login(q)
  PROVE  Covered(t)'
<1>1. GenerateToken /\ refresh' = refresh /\ presented' = presented
  BY DEF LoginElsewhere, LoginOther, Login, firstVars
<1>2. held' = held \/ (held # t /\ held' = now)
  BY SessionAssumption DEF LoginElsewhere, tabVars, storeVars, LoginOther, firstVars, Login, Set
<1>3. held' # t /\ t # now /\ Keeps(t)' => Keeps(t)
  BY SessionAssumption
  DEF LoginElsewhere, tabVars, storeVars, otherVars, LoginOther, firstVars, SetOther, Login, Set,
      Keeps, Unused
<1>4. QED
  BY <1>1, <1>2, <1>3, GeneratedRow, Issued

\* The second tab renews another token than t, or loses it.
LEMMA OtherRefreshCovers ==
  ASSUME Typed, Typed', Numbered, NEW t \in Nat, Covered(t), RefreshOther,
         <<"tab2", t>> \notin presented'
  PROVE  Covered(t)'
<1>1. /\ refresh' = refresh /\ held' = held /\ presented \subseteq presented' /\ other # t
  BY DEF RefreshOther, firstVars
<1>2. CASE UNCHANGED serverVars /\ SetOther(None)
  <2>1. held # t /\ Keeps(t)' => Keeps(t)
    BY <1>1, <1>2, SessionAssumption DEF SetOther, Keeps
  <2>2. QED
    BY <1>1, <1>2, <2>1, Untouched DEF serverVars, RowsOf
<1>3. CASE SetOther(now) /\ \E r \in RowsOf(other) :
              rows' = (rows \ {r}) \cup {[id |-> written + 1, token |-> now]}
  <2>1. PICK r \in RowsOf(other) :
          rows' = (rows \ {r}) \cup {[id |-> written + 1, token |-> now]}
    BY <1>3
  <2>2. RowsOf(t) \subseteq rows' /\ [id |-> written + 1, token |-> now] \in rows'
    BY <1>1, <2>1 DEF RowsOf
  <2>3. held' # t /\ t # now /\ Keeps(t)' => Keeps(t)
    BY <1>3 DEF SetOther, Keeps
  <2>4. QED
    BY <1>1, <2>2, <2>3, NewRow, Issued
<1>4. QED
  BY <1>2, <1>3 DEF RefreshOther

\* The row goes with the agent's claim to it, or with the store's.
LEMMA RemoveCovers ==
  ASSUME Typed, Typed', Sent, Matches, NEW t \in Nat, Covered(t), ~HasCause(t),
         NEW a \in Agent, RemoveToken(a)
  PROVE  Covered(t)'
<1> DEFINE new == [refresh[a] EXCEPT !.at = "generate"]
           row == refresh[a].row
           C == Claimants(t)
           D == Claimants(t)'
<1> USE DEF storeVars
<1>1. /\ refresh[a].at = "remove" /\ RefreshStep(a, new)
      /\ rows' = rows \ {row} /\ UNCHANGED <<storeVars, other, presented>>
  BY DEF RemoveToken, Without, tabVars, storeVars, otherVars
<1>2. /\ new.at = "generate" /\ new.token = refresh[a].token
      /\ new.mounted = refresh[a].mounted
  BY DEF Typed, RefreshRow
<1> HIDE DEF new
<1>3. refresh'[a] = new /\ \A b \in Agent \ {a} : refresh'[b] = refresh[b]
  BY <1>1, StepIs
<1>4. row.token = refresh[a].token
  BY <1>1 DEF Matches
<1>5. RowsOf(t)' = RowsOf(t) \ {row}
  BY <1>1 DEF RowsOf
<1>6. IsFiniteSet(C) /\ IsFiniteSet(RowsOf(t)) /\ IsFiniteSet(RowsOf(t)')
  BY <1>5, ClaimantsAre, FS_Subset
<1>7. D \subseteq C \ {a}
  <2>1. ASSUME NEW x \in D PROVE x \in C /\ x # a
    <3>1. x \in Agent \/ x = "kept"
      BY DEF Claimants
    <3>2. CASE x \in Agent
      <4>1. \/ Brings(x, t)'
            \/ Uses(x, t)' /\ (~refresh'[x].mounted \/ held' # t)
        BY <3>2 DEF Claimants, Agent
      <4>2. x # a
        BY <1>2, <1>3, <4>1 DEF Brings, Uses
      <4>3. QED
        BY <1>1, <1>3, <3>2, <4>1, <4>2, ClaimantsAre DEF Brings, Uses
    <3>3. CASE x = "kept"
      <4>1. Keeps(t)'
        BY <3>3 DEF Claimants, Agent
      <4>2. Keeps(t)
        BY <1>1, <1>3, <4>1 DEF Keeps, Unused, Replaces
      <4>3. QED
        BY <1>1, <3>3, <4>2, ClaimantsAre DEF Agent
    <3>4. QED
      BY <3>1, <3>2, <3>3
  <2>2. QED
    BY <2>1
<1>8. CASE refresh[a].token # t
  <2>1. row \notin RowsOf(t)
    BY <1>4, <1>8 DEF RowsOf
  <2>2. RowsOf(t) \subseteq RowsOf(t)'
    BY <1>5, <2>1
  <2>3. QED
    BY <1>6, <1>7, <2>2, Fewer DEF Covered
<1>9. CASE refresh[a].token = t /\ a \in C
  BY <1>5, <1>6, <1>7, <1>9, Dropped DEF Covered
<1>10. CASE refresh[a].token = t /\ a \notin C
  <2>1. refresh[a].mounted /\ held = t
    BY <1>1, <1>10, ClaimantsAre DEF Uses
  <2>2. \A b \in Agent : ~Replaces(b, t)
    BY <1>1, <1>10, OneAgent DEF Replaces
  <2>3. "kept" \in C
    BY <2>1, <2>2, ClaimantsAre DEF Keeps
  <2>4. "kept" \notin D
    <3>1. Replaces(a, t)' /\ held' = t
      BY <1>1, <1>2, <1>3, <1>10, <2>1 DEF Replaces
    <3>2. QED
      BY <3>1 DEF Claimants, Agent, Keeps
  <2>5. D \subseteq C \ {"kept"}
    BY <1>7, <2>4
  <2>6. QED
    BY <1>5, <1>6, <2>3, <2>5, Dropped DEF Covered
<1>11. QED
  BY <1>8, <1>9, <1>10

LEMMA AnswerCovers ==
  ASSUME Typed, Typed', Numbered, NEW t \in Nat, Covered(t),
         NEW a \in Agent, AnswerRefresh(a)
  PROVE  Covered(t)'
<1> DEFINE new == [refresh[a] EXCEPT !.at = "ok", !.new = now]
           C == Claimants(t)
           D == Claimants(t)'
<1> USE DEF storeVars
<1>1. /\ refresh[a].at = "generate" /\ RefreshStep(a, new) /\ GenerateToken
      /\ UNCHANGED <<storeVars, other, presented>>
  BY DEF AnswerRefresh, tabVars, history, otherVars
<1>2. /\ new.at = "ok" /\ new.token = refresh[a].token /\ new.new = now
      /\ new.mounted = refresh[a].mounted
  BY DEF Typed, RefreshRow
<1> HIDE DEF new
<1>3. refresh'[a] = new /\ \A b \in Agent \ {a} : refresh'[b] = refresh[b]
  BY <1>1, StepIs
<1>4. IsFiniteSet(C) /\ IsFiniteSet(RowsOf(t)')
  BY ClaimantsAre, FS_Subset DEF Typed, RowsOf
<1>5. ASSUME NEW x \in D PROVE x \in C \/ (x = a /\ now = t)
  <2>1. x \in Agent \/ x = "kept"
    BY DEF Claimants
  <2>2. CASE x \in Agent
    <3>1. \/ Brings(x, t)'
          \/ Uses(x, t)' /\ (~refresh'[x].mounted \/ held' # t)
      BY <2>2 DEF Claimants, Agent
    <3>2. CASE x = a
      BY <1>2, <1>3, <3>1, <3>2 DEF Brings, Uses
    <3>3. CASE x # a
      BY <1>1, <1>3, <2>2, <3>1, <3>3, ClaimantsAre DEF Brings, Uses
    <3>4. QED
      BY <3>2, <3>3
  <2>3. CASE x = "kept"
    <3>1. Keeps(t)'
      BY <2>3 DEF Claimants, Agent
    <3>2. Keeps(t)
      BY <1>1, <1>2, <1>3, <3>1 DEF Keeps, Unused, Replaces
    <3>3. QED
      BY <2>3, <3>2, ClaimantsAre
  <2>4. QED
    BY <2>1, <2>2, <2>3
<1>6. CASE now = t
  <2>1. PICK r : r \notin RowsOf(t) /\ RowsOf(t) \cup {r} \subseteq RowsOf(t)'
    BY <1>1, <1>6, GeneratedRow
  <2>2. D \subseteq C \cup {a}
    BY <1>5
  <2>3. QED
    BY <1>4, <2>1, <2>2, Added DEF Covered
<1>7. CASE now # t
  BY <1>1, <1>4, <1>5, <1>7, GeneratedRow, Fewer DEF Covered
<1>8. QED
  BY <1>6, <1>7

\* The page is loaded again: every token an agent had is spoilt.
LEMMA ReloadCovers ==
  ASSUME Typed, Typed', NEW t, Covered(t), Reload, ~HasCause(t)'
  PROVE  Covered(t)'
<1>1. /\ held' = stored /\ stored' = stored /\ rows' = rows /\ refresh' = Unmounted
      /\ UNCHANGED <<other, presented>>
  BY DEF Reload, serverVars, otherVars
<1>2. t \notin spoilt'
  BY DEF HasCause
<1>3. \A a \in Agent : refresh[a].at # "idle" => refresh[a].token # t
  BY <1>2 DEF Reload
<1>4. \A a \in Agent : ~refresh'[a].mounted /\ refresh'[a].at = refresh[a].at
                       /\ refresh'[a].token = refresh[a].token
  BY <1>1, DismountedIs
<1>5. ASSUME NEW x \in Claimants(t)' PROVE x \in Claimants(t)
  <2>1. x \in Agent \/ x = "kept"
    BY DEF Claimants
  <2>2. x \notin Agent
    <3>1. ASSUME x \in Agent PROVE FALSE
      <4>1. \/ Brings(x, t)'
            \/ Uses(x, t)'
        BY <3>1 DEF Claimants, Agent
      <4>2. QED
        BY <1>3, <1>4, <3>1, <4>1 DEF Brings, Uses
    <3>2. QED
      BY <3>1
  <2>3. Keeps(t)'
    BY <2>1, <2>2 DEF Claimants, Agent
  <2>4. Keeps(t)
    BY <1>1, <1>3, <2>3 DEF Keeps, Unused, Replaces
  <2>5. QED
    BY <2>1, <2>2, <2>4, ClaimantsAre
<1>6. IsFiniteSet(Claimants(t)) /\ IsFiniteSet(RowsOf(t)') /\ RowsOf(t)' = RowsOf(t)
  BY <1>1, ClaimantsAre DEF RowsOf
<1>7. QED
  BY <1>5, <1>6, Fewer DEF Covered

LEMMA ServerCovers ==
  ASSUME Typed, Typed', Order, NEW t \in Nat, Covered(t), ~HasCause(t), ~HasCause(t)',
         NEW a \in Agent, RefreshServer(a) \/ RefreshFails(a) \/ ForgetRefresh(a)
  PROVE  Covered(t)'
<1> USE DEF serverVars, storeVars, tabVars, otherVars, history
<1>1. CASE ValidateToken(a)
  <2>1. /\ refresh[a].at = "validate" /\ UNCHANGED <<storeVars, other, rows, presented>>
        /\ ~Replaces(a, t)
    BY <1>1 DEF ValidateToken, Replaces
  <2>2. PICK new : /\ RefreshStep(a, new)
                   /\ new.at \in {"remove", "failed"} /\ new.token = refresh[a].token
                   /\ new.mounted = refresh[a].mounted
    <3>1. refresh[a] \in RefreshRow
      BY DEF Typed
    <3>2. \A r : LET new == [refresh[a] EXCEPT !.at = "remove", !.row = r]
                 IN  /\ new.at = "remove" /\ new.token = refresh[a].token
                     /\ new.mounted = refresh[a].mounted
      BY <3>1 DEF RefreshRow
    <3>3. LET new == [refresh[a] EXCEPT !.at = "failed"]
          IN  /\ new.at = "failed" /\ new.token = refresh[a].token
              /\ new.mounted = refresh[a].mounted
      BY <3>1 DEF RefreshRow
    <3>4. \/ \E r : RefreshStep(a, [refresh[a] EXCEPT !.at = "remove", !.row = r])
          \/ RefreshStep(a, [refresh[a] EXCEPT !.at = "failed"])
      BY <1>1 DEF ValidateToken
    <3>5. QED
      BY <3>2, <3>3, <3>4
  <2>3. refresh'[a] = new
    BY <2>2, StepIs
  <2>4. a \in Claimants(t)' => a \in Claimants(t)
    <3>1. HAVE a \in Claimants(t)'
    <3>2. Uses(a, t)' /\ (~refresh'[a].mounted \/ held' # t)
      BY <2>2, <2>3, <3>1 DEF Claimants, Agent, Brings
    <3>3. QED
      BY <2>1, <2>2, <2>3, <3>2, ClaimantsAre DEF Uses
  <2>5. QED
    BY <2>1, <2>2, <2>4, Moves
<1>2. CASE RefreshFails(a)
  <2>1. UNCHANGED <<storeVars, other, rows, presented>> /\ refresh[a].token # t
    BY <1>2 DEF RefreshFails, HasCause
  <2>2. PICK new : RefreshStep(a, new) /\ new.at = "failed"
    BY <1>2 DEF RefreshFails, Typed, RefreshRow
  <2>3. refresh'[a] = new
    BY <2>2, StepIs
  <2>4. a \notin Claimants(t)'
    BY <2>2, <2>3 DEF Claimants, Agent, Brings, Uses
  <2>5. QED
    BY <2>1, <2>2, <2>4, Moves DEF Replaces
<1>3. CASE ForgetRefresh(a)
  <2>1. /\ UNCHANGED <<storeVars, other, rows, presented>> /\ RefreshStep(a, IdleRefresh)
        /\ ~Replaces(a, t)
    BY <1>3 DEF ForgetRefresh, Replaces
  <2>2. refresh'[a].at = "idle"
    BY <2>1, StepIs DEF IdleRefresh
  <2>3. a \notin Claimants(t)'
    BY <2>2 DEF Claimants, Agent, Brings, Uses
  <2>4. QED
    BY <2>1, <2>3, Moves
<1>4. QED
  BY <1>1, <1>2, <1>3, RemoveCovers, AnswerCovers DEF RefreshServer, Order

LEMMA Handled ==
  ASSUME Typed, NEW a \in Agent, NEW b \in Agent, NEW f,
         f = [Unmounted EXCEPT ![a] = IdleRefresh]
  PROVE  f[b] = Unmounted[b] \/ f[b].at = "idle"
  BY DEF Unmounted, IdleRefresh

LEMMA TabCovers ==
  ASSUME Typed, Typed', Order, NEW t \in Nat, Covered(t), ~HasCause(t),
         RefreshDone \/ TimerDone \/ BootRefreshed
  PROVE  Covered(t)'
<1> USE DEF Order
<1>1. "interceptor" \in Agent /\ "provider" \in Agent
  BY DEF Agent
<1>2. UNCHANGED <<rows, other, presented>>
  BY DEF RefreshDone, TimerDone, BootRefreshed, serverVars, otherVars, history
<1>3. ASSUME NEW a \in Agent, refresh[a].at = "ok", refresh[a].mounted,
             RefreshStep(a, IdleRefresh), Set(refresh[a].new)
      PROVE  Covered(t)'
  BY <1>2, <1>3, Stores
<1>4. ASSUME NEW a \in Agent, Set(None),
             refresh' = [Unmounted EXCEPT ![a] = IdleRefresh]
      PROVE  Covered(t)'
  BY <1>2, <1>4, Handled, Cleared
<1>5. ASSUME refresh["provider"].mounted, held # refresh["provider"].token,
             RefreshStep("provider", IdleRefresh), UNCHANGED storeVars
      PROVE  Covered(t)'
  <2>1. refresh'["provider"].at = "idle"
    BY <1>1, <1>5, StepIs DEF IdleRefresh
  <2>2. "provider" \notin Claimants(t)'
    BY <2>1 DEF Claimants, Brings, Uses
  <2>3. held = t => ~Replaces("provider", t)
    BY <1>5 DEF Replaces
  <2>4. QED
    BY <1>1, <1>2, <1>5, <2>2, <2>3, Moves
<1>6. CASE RefreshDone
  BY <1>1, <1>3, <1>4, <1>6 DEF RefreshDone, Stored, SignOut
<1>7. CASE TimerDone
  BY <1>1, <1>3, <1>4, <1>5, <1>7 DEF TimerDone, Stored, SignOut
<1>8. CASE BootRefreshed
  BY <1>1, <1>3, <1>4, <1>8 DEF BootRefreshed, Stored, SignOut, Booted
<1>9. QED
  BY <1>6, <1>7, <1>8

LEMMA StepCovers ==
  ASSUME Typed, Typed', Order, [Next]_vars, NEW t \in Nat, Covered(t),
         ~HasCause(t), ~HasCause(t)', <<"tab2", t>> \notin presented'
  PROVE  Covered(t)'
<1> USE DEF Order, serverVars, storeVars, tabVars, otherVars, history
<1>0. /\ "interceptor" \in Agent /\ "provider" \in Agent /\ t \notin spoilt' \cup restored'
      /\ presented \subseteq presented'
  BY HistoryGrows DEF Agent, HasCause
<1>1. ASSUME UNCHANGED <<held, refresh>>, RowsOf(t) \subseteq RowsOf(t)',
             held # t /\ Keeps(t)' => Keeps(t)
      PROVE  Covered(t)'
  BY <1>0, <1>1, Untouched
<1>2. ASSUME UNCHANGED <<storeVars, other, refresh>>, RowsOf(t) \subseteq RowsOf(t)'
      PROVE  Covered(t)'
  BY <1>0, <1>1, <1>2 DEF Keeps, Unused
<1>3. CASE UNCHANGED vars \/ Tick
  BY <1>2, <1>3 DEF vars, Tick, RowsOf
<1>4. CASE LoginElsewhere \/ LoginOther \/ \E q \in Query : Login(q)
  BY <1>4, LoginCovers
<1>5. CASE EndElsewhere \/ SignOutOther
  <2>1. RowsOf(t) \subseteq RowsOf(t)'
    BY <1>0, <1>5 DEF EndElsewhere, SignOutOther, RowsOf
  <2>2. CASE EndElsewhere
    BY <1>2, <2>1, <2>2 DEF EndElsewhere
  <2>3. CASE SignOutOther
    <3>1. held' = held /\ refresh' = refresh /\ ~ (held # t /\ Keeps(t)')
      BY <2>3, SessionAssumption DEF SignOutOther, firstVars, SetOther, Keeps
    <3>2. QED
      BY <1>1, <2>1, <3>1
  <2>4. QED
    BY <1>5, <2>2, <2>3
<1>6. CASE RefreshOther \/ Reload
  BY <1>6, OtherRefreshCovers, ReloadCovers
<1>7. CASE OpenOther \/ OtherFetched
  <2>1. /\ UNCHANGED <<held, refresh, rows, presented>>
        /\ RowsOf(t)' = RowsOf(t)
    BY <1>7 DEF OpenOther, OtherFetched, firstVars, RowsOf
  <2>2. held # t /\ Keeps(t)' => Keeps(t)
    <3>1. CASE OpenOther
      BY <2>1, <3>1 DEF OpenOther, Keeps
    <3>2. CASE OtherFetched
      BY <1>0, <2>1, <3>2 DEF OtherFetched, SetOther, Keeps, Unused
    <3>3. QED
      BY <1>7, <3>1, <3>2
  <2>3. QED
    BY <1>1, <2>1, <2>2
<1>8. CASE StartTimer \/ Bootstrap \/ \E q \in Query : StartRefresh(q)
  <2>1. ASSUME NEW a \in Agent, refresh[a].at = "idle", Present(a, held),
               UNCHANGED <<storeVars, other, rows>>
        PROVE  Covered(t)'
    BY <2>1, Presents
  <2>2. CASE Bootstrap
    BY <1>0, <1>2, <2>1, <2>2 DEF Bootstrap, RowsOf
  <2>3. QED
    BY <1>0, <1>8, <2>1, <2>2 DEF StartTimer, StartRefresh
<1>9. CASE BootRefreshed \/ \E a \in Agent : Finish(a)
  BY <1>9, TabCovers DEF Finish
<1>10. CASE \E a \in Agent : RefreshServer(a) \/ RefreshFails(a) \/ ForgetRefresh(a)
  BY <1>10, ServerCovers
<1>11. CASE \E q \in Query : \/ Deny(q) \/ WaitForRefresh(q)
                             \/ \E kind \in {"read", "logout"} : Send(q, kind)
  BY <1>2, <1>11 DEF Deny, WaitForRefresh, Send, RowsOf
<1>12. CASE \E q \in Query : Authorise(q)
  <2>1. PICK q \in Query : Authorise(q)
    BY <1>12
  <2>2. RowsOf(t) \subseteq RowsOf(t)'
    BY <1>0, <2>1 DEF Authorise, RowsOf
  <2>3. QED
    BY <1>2, <2>1, <2>2 DEF Authorise
<1>13. CASE \E q \in Query : Settle(q)
  <2>1. PICK q \in Query : Settle(q)
    BY <1>13
  <2>2. /\ UNCHANGED <<rows, refresh, other, presented>>
        /\ Set(None) \/ Set(held) \/ UNCHANGED storeVars
    BY <2>1 DEF Settle, Ends
  <2>3. CASE Set(held)
    <3>1. held # t /\ Keeps(t)' => Keeps(t)
      BY <2>2, <2>3 DEF Set, Keeps, Unused
    <3>2. QED
      BY <1>1, <2>2, <2>3, <3>1 DEF Set, RowsOf
  <2>4. QED
    BY <1>2, <2>2, <2>3, Cleared DEF RowsOf
<1>14. CASE \E q \in Query : NoTokens(q) \/ FetchUserFails(q)
  <2>1. Set(None) /\ UNCHANGED <<rows, other, presented>> /\ refresh' = Unmounted
    BY <1>14 DEF NoTokens, FetchUserFails, SignOut
  <2>2. QED
    BY <2>1, Cleared
<1>15. QED
  BY <1>3, <1>4, <1>5, <1>6, <1>7, <1>8, <1>9, <1>10, <1>11, <1>12, <1>13, <1>14
  DEF Next, Respond, HandleDenied

\* A token whose row an agent did not find ran out or was ended.
LEMMA NotFoundHasCause ==
  ASSUME Typed, Order, NEW a \in Agent, NEW t \in Nat, Backed(t),
         refresh[a].at = "validate", refresh[a].token = t, RowsOf(t) = {}
  PROVE  HasCause(t)
<1> SUFFICES ASSUME ~HasCause(t) PROVE FALSE
  OBVIOUS
<1> USE DEF Order
<1>1. <<a, t>> \in presented
  BY DEF Sent
<1>2. <<"tab2", t>> \notin presented
  <2>1. a # "tab2"
    BY DEF Agent
  <2>2. <<"tab2", t>> \in presented => {<<a, t>>, <<"tab2", t>>} \subseteq presented
    BY <1>1
  <2>3. QED
    BY <2>1, <2>2 DEF HasCause
<1>3. Cardinality(Claimants(t)) <= Cardinality(RowsOf(t))
  BY <1>2 DEF Backed, Covered
<1>4. Cardinality(RowsOf(t)) = 0
  BY FS_EmptySet
<1>5. IsFiniteSet(Claimants(t))
  BY ClaimantsAre
<1>6. Cardinality(Claimants(t)) \in Nat
  BY <1>5, FS_CardinalityType
<1>7. Claimants(t) = {}
  BY <1>3, <1>4, <1>5, <1>6, FS_EmptySet
<1>8. a \in Claimants(t) \/ "kept" \in Claimants(t)
  <2>1. held = t => Keeps(t)
    BY OneAgent DEF Keeps, Replaces
  <2>2. QED
    BY <2>1, ClaimantsAre DEF Uses
<1>9. QED
  BY <1>7, <1>8

\* A step of one agent keeps what is known of the others, and is fine as far as
\* its own new state is.
LEMMA OrderKept ==
  ASSUME Typed, Order, NEW a \in Agent, NEW new, RefreshStep(a, new),
         presented \subseteq presented',
         new.at # "idle" => <<a, new.token>> \in presented',
         new.at = "remove" => new.row.token = new.token
  PROVE  Sent' /\ Matches'
<1>1. refresh'[a] = new /\ \A b \in Agent \ {a} : refresh'[b] = refresh[b]
  BY StepIs
<1>2. QED
  BY <1>1 DEF Order, Sent, Matches

LEMMA OrderDropped ==
  ASSUME Typed, Order, presented \subseteq presented',
         \A a \in Agent : refresh'[a] = Unmounted[a] \/ refresh'[a].at = "idle"
  PROVE  Sent' /\ Matches'
<1>1. \A a \in Agent : /\ Unmounted[a].at = refresh[a].at
                       /\ Unmounted[a].token = refresh[a].token
                       /\ Unmounted[a].row = refresh[a].row
  BY DismountedIs
<1>2. QED
  BY <1>1 DEF Order, Sent, Matches

\* Row ids are written in order.
LEMMA NumberedStep ==
  ASSUME Typed, Numbered, [Next]_vars
  PROVE  Numbered'
<1> USE DEF serverVars, tabVars, history
<1>1. \A r \in rows : r.id \in Nat /\ r.id <= written
  BY DEF Typed, TokenRow, Numbered
<1>2. written \in Nat
  BY DEF Typed
<1>3. ASSUME written' = written, \A r \in rows' : r \in rows
      PROVE  Numbered'
  BY <1>1, <1>3 DEF Numbered
<1>4. ASSUME written' = written + 1,
             \A r \in rows' : r \in rows \/ r.id = written + 1
      PROVE  Numbered'
  BY <1>1, <1>2, <1>4 DEF Numbered
<1>5. ASSUME GenerateToken PROVE Numbered'
  BY <1>4, <1>5 DEF GenerateToken
<1>6. CASE UNCHANGED vars \/ Tick \/ Reload \/ StartTimer \/ Bootstrap \/ BootRefreshed
  BY <1>3, <1>6 DEF vars, Tick, Reload, StartTimer, Bootstrap, BootRefreshed
<1>7. CASE LoginElsewhere \/ LoginOther \/ \E q \in Query : Login(q)
  BY <1>5, <1>7 DEF LoginElsewhere, LoginOther, Login
<1>8. CASE EndElsewhere \/ SignOutOther \/ OpenOther \/ OtherFetched
  BY <1>3, <1>8 DEF EndElsewhere, SignOutOther, OpenOther, OtherFetched
<1>9. CASE RefreshOther
  BY <1>3, <1>4, <1>9 DEF RefreshOther
<1>10. CASE \E a \in Agent : RefreshServer(a) \/ RefreshFails(a) \/ Finish(a) \/ ForgetRefresh(a)
  <2>1. CASE \E a \in Agent : AnswerRefresh(a)
    BY <1>5, <2>1 DEF AnswerRefresh
  <2>2. CASE \E a \in Agent : RemoveToken(a)
    BY <1>3, <2>2 DEF RemoveToken, Without
  <2>3. CASE \E a \in Agent : ValidateToken(a) \/ RefreshFails(a) \/ Finish(a) \/ ForgetRefresh(a)
    BY <1>3, <2>3 DEF ValidateToken, RefreshFails, Finish, RefreshDone, TimerDone, ForgetRefresh
  <2>4. QED
    BY <1>10, <2>1, <2>2, <2>3 DEF RefreshServer
<1>11. CASE \E q \in Query : Authorise(q)
  BY <1>3, <1>11 DEF Authorise
<1>12. CASE \E q \in Query : \/ Deny(q) \/ HandleDenied(q) \/ Settle(q) \/ FetchUserFails(q)
                             \/ \E kind \in {"read", "logout"} : Send(q, kind)
  BY <1>3, <1>12 DEF Deny, HandleDenied, WaitForRefresh, StartRefresh, NoTokens, Settle,
                     FetchUserFails, Send
<1>13. QED
  BY <1>6, <1>7, <1>8, <1>9, <1>10, <1>11, <1>12 DEF Next, Respond

\* What the tab and the rest of the world do fails no refresh.
LEMMA OtherSteps ==
  ASSUME Typed, Order, [Next]_vars,
         \A a \in Agent : ~RefreshServer(a) /\ ~RefreshFails(a)
  PROVE  /\ Sent' /\ Matches' /\ Booted'
         /\ \A a \in Agent : refresh'[a].at = "failed" =>
              refresh[a].at = "failed" /\ refresh'[a].token = refresh[a].token
<1> DEFINE Kept == /\ Sent' /\ Matches' /\ Booted'
                   /\ \A a \in Agent : refresh'[a].at = "failed" =>
                        refresh[a].at = "failed" /\ refresh'[a].token = refresh[a].token
<1> USE DEF serverVars, tabVars, history, firstVars
<1>0. /\ presented \subseteq presented'
      /\ "interceptor" \in Agent /\ "provider" \in Agent /\ "interceptor" # "provider"
      /\ \A a \in Agent : a = "interceptor" \/ a = "provider"
  BY HistoryGrows DEF Agent
<1>1. ASSUME refresh' = refresh, booting' = booting \/ booting' # "refresh"
      PROVE  Kept
  BY <1>0, <1>1 DEF Order, Sent, Matches, Booted
<1>2. ASSUME \A a \in Agent : refresh'[a] = Unmounted[a] \/ refresh'[a].at = "idle",
             booting' # "refresh"
      PROVE  Kept
  BY <1>0, <1>2, OrderDropped, DismountedIs DEF Booted
<1>3. ASSUME NEW a \in Agent, NEW new, RefreshStep(a, new), new.at \in {"idle", "validate"},
             new.at # "idle" => <<a, new.token>> \in presented',
             booting' = "refresh" =>
               IF a = "provider" THEN new.at # "idle" /\ new.mounted
                                 ELSE booting = "refresh"
      PROVE  Kept
  <2>1. refresh'[a] = new /\ \A b \in Agent \ {a} : refresh'[b] = refresh[b]
    BY <1>3, StepIs
  <2>2. Sent' /\ Matches'
    BY <1>0, <1>3, OrderKept
  <2>3. Booted'
    BY <1>0, <1>3, <2>1 DEF Order, Booted
  <2>4. QED
    BY <1>3, <2>1, <2>2, <2>3
<1>4. ASSUME NEW a \in Agent, RefreshStep(a, IdleRefresh),
             booting' = "refresh" => a # "provider" /\ booting = "refresh"
      PROVE  Kept
  BY <1>3, <1>4 DEF IdleRefresh
<1>5. ASSUME NEW a \in Agent, Present(a, held),
             booting' = "refresh" => a = "provider" \/ booting = "refresh"
      PROVE  Kept
  <2> DEFINE new == [IdleRefresh EXCEPT !.at = "validate", !.token = held, !.mounted = TRUE]
  <2>1. /\ RefreshStep(a, new) /\ <<a, held>> \in presented'
        /\ new.at = "validate" /\ new.token = held /\ new.mounted
    BY <1>5 DEF Present, IdleRefresh
  <2> HIDE DEF new
  <2>2. QED
    BY <1>3, <1>5, <2>1
<1>6. ASSUME NEW a \in Agent, refresh' = [Unmounted EXCEPT ![a] = IdleRefresh],
             booting' # "refresh"
      PROVE  Kept
  BY <1>2, <1>6, Handled
<1> SUFFICES Kept
  OBVIOUS
<1> HIDE DEF Kept
<1>7. CASE \/ UNCHANGED vars \/ Tick \/ LoginElsewhere \/ EndElsewhere
           \/ OpenOther \/ LoginOther \/ OtherFetched \/ RefreshOther \/ SignOutOther
  BY <1>1, <1>7 DEF vars, Tick, LoginElsewhere, EndElsewhere, OpenOther, LoginOther,
                    OtherFetched, RefreshOther, SignOutOther
<1>8. CASE Reload \/ \E q \in Query : NoTokens(q) \/ FetchUserFails(q)
  <2>1. refresh' = Unmounted /\ booting' # "refresh"
    BY <1>8 DEF Reload, NoTokens, FetchUserFails, SignOut
  <2>2. QED
    BY <1>2, <2>1
<1>9. CASE StartTimer \/ \E q \in Query : StartRefresh(q)
  BY <1>0, <1>5, <1>9 DEF StartTimer, StartRefresh
<1>10. CASE Bootstrap
  BY <1>0, <1>1, <1>5, <1>10 DEF Bootstrap, FetchUser
<1>11. CASE BootRefreshed
  BY <1>0, <1>4, <1>6, <1>11 DEF BootRefreshed, FetchUser, SignOut
<1>12. CASE RefreshDone
  BY <1>0, <1>4, <1>6, <1>12 DEF RefreshDone, SignOut
<1>13. CASE TimerDone
  BY <1>0, <1>4, <1>6, <1>13 DEF TimerDone, SignOut
<1>14. CASE \E a \in Agent : ForgetRefresh(a)
  <2>1. PICK a \in Agent : ForgetRefresh(a)
    BY <1>14
  <2>2. booting' = "refresh" => a # "provider" /\ booting = "refresh"
    BY <2>1 DEF ForgetRefresh, Order, Booted
  <2>3. QED
    BY <1>4, <2>1, <2>2 DEF ForgetRefresh
<1>15. CASE \E q \in Query : \/ Login(q) \/ Authorise(q) \/ Deny(q) \/ WaitForRefresh(q)
                             \/ Settle(q) \/ \E kind \in {"read", "logout"} : Send(q, kind)
  BY <1>1, <1>15 DEF Login, Authorise, Deny, WaitForRefresh, Settle, Send
<1>16. QED
  BY <1>7, <1>8, <1>9, <1>10, <1>11, <1>12, <1>13, <1>14, <1>15
  DEF Next, Finish, Respond, HandleDenied

\* A refresh fails on the server because its token's row is not found, or for
\* any other reason, which spoils the token.
LEMMA ServerSteps ==
  ASSUME Typed, Typed', Order, \A t \in Nat : Backed(t), FailuresHaveCause, [Next]_vars,
         NEW a \in Agent, RefreshServer(a) \/ RefreshFails(a)
  PROVE  Sent' /\ Matches' /\ Booted' /\ FailuresHaveCause'
<1> USE DEF serverVars, tabVars, history
<1>0. refresh[a] \in RefreshRow /\ "provider" \in Agent
  BY DEF Typed, Agent
<1>1. PICK new :
        /\ RefreshStep(a, new) /\ refresh[a].at # "idle" /\ new.at # "idle"
        /\ new.token = refresh[a].token /\ new.mounted = refresh[a].mounted
        /\ new.at = "remove" => new.row.token = new.token
        /\ new.at = "failed" /\ new.token \in Nat =>
             HasCause(new.token) \/ new.token \in spoilt'
  <2>1. CASE ValidateToken(a)
    <3> DEFINE t == refresh[a].token
               found == IF Expired(t, RefreshLife) THEN {} ELSE RowsOf(t)
               failed == [refresh[a] EXCEPT !.at = "failed"]
    <3>1. \A r : LET next == [refresh[a] EXCEPT !.at = "remove", !.row = r]
                 IN  /\ next.at = "remove" /\ next.token = t /\ next.row = r
                     /\ next.mounted = refresh[a].mounted
      BY <1>0 DEF RefreshRow
    <3>2. failed.at = "failed" /\ failed.token = t /\ failed.mounted = refresh[a].mounted
      BY <1>0 DEF RefreshRow
    <3>3. CASE \E r \in found : RefreshStep(a, [refresh[a] EXCEPT !.at = "remove", !.row = r])
      <4>1. PICK r \in RowsOf(t) :
              RefreshStep(a, [refresh[a] EXCEPT !.at = "remove", !.row = r])
        BY <3>3
      <4>2. r.token = t /\ refresh[a].at = "validate"
        BY <2>1, <4>1 DEF RowsOf, ValidateToken
      <4> DEFINE next == [refresh[a] EXCEPT !.at = "remove", !.row = r]
      <4>3. /\ next.at = "remove" /\ next.token = t /\ next.row = r
            /\ next.mounted = refresh[a].mounted /\ RefreshStep(a, next)
        BY <3>1, <4>1
      <4> HIDE DEF next
      <4>4. QED
        BY <4>2, <4>3
    <3>4. CASE found = {} /\ RefreshStep(a, failed)
      <4>1. refresh[a].at = "validate"
        BY <2>1 DEF ValidateToken
      <4>2. t \in Nat => HasCause(t)
        <5>1. CASE Expired(t, RefreshLife)
          BY <5>1 DEF HasCause
        <5>2. CASE ~Expired(t, RefreshLife)
          BY <3>4, <4>1, <5>2, NotFoundHasCause
        <5>3. QED
          BY <5>1, <5>2
      <4> HIDE DEF failed, t
      <4>3. QED
        BY <3>2, <3>4, <4>1, <4>2 DEF t
    <3>5. QED
      BY <2>1, <3>3, <3>4 DEF ValidateToken
  <2>2. CASE RemoveToken(a) \/ AnswerRefresh(a)
    <3>1. LET next == [refresh[a] EXCEPT !.at = "generate"]
          IN  /\ next.at = "generate" /\ next.token = refresh[a].token
              /\ next.mounted = refresh[a].mounted
      BY <1>0 DEF RefreshRow
    <3>2. LET next == [refresh[a] EXCEPT !.at = "ok", !.new = now]
          IN  /\ next.at = "ok" /\ next.token = refresh[a].token
              /\ next.mounted = refresh[a].mounted
      BY <1>0 DEF RefreshRow
    <3>3. QED
      BY <2>2, <3>1, <3>2 DEF RemoveToken, AnswerRefresh
  <2>3. CASE RefreshFails(a)
    <3>1. LET next == [refresh[a] EXCEPT !.at = "failed"]
          IN  /\ next.at = "failed" /\ next.token = refresh[a].token
              /\ next.mounted = refresh[a].mounted
      BY <1>0 DEF RefreshRow
    <3>2. /\ RefreshStep(a, [refresh[a] EXCEPT !.at = "failed"])
          /\ refresh[a].at # "idle" /\ refresh[a].token \in spoilt'
      BY <2>3 DEF RefreshFails
    <3>3. QED
      BY <3>1, <3>2
  <2>4. QED
    BY <2>1, <2>2, <2>3 DEF RefreshServer
<1>2. refresh'[a] = new /\ \A b \in Agent \ {a} : refresh'[b] = refresh[b]
  BY <1>1, StepIs
<1>3. presented \subseteq presented' /\ booting' = booting
  BY HistoryGrows DEF RefreshServer, ValidateToken, RemoveToken, AnswerRefresh, RefreshFails
<1>4. <<a, new.token>> \in presented'
  BY <1>1, <1>3 DEF Order, Sent
<1>5. Sent' /\ Matches'
  BY <1>1, <1>3, <1>4, OrderKept
<1>6. Booted'
  BY <1>0, <1>1, <1>2, <1>3 DEF Order, Booted
<1>7. ASSUME NEW b \in Agent, refresh'[b].at = "failed",
             NEW t \in Nat, refresh'[b].token = t
      PROVE  HasCause(t)'
  <2>1. CASE b = a
    <3>1. HasCause(t) \/ t \in spoilt'
      BY <1>1, <1>2, <1>7, <2>1
    <3>2. HasCause(t) => HasCause(t)'
      BY CauseStays
    <3>3. t \in spoilt' => HasCause(t)'
      BY DEF HasCause
    <3>4. QED
      BY <3>1, <3>2, <3>3
  <2>2. CASE b # a
    <3>1. HasCause(t)
      BY <1>2, <1>7, <2>2 DEF FailuresHaveCause
    <3>2. QED
      BY <3>1, CauseStays
  <2>3. QED
    BY <2>1, <2>2
<1>8. QED
  BY <1>5, <1>6, <1>7 DEF FailuresHaveCause

LEMMA CauseStep ==
  ASSUME Typed, Typed', Cause, [Next]_vars
  PROVE  Cause'
<1> USE DEF Cause
<1>1. Sent' /\ Matches' /\ Booted' /\ FailuresHaveCause'
  <2>1. CASE \E a \in Agent : RefreshServer(a) \/ RefreshFails(a)
    BY <2>1, ServerSteps
  <2>2. CASE \A a \in Agent : ~RefreshServer(a) /\ ~RefreshFails(a)
    <3>1. /\ Sent' /\ Matches' /\ Booted'
          /\ \A a \in Agent : refresh'[a].at = "failed" =>
               refresh[a].at = "failed" /\ refresh'[a].token = refresh[a].token
      BY <2>2, OtherSteps
    <3>2. ASSUME NEW a \in Agent, refresh'[a].at = "failed",
                 NEW t \in Nat, refresh'[a].token = t
          PROVE  HasCause(t)'
      <4>1. HasCause(t)
        BY <3>1, <3>2 DEF FailuresHaveCause
      <4>2. QED
        BY <4>1, CauseStays
    <3>3. QED
      BY <3>1, <3>2 DEF FailuresHaveCause
  <2>3. QED
    BY <2>1, <2>2
<1>2. Order'
  <2>1. Numbered'
    BY NumberedStep DEF Order
  <2>2. QED
    BY <1>1, <2>1 DEF Order
<1>3. ASSUME NEW t \in Nat
      PROVE  Backed(t)'
  <2>1. CASE HasCause(t) \/ HasCause(t)'
    BY <2>1, CauseStays DEF Backed
  <2>2. CASE <<"tab2", t>> \in presented'
    BY <2>2 DEF Backed
  <2>3. CASE ~HasCause(t) /\ ~HasCause(t)' /\ <<"tab2", t>> \notin presented'
    <3>1. <<"tab2", t>> \notin presented
      BY <2>3, HistoryGrows
    <3>2. Covered(t)
      BY <2>3, <3>1 DEF Backed
    <3>3. Covered(t)'
      BY <2>3, <3>2, StepCovers
    <3>4. QED
      BY <3>3 DEF Backed
  <2>4. QED
    BY <2>1, <2>2, <2>3
<1>4. QED
  BY <1>1, <1>2, <1>3

LEMMA CauseHolds == Spec => [](Typed /\ Cause)
<1>1. ASSUME Init, Typed PROVE Cause
  <2>1. /\ refresh = [a \in Agent |-> IdleRefresh] /\ rows = {} /\ booting = "no"
        /\ held = None /\ stored = None /\ other = None
    BY <1>1 DEF Init
  <2>2. \A a \in Agent : refresh[a].at = "idle"
    BY <2>1 DEF IdleRefresh
  <2>3. Order /\ FailuresHaveCause
    BY <2>1, <2>2 DEF Order, Sent, Matches, Numbered, Booted, FailuresHaveCause
  <2>4. ASSUME NEW t \in Nat PROVE Backed(t)
    <3>1. Claimants(t) = {}
      BY <1>1, <2>1, <2>2, SessionAssumption, ClaimantsAre DEF Brings, Uses, Keeps
    <3>2. RowsOf(t) = {}
      BY <2>1 DEF RowsOf
    <3>3. QED
      BY <3>1, <3>2, FS_EmptySet DEF Backed, Covered
  <2>5. QED
    BY <2>3, <2>4 DEF Cause
<1>2. Typed /\ Typed' /\ Cause /\ [Next]_vars => Cause'
  BY CauseStep
<1>3. Spec => []Typed
  BY EarnedHolds, PTL
<1>4. QED
  BY <1>1, <1>2, <1>3, PTL DEF Spec

\* SignedOutForCause: the tab signs its user out only if the refresh token ran
\* out, was ended elsewhere, was lost with a request, was presented by two of
\* the agents that renew tokens without knowing of one another, or had been
\* used when the second tab put it back in the local storage.  But for these,
\* whatever pair the tab loads from the storage, and however its refresh
\* interleaves with its other requests, it finds the row it needs.
THEOREM SignOutsHaveCause == Spec => SignedOutForCause
<1> DEFINE Because ==
      thrownOut' \notin {thrownOut, None} =>
        \/ Expired(thrownOut', RefreshLife)
        \/ thrownOut' \in spoilt' \cup restored
        \/ \E a, b \in Agent \cup {"tab2"} :
             a # b /\ {<<a, thrownOut'>>, <<b, thrownOut'>>} \subseteq presented
<1>1. ASSUME Typed, Cause, [Next]_vars
      PROVE  Because
  <2> USE <1>1 DEF serverVars, tabVars, history
  <2>1. ASSUME thrownOut' \in {thrownOut, None} PROVE Because
    BY <2>1
  <2>2. ASSUME NEW a \in Agent, refresh[a].at = "failed", SignOut(refresh[a].token)
        PROVE  Because
    <3>1. thrownOut' = refresh[a].token /\ refresh[a].token \in Nat \cup {None}
      BY <2>2 DEF SignOut, Typed, RefreshRow
    <3>2. CASE refresh[a].token = None
      BY <3>1, <3>2
    <3>3. CASE refresh[a].token \in Nat
      <4>1. HasCause(refresh[a].token)
        BY <2>2, <3>3 DEF Cause, FailuresHaveCause
      <4>2. spoilt \subseteq spoilt'
        BY HistoryGrows
      <4>3. QED
        BY <3>1, <4>1, <4>2 DEF HasCause
    <3>4. QED
      BY <3>1, <3>2, <3>3
  <2>3. "interceptor" \in Agent /\ "provider" \in Agent
    BY DEF Agent
  <2> HIDE DEF Because
  <2>4. CASE RefreshDone
    BY <2>1, <2>2, <2>3, <2>4 DEF RefreshDone
  <2>5. CASE TimerDone
    BY <2>1, <2>2, <2>3, <2>5 DEF TimerDone
  <2>6. CASE BootRefreshed
    BY <2>1, <2>2, <2>3, <2>6 DEF BootRefreshed
  <2>7. CASE \E q \in Query : FetchUserFails(q)
    <3>1. thrownOut' = held /\ (held = None \/ held \in spoilt')
      BY <2>7 DEF FetchUserFails, SignOut
    <3>2. QED
      BY <3>1 DEF Because
  <2>8. CASE \E q \in Query : NoTokens(q)
    <3>1. thrownOut' = None
      BY <2>8 DEF NoTokens, SignOut
    <3>2. QED
      BY <2>1, <3>1
  <2>9. CASE \/ UNCHANGED vars \/ Tick \/ LoginElsewhere \/ EndElsewhere \/ Reload
             \/ StartTimer \/ Bootstrap
             \/ OpenOther \/ LoginOther \/ OtherFetched \/ RefreshOther \/ SignOutOther
    <3>1. thrownOut' = thrownOut
      BY <2>9 DEF vars, Tick, LoginElsewhere, EndElsewhere, Reload, StartTimer, Bootstrap,
                  OpenOther, LoginOther, OtherFetched, RefreshOther, SignOutOther, firstVars
    <3>2. QED
      BY <2>1, <3>1
  <2>10. CASE \E a \in Agent : RefreshServer(a) \/ RefreshFails(a) \/ ForgetRefresh(a)
    <3>1. thrownOut' = thrownOut
      BY <2>10 DEF RefreshServer, ValidateToken, RemoveToken, AnswerRefresh, RefreshFails,
                   ForgetRefresh
    <3>2. QED
      BY <2>1, <3>1
  <2>11. CASE \E q \in Query : \/ Login(q) \/ Respond(q) \/ WaitForRefresh(q) \/ StartRefresh(q)
                               \/ Settle(q) \/ \E kind \in {"read", "logout"} : Send(q, kind)
    <3>1. thrownOut' = thrownOut
      BY <2>11 DEF Login, Respond, Authorise, Deny, WaitForRefresh, StartRefresh, Settle, Send
    <3>2. QED
      BY <2>1, <3>1
  <2>12. QED
    BY <2>4, <2>5, <2>6, <2>7, <2>8, <2>9, <2>10, <2>11 DEF Next, HandleDenied, Finish
<1>2. QED
  BY <1>1, CauseHolds, PTL DEF Spec, SignedOutForCause

=============================================================================
