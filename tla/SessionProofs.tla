---------------------------- MODULE SessionProofs ----------------------------
(***************************************************************************)
(* Sessions are well formed, and an accepted post acts as the user its     *)
(* form was drawn for, for any tabs, users and number of logins.  The      *)
(* inductive invariant says of a form with a token that it was drawn for   *)
(* the owner of the session the token belongs to; sessions are never       *)
(* changed, so a later session that matches the token has that owner.      *)
(***************************************************************************)
EXTENDS Session, TLAPS

ExchangesALogin == \A t \in Tabs : pc[t] = "exchange" => login[t] # 0

FormOfOwner ==
  \A t \in Tabs : page[t].csrf # 0 => page[t].user = owner[page[t].csrf]

IInv == TypeOK /\ ExchangesALogin /\ FormOfOwner /\ ActsAsShown

-----------------------------------------------------------------------------
(* What readSession returns: a session that is there, or empty fields.     *)
LEMMA ReadSessionType ==
  ASSUME TypeOK, NEW s \in 0 .. Len(owner)
  PROVE  /\ ReadSession(s) \in [user : Accounts, csrf : 0 .. Len(owner)]
         /\ ReadSession(s).csrf # 0 => /\ ReadSession(s).user = owner[ReadSession(s).csrf]
                                       /\ ReadSession(s).user # NoUser
<1>1. CASE Valid(s)
  <2>1. s \in 1 .. Len(owner) /\ owner[s] \in Users
    BY <1>1 DEF Valid, TypeOK
  <2> QED BY <1>1, <2>1, NoUserAssumption DEF ReadSession, Accounts
<1>2. CASE ~Valid(s)
  BY <1>2 DEF ReadSession, NoForm, Accounts, TypeOK
<1> QED BY <1>1, <1>2

(* Making a session leaves the owners of the former ones alone.            *)
LEMMA AppendKeeps ==
  ASSUME NEW q \in Seq(Users), NEW u \in Users
  PROVE  /\ Append(q, u) \in Seq(Users)
         /\ Len(Append(q, u)) = Len(q) + 1
         /\ \A s \in 1 .. Len(q) : Append(q, u)[s] = q[s]
OBVIOUS

-----------------------------------------------------------------------------
(* The browser's and the server's actions keep the invariant.              *)
LEMMA StepKeepsIInv == IInv /\ [Next]_vars => IInv'
<1> SUFFICES ASSUME IInv, [Next]_vars PROVE IInv'
  OBVIOUS
<1> USE MaxLoginsAssumption
<1> USE DEF IInv, ExchangesALogin, FormOfOwner, ActsAsShown, Moves, browser, logins, Phases, Logins
<1>1. ASSUME NEW t \in Tabs, Login(t) PROVE IInv'
  BY <1>1 DEF Login, TypeOK
<1>2. ASSUME NEW t \in Tabs, NEW a \in Accounts, Approve(t, a) PROVE IInv'
  <2>1. code' \in [Logins -> [given : BOOLEAN, user : Accounts]]
    BY <1>2 DEF Approve, TypeOK
  <2> QED BY <1>2, <2>1 DEF Approve, TypeOK
<1>3. ASSUME NEW t \in Tabs, Deny(t) PROVE IInv'
  BY <1>3 DEF Deny, TypeOK
<1>4. ASSUME NEW t \in Tabs, Reload(t) PROVE IInv'
  BY <1>4 DEF Reload, TypeOK
<1>5. ASSUME NEW t \in Tabs, Callback(t) PROVE IInv'
  BY <1>5 DEF Callback, CallbackOK, TypeOK
<1>6. ASSUME NEW t \in Tabs, Exchanged(t) PROVE IInv'
  <2> DEFINE user == code[login[t]].user
  <2>1. login[t] \in Logins /\ user \in Users
    BY <1>6 DEF Exchanged, TypeOK, Accounts
  <2>2. /\ owner' \in Seq(Users) /\ Len(owner') = Len(owner) + 1
        /\ \A s \in 1 .. Len(owner) : owner'[s] = owner[s]
    <3>1. owner \in Seq(Users) /\ owner' = Append(owner, user)
      BY <1>6 DEF Exchanged, TypeOK
    <3> HIDE DEF user
    <3> QED BY <2>1, <3>1, AppendKeeps
  <2>3. TypeOK'
    <3>1. Len(owner) \in Nat
      BY DEF TypeOK
    <3>2. page' \in [Tabs -> [user : Accounts, csrf : 0 .. Len(owner')]]
      BY <1>6, <2>2, <3>1 DEF Exchanged, TypeOK
    <3>3. cookie' \in [Tabs -> 0 .. Len(owner')]
      BY <1>6, <2>2, <3>1 DEF Exchanged, TypeOK
    <3>4. dead' \in 0 .. Len(owner') /\ jar' \in 0 .. Len(owner')
      BY <1>6, <2>2, <3>1 DEF Exchanged, TypeOK
    <3> QED BY <1>6, <2>1, <2>2, <3>2, <3>3, <3>4 DEF Exchanged, TypeOK
  <2>4. FormOfOwner'
    BY <1>6, <2>2 DEF Exchanged, TypeOK
  <2> QED BY <1>6, <2>3, <2>4 DEF Exchanged, TypeOK
<1>7. ASSUME NEW t \in Tabs, ExchangeFails(t) PROVE IInv'
  BY <1>7 DEF ExchangeFails, TypeOK
<1>8. ASSUME NEW t \in Tabs, Welcome(t) PROVE IInv'
  BY <1>8 DEF Welcome, TypeOK
<1>9. ASSUME NEW t \in Tabs, Lost(t) PROVE IInv'
  BY <1>9 DEF Lost, TypeOK
<1>10. ASSUME NEW t \in Tabs, Logout(t) PROVE IInv'
  BY <1>10 DEF Logout, TypeOK
<1>11. ASSUME NEW t \in Tabs, Open(t) \/ Submit(t) PROVE IInv'
  <2>1. CASE Open(t)
    BY <2>1 DEF Open, TypeOK
  <2>2. CASE Submit(t)
    BY <2>2 DEF Submit, TypeOK
  <2> QED BY <1>11, <2>1, <2>2
<1>12. ASSUME NEW t \in Tabs, RequireAuth(t, "get", "render") PROVE IInv'
  BY <1>12 DEF RequireAuth, TypeOK
<1>13. ASSUME NEW t \in Tabs, RequireAuth(t, "post", "act") PROVE IInv'
  BY <1>13 DEF RequireAuth, TypeOK
<1>14. ASSUME NEW t \in Tabs, Render(t) PROVE IInv'
  <2> DEFINE sess == ReadSession(cookie[t])
  <2>1. /\ sess \in [user : Accounts, csrf : 0 .. Len(owner)]
        /\ sess.csrf # 0 => sess.user = owner[sess.csrf]
    BY ReadSessionType DEF TypeOK
  <2>2. page' = [page EXCEPT ![t] = sess]
    BY <1>14 DEF Render
  <2> HIDE DEF sess
  <2>3. FormOfOwner'
    BY <1>14, <2>1, <2>2 DEF Render, TypeOK
  <2> QED BY <1>14, <2>1, <2>2, <2>3 DEF Render, TypeOK
<1>15. ASSUME NEW t \in Tabs, Act(t) PROVE IInv'
  <2> DEFINE sess == ReadSession(cookie[t])
             act == [user |-> sess.user, form |-> page[t].user]
  <2>1. /\ sess \in [user : Accounts, csrf : 0 .. Len(owner)]
        /\ sess.csrf # 0 => sess.user = owner[sess.csrf] /\ sess.user # NoUser
    BY ReadSessionType DEF TypeOK
  <2>2. acts' = IF VerifyCSRF(page[t].csrf, sess) THEN acts \cup {act} ELSE acts
    BY <1>15 DEF Act
  <2> HIDE DEF sess
  <2>3. act \in [user : Accounts, form : Accounts]
    BY <2>1 DEF TypeOK
  <2>4. VerifyCSRF(page[t].csrf, sess) => act.user = act.form /\ act.user # NoUser
    BY <2>1 DEF VerifyCSRF, TypeOK
  <2> HIDE DEF act
  <2>5. ActsAsShown' /\ acts' \in SUBSET [user : Accounts, form : Accounts]
    BY <2>2, <2>3, <2>4 DEF TypeOK
  <2> QED BY <1>15, <2>5 DEF Act, TypeOK
<1>16. CASE Expire
  BY <1>16 DEF Expire, TypeOK
<1>17. CASE StateGone
  BY <1>17 DEF StateGone, TypeOK
<1>18. ASSUME NEW newKey \in BOOLEAN, Restart(newKey) PROVE IInv'
  BY <1>18 DEF Restart, TypeOK
<1>19. CASE UNCHANGED vars
  BY <1>19 DEF vars, TypeOK
<1> QED
  BY <1>1, <1>2, <1>3, <1>4, <1>5, <1>6, <1>7, <1>8, <1>9, <1>10, <1>11, <1>12, <1>13,
     <1>14, <1>15, <1>16, <1>17, <1>18, <1>19 DEF Next

LEMMA InitHasIInv == Init => IInv
  BY MaxLoginsAssumption DEF Init, IInv, TypeOK, ExchangesALogin, FormOfOwner, ActsAsShown,
     NoForm, NoCode, Accounts, Phases, Logins

(* The session state is always well formed.                                *)
THEOREM SessionTypeCorrect == Spec => []TypeOK
<1>1. IInv => TypeOK BY DEF IInv
<1> QED BY <1>1, InitHasIInv, StepKeepsIInv, PTL DEF Spec

(* An accepted post acts as a named user, the one its form was drawn for,  *)
(* whatever other tabs, expiry and restarts do between the form and the    *)
(* post (requireAuth, readSession, verifyCSRF).                            *)
THEOREM SessionActsAsShown == Spec => []ActsAsShown
<1>1. IInv => ActsAsShown BY DEF IInv
<1> QED BY <1>1, InitHasIInv, StepKeepsIInv, PTL DEF Spec
=============================================================================
