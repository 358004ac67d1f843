--------------------------- MODULE SessionsProofs ---------------------------
(***************************************************************************)
(* Theorems about Sessions for every number of browsers, requests, links   *)
(* and password changes.                                                   *)
(***************************************************************************)
EXTENDS Sessions, TLAPS

USE DEF vars, Hashes

-----------------------------------------------------------------------------
(* Every variable of the account keeps its type.                           *)
THEOREM SessionsTypeCorrect == Spec => []TypeOK
<1>1. Init => TypeOK
  BY ChangesAssumption DEF Init, TypeOK, Request, Blank, Submitted
<1>2. TypeOK /\ [Next]_vars => TypeOK'
  <2> SUFFICES ASSUME TypeOK, [Next]_vars
               PROVE  TypeOK'
    OBVIOUS
  <2> USE DEF TypeOK, Goto
  <2>1. CASE UNCHANGED vars
    BY <2>1
  <2>2. ASSUME NEW b \in Browsers, Visit(b) \/ Logout(b)
        PROVE  TypeOK'
    BY <2>2 DEF Visit, Logout
  <2>3. ASSUME NEW l \in Links, AccountRecovery(l) \/ ExpireLink(l)
        PROVE  TypeOK'
    BY <2>3 DEF AccountRecovery, ExpireLink
  <2>4. CASE DeactivateUser
    BY <2>4 DEF DeactivateUser
  <2>5. ASSUME NEW r \in Requests, NEW b \in Browsers, NEW p \in Hashes,
               Login(r, b, p) \/ StartChange(r, b, p)
        PROVE  TypeOK'
    <3>1. 0 \in Hashes
      BY ChangesAssumption
    <3>2. PICK kind \in {"login", "change"}, h \in Hashes, to \in {"verify", "form"} :
            /\ req' = [req EXCEPT ![r] = Submitted(kind, b, p, h, Nobody)]
            /\ pc' = [pc EXCEPT ![r] = to]
            /\ UNCHANGED <<hash, active, cookie, link, expired, proven>>
      BY <2>5, <3>1 DEF Login, StartChange
    <3>3. Submitted(kind, b, p, h, Nobody) \in Request
      BY <3>2 DEF Submitted, Request
    <3>4. Submitted(kind, b, p, h, Nobody).kind # "reset"
            /\ Submitted(kind, b, p, h, Nobody).browser = b
      BY <3>2 DEF Submitted
    <3> QED
      BY <3>2, <3>3, <3>4
  <2>6. ASSUME NEW r \in Requests, NEW b \in Browsers, NEW l \in Links, StartReset(r, b, l)
        PROVE  TypeOK'
    BY <2>6, ChangesAssumption DEF StartReset, Request, Submitted
  <2>7. ASSUME NEW r \in Requests, LoginOk(r)
        PROVE  TypeOK'
    BY <2>7 DEF LoginOk, Request
  <2>8. ASSUME NEW r \in Requests, ReadHash(r)
        PROVE  TypeOK'
    BY <2>8 DEF ReadHash, Request
  <2>9. ASSUME NEW r \in Requests, CurrentOk(r) \/ WrongPassword(r) \/ PolicyRefuses(r)
        PROVE  TypeOK'
    BY <2>9 DEF CurrentOk, WrongPassword, PolicyRefuses
  <2>10. ASSUME NEW r \in Requests, StoreChange(r)
         PROVE  TypeOK'
    BY <2>10, ChangesAssumption DEF StoreChange
  <2>11. ASSUME NEW r \in Requests, StoreReset(r)
         PROVE  TypeOK'
    BY <2>11, ChangesAssumption DEF StoreReset
  <2> QED
    BY <2>1, <2>2, <2>3, <2>4, <2>5, <2>6, <2>7, <2>8, <2>9, <2>10, <2>11 DEF Next, Handle
<1> QED
  BY <1>1, <1>2, PTL DEF Spec

-----------------------------------------------------------------------------
(* A session is bound to a hash whose password was typed in its browser.   *)
CookiesProved == \A b \in Browsers : cookie[b] # Nobody => cookie[b] \in proven[b]

(* No session, no link, and no request that could open a session, is ahead *)
(* of the account: the next hash to be stored is one none of them holds.   *)
CookiesKnown ==
  /\ \A b \in Browsers : cookie[b] # Nobody => cookie[b] <= hash
  /\ \A l \in Links : link[l] # Nobody => link[l] <= hash
  /\ \A r \in Requests : req[r].read <= hash

LEMMA CookiesTied == Spec => [](CookiesProved /\ CookiesKnown)
<1> DEFINE Inv == CookiesProved /\ CookiesKnown
<1>1. Init => Inv
  BY NobodyAssumption, ChangesAssumption DEF Init, CookiesProved, CookiesKnown, Blank, Submitted
<1>2. TypeOK /\ Inv /\ [Next]_vars => Inv'
  <2> SUFFICES ASSUME TypeOK, Inv, [Next]_vars
               PROVE  Inv'
    OBVIOUS
  <2> USE DEF TypeOK, CookiesProved, CookiesKnown, Goto
  <2> USE NobodyAssumption, ChangesAssumption
  <2>1. CASE UNCHANGED vars
    BY <2>1
  <2>2. ASSUME NEW b \in Browsers, Visit(b) \/ Logout(b)
        PROVE  Inv'
    BY <2>2 DEF Visit, Logout
  <2>3. ASSUME NEW l \in Links, AccountRecovery(l) \/ ExpireLink(l)
        PROVE  Inv'
    BY <2>3 DEF AccountRecovery, ExpireLink
  <2>4. CASE DeactivateUser
    BY <2>4 DEF DeactivateUser
  <2>5. ASSUME NEW r \in Requests, NEW b \in Browsers, NEW p \in Hashes,
               Login(r, b, p) \/ StartChange(r, b, p)
        PROVE  Inv'
    BY <2>5, ChangesAssumption DEF Login, StartChange, Request, Submitted
  <2>6. ASSUME NEW r \in Requests, NEW b \in Browsers, NEW l \in Links, StartReset(r, b, l)
        PROVE  Inv'
    BY <2>6 DEF StartReset, Request, Submitted
  <2>7. ASSUME NEW r \in Requests, LoginOk(r)
        PROVE  Inv'
    BY <2>7 DEF LoginOk, Request
  <2>8. ASSUME NEW r \in Requests, ReadHash(r)
        PROVE  Inv'
    BY <2>8 DEF ReadHash, Request
  <2>9. ASSUME NEW r \in Requests, CurrentOk(r) \/ WrongPassword(r) \/ PolicyRefuses(r)
        PROVE  Inv'
    BY <2>9 DEF CurrentOk, WrongPassword, PolicyRefuses
  <2>10. ASSUME NEW r \in Requests, StoreChange(r)
         PROVE  Inv'
    BY <2>10 DEF StoreChange, Request
  <2>11. ASSUME NEW r \in Requests, StoreReset(r)
         PROVE  Inv'
    BY <2>11 DEF StoreReset, Request
  <2> QED
    BY <2>1, <2>2, <2>3, <2>4, <2>5, <2>6, <2>7, <2>8, <2>9, <2>10, <2>11 DEF Next, Handle
<1> QED
  BY <1>1, <1>2, SessionsTypeCorrect, PTL DEF Spec

(* Whatever is stored while bcrypt compares, a valid session is one in     *)
(* whose browser the account's current password was typed.                 *)
THEOREM SessionsAreProved == Spec => []SessionProved
<1>1. TypeOK /\ CookiesProved => SessionProved
  BY NobodyAssumption, ChangesAssumption DEF TypeOK, CookiesProved, SessionProved, SessionValid
<1> QED
  BY <1>1, SessionsTypeCorrect, CookiesTied, PTL

(* Only the two forms store a password.                                    *)
LEMMA StoresByForms ==
  ASSUME Next, hash' # hash
  PROVE  \E r \in Requests : StoreChange(r) \/ StoreReset(r)
<1>1. PICK r \in Requests : Handle(r)
  BY DEF Next, Visit, Logout, AccountRecovery, ExpireLink, DeactivateUser
<1>2. \A c \in Browsers, p \in Hashes : ~Login(r, c, p) /\ ~StartChange(r, c, p)
  BY DEF Login, StartChange
<1>3. \A c \in Browsers, l \in Links : ~StartReset(r, c, l)
  BY DEF StartReset
<1>4. ~LoginOk(r) /\ ~ReadHash(r) /\ ~CurrentOk(r) /\ ~WrongPassword(r) /\ ~PolicyRefuses(r)
  BY DEF LoginOk, ReadHash, CurrentOk, WrongPassword, PolicyRefuses
<1> QED
  BY <1>1, <1>2, <1>3, <1>4 DEF Handle

(* Storing a password signs every other browser out.                       *)
THEOREM ChangesSignOthersOut == Spec => OthersSignedOut
<1>1. TypeOK /\ CookiesKnown /\ [Next]_vars =>
        [hash' # hash =>
           \A b \in Browsers : SessionValid(b)' =>
             \E r \in Requests : pc[r] # pc'[r] /\ req[r].kind = "change" /\ req[r].browser = b]_vars
  <2> SUFFICES ASSUME TypeOK, CookiesKnown, Next, hash' # hash,
                      NEW b \in Browsers, SessionValid(b)'
               PROVE  \E r \in Requests : pc[r] # pc'[r] /\ req[r].kind = "change"
                                                         /\ req[r].browser = b
    OBVIOUS
  <2>1. PICK r \in Requests : StoreChange(r) \/ StoreReset(r)
    BY StoresByForms
  <2>2. hash' = hash + 1 /\ cookie'[b] = hash' /\ hash \in Nat
    <3>1. cookie'[b] = hash'
      BY DEF SessionValid
    <3>2. hash' = hash + 1
      BY <2>1 DEF StoreChange, StoreReset
    <3>3. hash \in Nat
      BY ChangesAssumption DEF TypeOK
    <3> QED
      BY <3>1, <3>2, <3>3
  <2>3. cookie[b] # hash + 1
    BY <2>2, NobodyAssumption DEF TypeOK, CookiesKnown
  <2>4. pc[r] = "policy" /\ pc'[r] = "done" /\ req[r].browser \in Browsers
    BY <2>1 DEF StoreChange, StoreReset, Goto, TypeOK
  <2>5. StoreChange(r) /\ req[r].browser = b
    BY <2>1, <2>2, <2>3, <2>4, NobodyAssumption DEF StoreChange, StoreReset, TypeOK
  <2> QED
    BY <2>4, <2>5 DEF StoreChange
<1> QED
  BY <1>1, SessionsTypeCorrect, CookiesTied, PTL DEF Spec, OthersSignedOut

(* Storing a password kills every reset link mailed before.                *)
THEOREM ChangesKillLinks == Spec => LinksDie
<1>1. TypeOK /\ CookiesKnown /\ [Next]_vars =>
        [hash' # hash => \A l \in Links : ~LinkValid(l)']_vars
  <2> SUFFICES ASSUME TypeOK, CookiesKnown, Next, hash' # hash, NEW l \in Links
               PROVE  link'[l] # hash'
    BY DEF LinkValid
  <2>1. PICK r \in Requests : StoreChange(r) \/ StoreReset(r)
    BY StoresByForms
  <2>2. hash' = hash + 1 /\ link' = link
    BY <2>1 DEF StoreChange, StoreReset
  <2>3. hash \in Nat
    BY ChangesAssumption DEF TypeOK
  <2>4. link[l] # hash + 1
    BY <2>3, NobodyAssumption DEF TypeOK, CookiesKnown
  <2> QED
    BY <2>2, <2>4
<1> QED
  BY <1>1, SessionsTypeCorrect, CookiesTied, PTL DEF Spec, LinksDie
=============================================================================
