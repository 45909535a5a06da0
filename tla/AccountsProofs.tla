--------------------------- MODULE AccountsProofs ---------------------------
(***************************************************************************)
(* Machine-checked proofs about Accounts, for any number of requests, any  *)
(* clock and any leeway of at least a second.                              *)
(***************************************************************************)
EXTENDS Accounts, FiniteSetTheorems, TLAPS

(* iat lies less than a second before the time it is taken.                *)
LEMMA IatIsRecent ==
  ASSUME now \in Nat
  PROVE  Iat \in Nat /\ Iat <= now /\ Iat >= now - Leeway
<1>1. Second \in Nat \ {0} /\ Leeway \in Nat /\ Leeway >= Second
  BY AccountsAssumption
<1>2. now % Second \in 0..(Second - 1) /\ now % Second <= now
  BY <1>1
<1>3. QED
  BY <1>1, <1>2 DEF Iat

(* Spending one link, or all of them, leaves a sequence of links.          *)
LEMMA SpentLinksAreLinks ==
  ASSUME NEW l \in Seq(Link), NEW k
  PROVE  /\ [j \in DOMAIN l |-> [l[j] EXCEPT !.used = TRUE]] \in Seq(Link)
         /\ [l EXCEPT ![k].used = TRUE] \in Seq(Link)
<1>1. DOMAIN l = 1..Len(l) /\ Len(l) \in Nat /\ \A j \in DOMAIN l : l[j] \in Link
  OBVIOUS
<1>2. \A x \in Link : [x EXCEPT !.used = TRUE] \in Link
  BY DEF Link
<1>3. [j \in DOMAIN l |-> [l[j] EXCEPT !.used = TRUE]] \in [1..Len(l) -> Link]
  <2>1. \A j \in DOMAIN l : [l[j] EXCEPT !.used = TRUE] \in Link
    BY <1>1, <1>2
  <2>2. QED
    BY <1>1, <2>1
<1>4. [l EXCEPT ![k].used = TRUE] \in [1..Len(l) -> Link]
  BY <1>1, <1>2
<1>5. QED
  BY <1>1, <1>3, <1>4

(* A request whose step, stamp, count or list changes is still a request.  *)
LEMMA RequestUpdates ==
  ASSUME NEW q \in Request, NEW s \in Steps, NEW n \in Nat, NEW list \in SUBSET Nat
  PROVE  /\ [q EXCEPT !.pc = s] \in Request
         /\ [q EXCEPT !.pc = s, !.stamp = n] \in Request
         /\ [q EXCEPT !.pc = s, !.saved = n] \in Request
         /\ [q EXCEPT !.pc = s, !.wrote = n] \in Request
         /\ [q EXCEPT !.pc = s, !.list = list] \in Request
         /\ [q EXCEPT !.list = list] \in Request
BY DEF Request

(* Goto moves one request and leaves its other fields.                     *)
LEMMA GotoMovesOne ==
  ASSUME Typed, NEW c \in Requests, NEW s \in Steps, Goto(c, s)
  PROVE  /\ req' \in [Requests -> Request]
         /\ req'[c].pc = s
         /\ req'[c].seen = req[c].seen /\ req'[c].token = req[c].token
         /\ req'[c].stamp = req[c].stamp /\ req'[c].list = req[c].list
         /\ req'[c].saved = req[c].saved /\ req'[c].wrote = req[c].wrote
         /\ req'[c].stamped = req[c].stamped
         /\ \A d \in Requests \ {c} : req'[d] = req[d]
<1>1. req' = [req EXCEPT ![c] = [req[c] EXCEPT !.pc = s]] /\ req[c] \in Request
  BY DEF Goto, Typed
<1>2. [req[c] EXCEPT !.pc = s] \in Request
  BY <1>1, RequestUpdates
<1>3. QED
  BY <1>1, <1>2 DEF Typed, Request

(* Starting one with a request leaves the requests well typed.             *)
LEMMA StartKeepsRequests ==
  ASSUME Typed, NEW c \in Requests, NEW state \in Request, Start(c, state)
  PROVE  req' \in [Requests -> Request]
BY DEF Start, Typed

(* The states that requests are started with.                              *)
LEMMA IdleStates ==
  ASSUME NEW s \in Steps, NEW m \in Nat, NEW n \in Nat, NEW p \in Nat
  PROVE  /\ [Idle EXCEPT !.pc = s] \in Request
         /\ [Idle EXCEPT !.pc = s, !.seen = n] \in Request
         /\ [Idle EXCEPT !.pc = s, !.token = n] \in Request
         /\ [Idle EXCEPT !.pc = s, !.token = m, !.seen = n] \in Request
         /\ [Idle EXCEPT !.pc = s, !.seen = m, !.stamp = n, !.stamped = p] \in Request
BY DEF Idle, Request

(* The state stays well typed.                                             *)
LEMMA TypedStep ==
  ASSUME Typed, ReadsArePast, StampsAreTaken, [Next]_vars
  PROVE  Typed'
<1>1. CASE Tick
  BY <1>1 DEF Tick, Typed, user, tokens
<1>2. ASSUME NEW c \in Requests, RegisterProbe(c) PROVE Typed'
  <2>1. req' \in [Requests -> Request]
    BY <1>2, IdleStates, StartKeepsRequests DEF RegisterProbe, Steps
  <2>2. QED
    BY <1>2, <2>1 DEF RegisterProbe, Typed, user, tokens
<1>3. ASSUME NEW c \in Requests, RegisterInsert(c) PROVE Typed'
  <2>1. req' \in [Requests -> Request]
    BY <1>3, GotoMovesOne DEF RegisterInsert, Steps
  <2>2. CASE registered
    BY <1>3, <2>1, <2>2 DEF RegisterInsert, Typed, user, tokens
  <2>3. CASE ~registered
    <3>1. /\ registered' = TRUE /\ changedAt' = now /\ now' = now
          /\ <<epoch, password, stamped>>' = <<epoch, password, stamped>>
      BY <1>3, <2>3 DEF RegisterInsert
    <3>2. QED
      BY <1>3, <2>1, <3>1 DEF RegisterInsert, Typed, tokens
  <2>4. QED
    BY <2>2, <2>3
<1>4. ASSUME NEW c \in Requests, LoginVerify(c) PROVE Typed'
  <2>1. /\ [Idle EXCEPT !.pc = "verified", !.seen = password] \in Request
        /\ [Idle EXCEPT !.pc = "rehashing"] \in Request
        /\ [Idle EXCEPT !.pc = "refused"] \in Request
    <3>1. password \in Nat /\ {"verified", "rehashing", "refused"} \subseteq Steps
      BY DEF Typed, Steps
    <3>2. QED
      BY <3>1, IdleStates
  <2>2. req' \in [Requests -> Request]
    BY <1>4, <2>1, StartKeepsRequests DEF LoginVerify
  <2>3. QED
    BY <1>4, <2>2 DEF LoginVerify, Typed, user, tokens
<1>4a. ASSUME NEW c \in Requests, LoginRehash(c) PROVE Typed'
  <2>1. [req[c] EXCEPT !.pc = "verified", !.wrote = epoch] \in Request
    BY RequestUpdates DEF Typed, Steps
  <2>2. req' = [req EXCEPT ![c] = [req[c] EXCEPT !.pc = "verified", !.wrote = epoch]]
    BY <1>4a DEF LoginRehash, Typed
  <2>3. req' \in [Requests -> Request]
    BY <2>1, <2>2 DEF Typed
  <2>4. req[c].seen \in 0..epoch
    BY <1>4a DEF LoginRehash, ReadsArePast, Typed, Request
  <2>5. QED
    BY <1>4a, <2>3, <2>4 DEF LoginRehash, Typed, tokens
<1>5. ASSUME NEW c \in Requests, IssueTokens(c) PROVE Typed'
  <2>1. Token(Iat, req[c].seen) \in Minted
    BY IatIsRecent DEF Typed, Token, Minted, Request
  <2>2. req' \in [Requests -> Request]
    BY <1>5, GotoMovesOne DEF IssueTokens, Steps
  <2>3. refresh' \in Seq(Minted) /\ access' \subseteq Minted
    BY <1>5, <2>1 DEF IssueTokens, Typed
  <2>4. QED
    BY <1>5, <2>2, <2>3 DEF IssueTokens, Typed, user
<1>6. ASSUME NEW c \in Requests, NEW r \in DOMAIN refresh, RefreshVerify(c, r) PROVE Typed'
  <2>1. r \in Nat
    BY DEF Typed
  <2>2. [Idle EXCEPT !.pc = "refused"] \in Request
        /\ [Idle EXCEPT !.pc = "rotating", !.token = r] \in Request
    BY <2>1, IdleStates DEF Steps
  <2>3. req' \in [Requests -> Request]
    BY <1>6, <2>2, StartKeepsRequests DEF RefreshVerify
  <2>4. QED
    BY <1>6, <2>3 DEF RefreshVerify, Typed, user, tokens
<1>7. ASSUME NEW c \in Requests, RefreshRotate(c) PROVE Typed'
  <2> DEFINE old == refresh[req[c].token]
  <2>1. old \in Minted
    BY <1>7 DEF ReadsArePast, RefreshRotate, Typed
  <2>2. Token(Iat, old.authority) \in Minted /\ Token(old.iat, old.authority) \in Minted
    BY <2>1, IatIsRecent DEF Typed, Token, Minted
  <2>3. refresh' \in Seq(Minted) /\ access' \subseteq Minted
    BY <1>7, <2>2 DEF RefreshRotate, Typed
  <2>4. req' \in [Requests -> Request]
    BY <1>7, GotoMovesOne DEF RefreshRotate, Steps
  <2>5. req[c].token \in Nat
    BY DEF Typed, Request
  <2>6. QED
    BY <1>7, <2>3, <2>4, <2>5 DEF RefreshRotate, Typed, user
<1>8. ASSUME NEW c \in Requests, NEW r \in DOMAIN refresh, Logout(c, r) PROVE Typed'
  <2>1. r \in Nat
    BY DEF Typed
  <2>2. [Idle EXCEPT !.pc = "over"] \in Request
    BY IdleStates DEF Steps
  <2>3. req' \in [Requests -> Request]
    BY <1>8, <2>2, StartKeepsRequests DEF Logout
  <2>4. QED
    BY <1>8, <2>1, <2>3 DEF Logout, Typed, user
<1>9. ASSUME NEW c \in Requests, ResetClear(c) PROVE Typed'
  <2>1. links' \in Seq(Link)
    BY <1>9, SpentLinksAreLinks DEF ResetClear, Typed
  <2>2. [Idle EXCEPT !.pc = "cleared", !.seen = Len(links)] \in Request
    <3>1. Len(links) \in Nat
      BY DEF Typed
    <3>2. QED
      BY <3>1, IdleStates DEF Steps
  <2>3. req' \in [Requests -> Request]
    BY <1>9, <2>2, StartKeepsRequests DEF ResetClear
  <2>4. QED
    BY <1>9, <2>1, <2>3 DEF ResetClear, Typed, user, tokens
<1>10. ASSUME NEW c \in Requests, ResetIssue(c) PROVE Typed'
  <2>1. [used |-> FALSE, expires |-> now + LinkLife, after |-> req[c].seen] \in Link
    <3>1. req[c] \in Request
      BY DEF Typed
    <3>2. req[c].seen \in Nat
      BY <3>1 DEF Request
    <3>3. now \in Nat /\ LinkLife \in Nat
      BY AccountsAssumption DEF Typed
    <3>4. QED
      BY <3>2, <3>3 DEF Link
  <2>2. links' \in Seq(Link)
    BY <1>10, <2>1 DEF ResetIssue, Typed
  <2>3. req' \in [Requests -> Request]
    BY <1>10, GotoMovesOne DEF ResetIssue, Steps
  <2>4. QED
    BY <1>10, <2>2, <2>3 DEF ResetIssue, Typed, user, tokens
<1>11. ASSUME NEW c \in Requests, NEW k \in DOMAIN links, ConfirmRead(c, k) PROVE Typed'
  <2>1. k \in Nat /\ Len(links) \in Nat
    BY DEF Typed
  <2>2. [Idle EXCEPT !.pc = "refused"] \in Request
        /\ [Idle EXCEPT !.pc = "valid", !.token = k, !.seen = Len(links)] \in Request
    BY <2>1, IdleStates DEF Steps
  <2>3. req' \in [Requests -> Request]
    BY <1>11, <2>2, StartKeepsRequests DEF ConfirmRead
  <2>4. QED
    BY <1>11, <2>3 DEF ConfirmRead, Typed, user, tokens
<1>12. ASSUME NEW c \in Requests, ConfirmSpend(c) PROVE Typed'
  <2>1. links' \in Seq(Link)
    BY <1>12, SpentLinksAreLinks DEF ConfirmSpend, Typed
  <2>2. req' \in [Requests -> Request]
    BY <1>12, GotoMovesOne DEF ConfirmSpend, Steps
  <2>3. QED
    BY <1>12, <2>1, <2>2 DEF ConfirmSpend, Typed, user, tokens
<1>13. ASSUME NEW c \in Requests, ConfirmStamp(c) PROVE Typed'
  <2>1. [req[c] EXCEPT !.pc = "stamped", !.stamp = now] \in Request
    BY RequestUpdates DEF Typed, Steps
  <2>2. req' = [req EXCEPT ![c] = [req[c] EXCEPT !.pc = "stamped", !.stamp = now]]
    BY <1>13 DEF ConfirmStamp, Typed
  <2>3. req' \in [Requests -> Request]
    BY <2>1, <2>2 DEF Typed
  <2>4. QED
    BY <1>13, <2>3 DEF ConfirmStamp, Typed, user, tokens
<1>14. ASSUME NEW c \in Requests, ConfirmSave(c) PROVE Typed'
  <2>1. req[c].stamp \in 0..now /\ epoch + 1 \in Nat
    BY DEF StampsAreTaken, Typed, Request
  <2>2. [req[c] EXCEPT !.pc = "saved", !.saved = epoch + 1] \in Request
    BY <2>1, RequestUpdates DEF Typed, Steps
  <2>3. req' = [req EXCEPT ![c] = [req[c] EXCEPT !.pc = "saved", !.saved = epoch + 1]]
    BY <1>14 DEF ConfirmSave, Typed
  <2>4. req' \in [Requests -> Request]
    BY <2>2, <2>3 DEF Typed
  <2>5. QED
    BY <1>14, <2>1, <2>4 DEF ConfirmSave, Typed, tokens
<1>15. ASSUME NEW c \in Requests, RevokeList(c) PROVE Typed'
  <2>1. [req[c] EXCEPT !.pc = "revoking", !.list = DOMAIN refresh] \in Request
    <3>1. DOMAIN refresh \in SUBSET Nat
      BY DEF Typed
    <3>2. QED
      BY <3>1, RequestUpdates DEF Typed, Steps
  <2>2. req' = [req EXCEPT ![c] = [req[c] EXCEPT !.pc = "revoking", !.list = DOMAIN refresh]]
    BY <1>15 DEF RevokeList, Typed
  <2>3. req' \in [Requests -> Request]
    BY <2>1, <2>2 DEF Typed
  <2>4. QED
    BY <1>15, <2>3 DEF RevokeList, Typed, user, tokens
<1>16. ASSUME NEW c \in Requests, RevokeOne(c) PROVE Typed'
  <2>1. PICK r \in req[c].list : /\ blacklisted' = blacklisted \union {r}
                               /\ req' = [req EXCEPT ![c].list = @ \ {r}]
    BY <1>16 DEF RevokeOne
  <2>2. req[c] \in Request /\ r \in Nat /\ req[c].list \ {r} \in SUBSET Nat
    BY DEF Typed, Request
  <2>3. [req[c] EXCEPT !.list = req[c].list \ {r}] \in Request
    BY <2>2 DEF Request
  <2>4. req' = [req EXCEPT ![c] = [req[c] EXCEPT !.list = req[c].list \ {r}]]
    BY <2>1 DEF Typed
  <2>5. req' \in [Requests -> Request]
    BY <2>3, <2>4 DEF Typed
  <2>6. QED
    BY <1>16, <2>1, <2>2, <2>5 DEF RevokeOne, Typed, user
<1>17. ASSUME NEW c \in Requests, ConfirmEnd(c) PROVE Typed'
  <2>1. req' \in [Requests -> Request]
    BY <1>17, GotoMovesOne DEF ConfirmEnd, Steps
  <2>2. QED
    BY <1>17, <2>1 DEF ConfirmEnd, Typed, user, tokens
<1>17a. ASSUME NEW c \in Requests, ProfileRead(c) PROVE Typed'
  <2>1. [Idle EXCEPT !.pc = "profiling", !.seen = password,
                     !.stamp = changedAt, !.stamped = stamped] \in Request
    <3>1. {password, changedAt, stamped} \subseteq Nat
      BY DEF Typed
    <3>2. QED
      BY <3>1, IdleStates DEF Steps
  <2>2. req' \in [Requests -> Request]
    BY <1>17a, <2>1, StartKeepsRequests DEF ProfileRead
  <2>3. QED
    BY <1>17a, <2>2 DEF ProfileRead, Typed, user, tokens
<1>17b. ASSUME NEW c \in Requests, ProfileSave(c) PROVE Typed'
  <2>1. [req[c] EXCEPT !.pc = "profiled", !.wrote = epoch] \in Request
    BY RequestUpdates DEF Typed, Steps
  <2>2. req' = [req EXCEPT ![c] = [req[c] EXCEPT !.pc = "profiled", !.wrote = epoch]]
    BY <1>17b DEF ProfileSave, Typed
  <2>3. req' \in [Requests -> Request]
    BY <2>1, <2>2 DEF Typed
  <2>4. req[c].seen \in 0..epoch /\ req[c].stamped \in 0..epoch /\ req[c].stamp \in 0..now
    BY <1>17b DEF ProfileSave, ReadsArePast, StampsAreTaken, Typed, Request
  <2>5. QED
    BY <1>17b, <2>3, <2>4 DEF ProfileSave, Typed, tokens
<1>18. ASSUME NEW c \in Requests, BreakOff(c) PROVE Typed'
  <2>1. req' \in [Requests -> Request]
    BY <1>18, GotoMovesOne DEF BreakOff, Steps
  <2>2. QED
    BY <1>18, <2>1 DEF BreakOff, Typed, user, tokens
<1>19. CASE UNCHANGED vars
  BY <1>19 DEF vars, user, tokens, Typed
<1>20. QED
  BY <1>1, <1>2, <1>3, <1>4, <1>4a, <1>5, <1>6, <1>7, <1>8, <1>9, <1>10, <1>11, <1>12, <1>13,
     <1>14, <1>15, <1>16, <1>17, <1>17a, <1>17b, <1>18, <1>19 DEF Next, Confirm

(* What the actions that start a request have in common.                   *)
Starting(c) ==
  \/ RegisterProbe(c) \/ LoginVerify(c) \/ ResetClear(c) \/ ProfileRead(c)
  \/ \E r \in DOMAIN refresh : RefreshVerify(c, r) \/ Logout(c, r)
  \/ \E k \in DOMAIN links : ConfirmRead(c, k)

(* A started request has saved and written nothing, has read nothing but   *)
(* what is there, and nobody else has moved.                               *)
FreshStart(c) ==
  /\ req[c].pc = "idle"
  /\ req'[c].pc \in {"probed", "rehashing", "verified", "rotating", "over", "cleared", "valid",
                     "profiling", "refused"}
  /\ req'[c].saved = 0 /\ req'[c].wrote = 0
  /\ req'[c].stamp \in {0, changedAt} /\ req'[c].stamped \in {0, stamped}
  /\ req'[c].pc = "profiling" => req'[c].stamp = changedAt /\ req'[c].stamped = stamped
  /\ req'[c].pc \in {"probed", "rehashing", "verified", "profiling"} => req'[c].seen <= epoch
  /\ req'[c].pc = "rotating" => req'[c].token \in DOMAIN refresh
  /\ \A d \in Requests \ {c} : req'[d] = req[d]
  /\ <<user, refresh, access, now>>' = <<user, refresh, access, now>>
  /\ blacklisted \subseteq blacklisted'

(* Every way of starting a request is such a start.                        *)
LEMMA StartsAreFresh ==
  ASSUME Typed, NEW c \in Requests, Starting(c)
  PROVE  FreshStart(c)
<1> USE DEF FreshStart, Typed, Start, Idle, user, tokens
<1>1. CASE RegisterProbe(c)
  BY <1>1 DEF RegisterProbe
<1>2. CASE LoginVerify(c)
  <2>1. password <= epoch /\ 0 <= epoch
    OBVIOUS
  <2>2. CASE Start(c, [Idle EXCEPT !.pc = "verified", !.seen = password])
    BY <1>2, <2>1, <2>2 DEF LoginVerify
  <2>3. CASE Start(c, [Idle EXCEPT !.pc = "rehashing"])
    BY <1>2, <2>1, <2>3 DEF LoginVerify
  <2>4. CASE Start(c, [Idle EXCEPT !.pc = "refused"])
    BY <1>2, <2>4 DEF LoginVerify
  <2>5. QED
    BY <1>2, <2>2, <2>3, <2>4 DEF LoginVerify
<1>3. CASE ResetClear(c)
  BY <1>3 DEF ResetClear
<1>4. ASSUME NEW r \in DOMAIN refresh, RefreshVerify(c, r) PROVE FreshStart(c)
  <2>1. CASE Start(c, [Idle EXCEPT !.pc = "refused"])
    BY <1>4, <2>1 DEF RefreshVerify
  <2>2. CASE Start(c, [Idle EXCEPT !.pc = "rotating", !.token = r])
    BY <1>4, <2>2 DEF RefreshVerify
  <2>3. QED
    BY <1>4, <2>1, <2>2 DEF RefreshVerify
<1>5. ASSUME NEW r \in DOMAIN refresh, Logout(c, r) PROVE FreshStart(c)
  BY <1>5 DEF Logout
<1>6. ASSUME NEW k \in DOMAIN links, ConfirmRead(c, k) PROVE FreshStart(c)
  <2>1. CASE Start(c, [Idle EXCEPT !.pc = "refused"])
    BY <1>6, <2>1 DEF ConfirmRead
  <2>2. CASE Start(c, [Idle EXCEPT !.pc = "valid", !.token = k, !.seen = Len(links)])
    BY <1>6, <2>2 DEF ConfirmRead
  <2>3. QED
    BY <1>6, <2>1, <2>2 DEF ConfirmRead
<1>7. CASE ProfileRead(c)
  <2>1. password <= epoch
    OBVIOUS
  <2>2. QED
    BY <1>7, <2>1 DEF ProfileRead
<1>8. QED
  BY <1>1, <1>2, <1>3, <1>4, <1>5, <1>6, <1>7 DEF Starting

(* What an INSERT does to the requests, whichever way it goes.             *)
LEMMA InsertMovesOne ==
  ASSUME Typed, NEW c \in Requests, RegisterInsert(c)
  PROVE  /\ req'[c].pc \in {"refused", "verified"} /\ req[c].pc = "probed"
         /\ req'[c].seen = req[c].seen /\ req'[c].token = req[c].token
         /\ req'[c].saved = req[c].saved /\ req'[c].stamp = req[c].stamp
         /\ req'[c].stamped = req[c].stamped /\ req'[c].wrote = req[c].wrote
         /\ \A d \in Requests \ {c} : req'[d] = req[d]
<1>1. PICK s \in {"refused", "verified"} : req' = [req EXCEPT ![c].pc = s]
  BY DEF RegisterInsert, Goto
<1>2. QED
  BY <1>1 DEF RegisterInsert, Typed, Request

(* What a hash upgrade does to them.                                       *)
LEMMA RehashMovesOne ==
  ASSUME Typed, NEW c \in Requests, LoginRehash(c)
  PROVE  /\ req[c].pc = "rehashing" /\ req'[c].pc = "verified" /\ req'[c].wrote = epoch
         /\ req'[c].seen = req[c].seen /\ req'[c].token = req[c].token
         /\ req'[c].saved = req[c].saved /\ req'[c].stamp = req[c].stamp
         /\ req'[c].stamped = req[c].stamped /\ req'[c].list = req[c].list
         /\ \A d \in Requests \ {c} : req'[d] = req[d]
BY DEF LoginRehash, Typed, Request

(* What a profile's save does to them.                                     *)
LEMMA ProfileMovesOne ==
  ASSUME Typed, NEW c \in Requests, ProfileSave(c)
  PROVE  /\ req[c].pc = "profiling" /\ req'[c].pc = "profiled" /\ req'[c].wrote = epoch
         /\ req'[c].seen = req[c].seen /\ req'[c].token = req[c].token
         /\ req'[c].saved = req[c].saved /\ req'[c].stamp = req[c].stamp
         /\ req'[c].stamped = req[c].stamped /\ req'[c].list = req[c].list
         /\ \A d \in Requests \ {c} : req'[d] = req[d]
BY DEF ProfileSave, Typed, Request

(* What the saving of a password does to them.                             *)
LEMMA SaveMovesOne ==
  ASSUME Typed, NEW c \in Requests, ConfirmSave(c)
  PROVE  /\ req[c].pc = "stamped" /\ req'[c].pc = "saved" /\ req'[c].saved = epoch + 1
         /\ req'[c].seen = req[c].seen /\ req'[c].token = req[c].token
         /\ req'[c].stamp = req[c].stamp /\ req'[c].stamped = req[c].stamped
         /\ req'[c].wrote = req[c].wrote
         /\ \A d \in Requests \ {c} : req'[d] = req[d]
BY DEF ConfirmSave, Typed, Request

(* All the other steps of a request that is under way: it goes on with     *)
(* what it knows, but for the stamp it takes, and leaves the row alone,    *)
(* but for the one it inserts.                                             *)
Moving(c) ==
  /\ req[c].pc \notin {"idle", "profiled"}
  /\ req'[c].pc \notin {"idle", "probed", "rehashing", "rotating", "valid", "profiling",
                        "profiled"}
  /\ req'[c].pc = "verified" => req[c].pc = "probed"
  /\ req'[c].pc \in {"spent", "stamped"} => req[c].pc \in {"valid", "spent"}
  /\ req'[c].seen = req[c].seen /\ req'[c].token = req[c].token
  /\ req'[c].saved = req[c].saved /\ req'[c].wrote = req[c].wrote
  /\ req'[c].stamped = req[c].stamped
  /\ \/ req'[c].stamp = req[c].stamp
     \/ req[c].saved = 0 /\ req'[c].stamp = now
  /\ \A d \in Requests \ {c} : req'[d] = req[d]
  /\ <<now, epoch, password, stamped>>' = <<now, epoch, password, stamped>>
  /\ changedAt' = changedAt \/ (~registered /\ changedAt' = now)

(* Every step is one of these kinds.                                       *)
LEMMA KindsOfStep ==
  ASSUME Typed, SavesAreCounted, [Next]_vars
  PROVE  \/ UNCHANGED <<user, req>> /\ now' \in {now, now + 1}
         \/ \E c \in Requests :
              FreshStart(c) \/ Moving(c) \/ ConfirmSave(c) \/ LoginRehash(c) \/ ProfileSave(c)
<1>1. CASE Tick \/ UNCHANGED vars
  BY <1>1 DEF Tick, vars
<1>2. ASSUME NEW c \in Requests, RegisterInsert(c) PROVE Moving(c)
  BY <1>2, InsertMovesOne DEF RegisterInsert, Moving, user
<1>3. ASSUME NEW c \in Requests, NEW s \in {"over", "spent", "confirmed", "broken"}, Goto(c, s),
             req[c].pc \notin {"idle", "profiled"}, s = "spent" => req[c].pc = "valid",
             UNCHANGED <<now, user>>
      PROVE  Moving(c)
  <2>1. s \in Steps
    BY DEF Steps
  <2>2. QED
    BY <1>3, <2>1, GotoMovesOne DEF Moving, user
<1>4. ASSUME NEW c \in Requests, IssueTokens(c) \/ RefreshRotate(c) \/ ResetIssue(c)
      PROVE  Moving(c)
  BY <1>3, <1>4 DEF IssueTokens, RefreshRotate, ResetIssue
<1>5. ASSUME NEW c \in Requests, ConfirmSpend(c) \/ ConfirmEnd(c) \/ BreakOff(c)
      PROVE  Moving(c)
  BY <1>3, <1>5 DEF ConfirmSpend, ConfirmEnd, BreakOff
<1>6. ASSUME NEW c \in Requests, ConfirmStamp(c) PROVE Moving(c)
  BY <1>6 DEF ConfirmStamp, SavesAreCounted, Moving, Typed, Request, user
<1>7. ASSUME NEW c \in Requests, RevokeList(c) PROVE Moving(c)
  BY <1>7 DEF RevokeList, Moving, Typed, Request, user
<1>8. ASSUME NEW c \in Requests, RevokeOne(c) PROVE Moving(c)
  <2>1. PICK r \in req[c].list : req' = [req EXCEPT ![c].list = @ \ {r}]
    BY <1>8 DEF RevokeOne
  <2>2. QED
    BY <1>8, <2>1 DEF RevokeOne, Moving, Typed, Request, user
<1>9. ASSUME NEW c \in Requests, Starting(c) PROVE FreshStart(c)
  BY <1>9, StartsAreFresh
<1>10. QED
  BY <1>1, <1>2, <1>4, <1>5, <1>6, <1>7, <1>8, <1>9, Zenon DEF Next, Confirm, Starting

(* A link once spent stays spent.                                          *)
LEMMA ClearedStep ==
  ASSUME Typed, ClearedLinksStaySpent, [Next]_vars
  PROVE  ClearedLinksStaySpent'
<1>1. CASE Tick
  BY <1>1 DEF Tick, Typed, Request, user, tokens, ClearedLinksStaySpent
<1>2. ASSUME NEW c \in Requests, RegisterProbe(c) PROVE ClearedLinksStaySpent'
  <2>1. req'[c].pc # "cleared" /\ \A d \in Requests \ {c} : req'[d] = req[d]
    BY <1>2 DEF RegisterProbe, Start, Idle, Typed
  <2>2. QED
    BY <1>2, <2>1 DEF RegisterProbe, ClearedLinksStaySpent
<1>3. ASSUME NEW c \in Requests, RegisterInsert(c) PROVE ClearedLinksStaySpent'
  BY <1>3 DEF RegisterInsert, Typed, Goto, Request, user, tokens, ClearedLinksStaySpent
<1>4. ASSUME NEW c \in Requests, LoginVerify(c) PROVE ClearedLinksStaySpent'
  <2>1. req'[c].pc # "cleared" /\ \A d \in Requests \ {c} : req'[d] = req[d]
    BY <1>4 DEF LoginVerify, Start, Idle, Typed
  <2>2. QED
    BY <1>4, <2>1 DEF LoginVerify, ClearedLinksStaySpent
<1>4a. ASSUME NEW c \in Requests, LoginRehash(c) PROVE ClearedLinksStaySpent'
  BY <1>4a DEF LoginRehash, Typed, Request, tokens, ClearedLinksStaySpent
<1>5. ASSUME NEW c \in Requests, IssueTokens(c) PROVE ClearedLinksStaySpent'
  BY <1>5 DEF IssueTokens, Typed, Goto, Request, user, ClearedLinksStaySpent
<1>6. ASSUME NEW c \in Requests, NEW r \in DOMAIN refresh, RefreshVerify(c, r)
      PROVE  ClearedLinksStaySpent'
  <2>1. req'[c].pc # "cleared" /\ \A d \in Requests \ {c} : req'[d] = req[d]
    BY <1>6 DEF RefreshVerify, Start, Idle, Typed
  <2>2. QED
    BY <1>6, <2>1 DEF RefreshVerify, ClearedLinksStaySpent
<1>7. ASSUME NEW c \in Requests, RefreshRotate(c) PROVE ClearedLinksStaySpent'
  BY <1>7 DEF RefreshRotate, Typed, Goto, Request, user, ClearedLinksStaySpent
<1>8. ASSUME NEW c \in Requests, NEW r \in DOMAIN refresh, Logout(c, r)
      PROVE  ClearedLinksStaySpent'
  <2>1. req'[c].pc # "cleared" /\ \A d \in Requests \ {c} : req'[d] = req[d]
    BY <1>8 DEF Logout, Start, Idle, Typed
  <2>2. QED
    BY <1>8, <2>1 DEF Logout, ClearedLinksStaySpent
<1>9. ASSUME NEW c \in Requests, ResetClear(c) PROVE ClearedLinksStaySpent'
  <2>1. /\ DOMAIN links = 1..Len(links) /\ Len(links) \in Nat
        /\ \A j \in DOMAIN links : links[j] \in Link
    BY DEF Typed
  <2>2. DOMAIN links' = DOMAIN links /\ Len(links') = Len(links)
    BY <1>9, <2>1 DEF ResetClear
  <2>3. \A j \in DOMAIN links : links'[j].used
    BY <1>9, <2>1 DEF ResetClear, Link
  <2>4. \A d \in Requests :
          req'[d].pc = "cleared" => req'[d] = req[d] \/ req'[d].seen = Len(links)
    BY <1>9 DEF ResetClear, Start, Idle, Typed
  <2>5. \A d \in Requests : req'[d].pc = "cleared" => req'[d].seen \in 0..Len(links)
    BY <2>1, <2>4 DEF ClearedLinksStaySpent, Typed, Request
  <2>6. QED
    BY <2>1, <2>2, <2>3, <2>5 DEF ClearedLinksStaySpent
<1>10. ASSUME NEW c \in Requests, ResetIssue(c) PROVE ClearedLinksStaySpent'
  <2>1. Len(links') = Len(links) + 1 /\ \A j \in DOMAIN links : links'[j] = links[j]
    BY <1>10 DEF ResetIssue, Typed
  <2>2. \A d \in Requests : req'[d].pc = "cleared" => req'[d] = req[d]
    BY <1>10 DEF ResetIssue, Goto, Typed
  <2>3. /\ DOMAIN links = 1..Len(links) /\ Len(links) \in Nat
        /\ \A d \in Requests : req[d].seen \in Nat
    BY DEF Typed, Request
  <2>4. QED
    BY <2>1, <2>2, <2>3 DEF ClearedLinksStaySpent
<1>11. ASSUME NEW c \in Requests, NEW k \in DOMAIN links, ConfirmRead(c, k)
      PROVE  ClearedLinksStaySpent'
  <2>1. req'[c].pc # "cleared" /\ \A d \in Requests \ {c} : req'[d] = req[d]
    BY <1>11 DEF ConfirmRead, Start, Idle, Typed
  <2>2. QED
    BY <1>11, <2>1 DEF ConfirmRead, ClearedLinksStaySpent
<1>12. ASSUME NEW c \in Requests, ConfirmSpend(c) PROVE ClearedLinksStaySpent'
  <2>1. Len(links') = Len(links) /\ \A j \in DOMAIN links : links[j].used => links'[j].used
    BY <1>12 DEF ConfirmSpend, Typed, Link
  <2>2. \A d \in Requests : req'[d].pc = "cleared" => req'[d] = req[d]
    BY <1>12 DEF ConfirmSpend, Goto, Typed, Request
  <2>3. ASSUME NEW d \in Requests, req'[d].pc = "cleared"
        PROVE  req'[d].seen <= Len(links') /\ \A j \in 1..req'[d].seen : links'[j].used
    <3>1. /\ req[d].seen \in Nat /\ req[d].seen <= Len(links)
          /\ \A j \in 1..req[d].seen : links[j].used
      BY <2>2, <2>3 DEF ClearedLinksStaySpent, Typed, Request
    <3>2. DOMAIN links = 1..Len(links) /\ Len(links) \in Nat
      BY DEF Typed
    <3>3. QED
      BY <2>1, <2>2, <2>3, <3>1, <3>2
  <2>4. QED
    BY <2>3 DEF ClearedLinksStaySpent
<1>13. ASSUME NEW c \in Requests, ConfirmStamp(c) PROVE ClearedLinksStaySpent'
  BY <1>13 DEF ConfirmStamp, Typed, Request, user, tokens, ClearedLinksStaySpent
<1>14. ASSUME NEW c \in Requests, ConfirmSave(c) PROVE ClearedLinksStaySpent'
  BY <1>14 DEF ConfirmSave, Typed, Request, tokens, ClearedLinksStaySpent
<1>15. ASSUME NEW c \in Requests, RevokeList(c) PROVE ClearedLinksStaySpent'
  BY <1>15 DEF RevokeList, Typed, Request, user, tokens, ClearedLinksStaySpent
<1>16. ASSUME NEW c \in Requests, RevokeOne(c) PROVE ClearedLinksStaySpent'
  BY <1>16 DEF RevokeOne, Typed, Request, user, ClearedLinksStaySpent
<1>17. ASSUME NEW c \in Requests, ConfirmEnd(c) PROVE ClearedLinksStaySpent'
  BY <1>17 DEF ConfirmEnd, Typed, Goto, Request, user, tokens, ClearedLinksStaySpent
<1>17a. ASSUME NEW c \in Requests, ProfileRead(c) PROVE ClearedLinksStaySpent'
  <2>1. req'[c].pc # "cleared" /\ \A d \in Requests \ {c} : req'[d] = req[d]
    BY <1>17a DEF ProfileRead, Start, Idle, Typed
  <2>2. QED
    BY <1>17a, <2>1 DEF ProfileRead, ClearedLinksStaySpent
<1>17b. ASSUME NEW c \in Requests, ProfileSave(c) PROVE ClearedLinksStaySpent'
  BY <1>17b DEF ProfileSave, Typed, Request, tokens, ClearedLinksStaySpent
<1>18. ASSUME NEW c \in Requests, BreakOff(c) PROVE ClearedLinksStaySpent'
  BY <1>18 DEF BreakOff, Typed, Goto, Request, user, tokens, ClearedLinksStaySpent
<1>19. CASE UNCHANGED vars
  BY <1>19 DEF vars, Typed, user, tokens, ClearedLinksStaySpent
<1>20. QED
  BY <1>1, <1>2, <1>3, <1>4, <1>4a, <1>5, <1>6, <1>7, <1>8, <1>9, <1>10, <1>11, <1>12, <1>13,
     <1>14, <1>15, <1>16, <1>17, <1>17a, <1>17b, <1>18, <1>19 DEF Next, Confirm

(* Only asking for a link and spending one change the links.               *)
LEMMA OthersKeepLinks ==
  ASSUME [Next]_vars, ~ \E c \in Requests : ResetIssue(c) \/ ResetClear(c) \/ ConfirmSpend(c)
  PROVE  links' = links
BY DEF Next, Confirm, vars, Tick, RegisterProbe, RegisterInsert, LoginVerify, LoginRehash,
   IssueTokens, RefreshVerify, RefreshRotate, Logout, ConfirmRead, ConfirmStamp, ConfirmSave,
   RevokeList, RevokeOne, ConfirmEnd, ProfileRead, ProfileSave, BreakOff

(* A link made after the older ones were spent is the only live one.       *)
LEMMA OneLiveLinkStep ==
  ASSUME Typed, ClearedLinksStaySpent, OneLiveLink, [Next]_vars
  PROVE  OneLiveLink'
<1>1. ASSUME NEW c \in Requests, ResetClear(c) PROVE OneLiveLink'
  <2>1. DOMAIN links' = DOMAIN links /\ \A j \in DOMAIN links : links'[j].used
    <3>1. ASSUME NEW j \in DOMAIN links PROVE links'[j].used
      <4>1. links[j] \in Link /\ links'[j] = [links[j] EXCEPT !.used = TRUE]
        BY <1>1 DEF ResetClear, Typed
      <4>2. QED
        BY <4>1 DEF Link
    <3>2. QED
      BY <1>1, <3>1 DEF ResetClear
  <2>2. QED
    BY <2>1 DEF OneLiveLink
<1>2. ASSUME NEW c \in Requests, ResetIssue(c) PROVE OneLiveLink'
  <2>1. /\ links' = Append(links, links'[Len(links) + 1])
        /\ links'[Len(links) + 1].after = req[c].seen
    BY <1>2 DEF ResetIssue, Typed
  <2>2. \A j \in 1..req[c].seen : links[j].used
    BY <1>2 DEF ResetIssue, ClearedLinksStaySpent
  <2>3. ASSUME NEW j \in DOMAIN links', NEW k \in DOMAIN links', j < k,
               ~links'[j].used, ~links'[k].used
        PROVE  links'[k].after < j
    <3>1. j \in DOMAIN links /\ links'[j] = links[j] /\ j \in Nat /\ k \in 1..(Len(links) + 1)
      BY <2>1, <2>3 DEF Typed
    <3>2. CASE k \in DOMAIN links
      BY <2>1, <2>3, <3>1, <3>2 DEF OneLiveLink, Typed
    <3>3. CASE k = Len(links) + 1
      <4>1. req[c].seen \in Nat /\ ~(j \in 1..req[c].seen)
        BY <2>2, <2>3, <3>1 DEF Typed, Request
      <4>2. QED
        BY <2>1, <3>1, <3>3, <4>1
    <3>4. QED
      BY <3>1, <3>2, <3>3 DEF Typed
  <2>4. QED
    BY <2>3 DEF OneLiveLink
<1>3. ASSUME NEW c \in Requests, ConfirmSpend(c) PROVE OneLiveLink'
  BY <1>3 DEF ConfirmSpend, Typed, Goto, Request, user, tokens, OneLiveLink
<1>4. CASE ~ \E c \in Requests : ResetClear(c) \/ ResetIssue(c) \/ ConfirmSpend(c)
  BY <1>4, OthersKeepLinks DEF OneLiveLink
<1>5. QED
  BY <1>1, <1>2, <1>3, <1>4

(* Each confirmation saves one password of its own.                        *)
LEMMA SavesStep ==
  ASSUME Typed, SavesAreCounted, [Next]_vars
  PROVE  SavesAreCounted'
<1>1. CASE UNCHANGED <<user, req>>
  BY <1>1 DEF user, SavesAreCounted
<1>2. ASSUME NEW c \in Requests, FreshStart(c) PROVE SavesAreCounted'
  BY <1>2 DEF FreshStart, SavesAreCounted, user, Typed
<1>3. ASSUME NEW c \in Requests, Moving(c) PROVE SavesAreCounted'
  BY <1>3 DEF Moving, SavesAreCounted
<1>4. ASSUME NEW c \in Requests, ConfirmSave(c) PROVE SavesAreCounted'
  <2>1. epoch' = epoch + 1 /\ epoch \in Nat /\ \A d \in Requests : req[d].saved \in Nat
    BY <1>4 DEF ConfirmSave, Typed, Request
  <2>2. QED
    BY <1>4, <2>1, SaveMovesOne DEF SavesAreCounted
<1>5. ASSUME NEW c \in Requests, LoginRehash(c) \/ ProfileSave(c) PROVE SavesAreCounted'
  <2>1. epoch' = epoch
    BY <1>5 DEF LoginRehash, ProfileSave
  <2>2. QED
    BY <1>5, <2>1, RehashMovesOne, ProfileMovesOne DEF SavesAreCounted
<1>6. QED
  BY <1>1, <1>2, <1>3, <1>4, <1>5, KindsOfStep

(* A stamp is a time that has been.                                        *)
LEMMA StampsTakenStep ==
  ASSUME Typed, SavesAreCounted, StampsAreTaken, [Next]_vars
  PROVE  StampsAreTaken'
<1>1. now \in Nat /\ changedAt \in 0..now /\ \A d \in Requests : req[d].stamp \in Nat
  BY DEF Typed, Request
<1>2. CASE UNCHANGED <<user, req>> /\ now' \in {now, now + 1}
  BY <1>1, <1>2 DEF StampsAreTaken
<1>3. ASSUME NEW c \in Requests, FreshStart(c) PROVE StampsAreTaken'
  BY <1>1, <1>3 DEF FreshStart, StampsAreTaken
<1>4. ASSUME NEW c \in Requests, Moving(c) PROVE StampsAreTaken'
  BY <1>1, <1>4 DEF Moving, StampsAreTaken
<1>5. ASSUME NEW c \in Requests, ConfirmSave(c) \/ LoginRehash(c) \/ ProfileSave(c)
      PROVE  StampsAreTaken'
  <2>1. now' = now
    BY <1>5 DEF ConfirmSave, LoginRehash, ProfileSave
  <2>2. QED
    BY <1>5, <2>1, SaveMovesOne, RehashMovesOne, ProfileMovesOne DEF StampsAreTaken
<1>6. QED
  BY <1>2, <1>3, <1>4, <1>5, KindsOfStep

(* Only a login, a registration and a refresh make tokens.                 *)
LEMMA OthersMakeNoTokens ==
  ASSUME [Next]_vars, ~ \E c \in Requests : IssueTokens(c) \/ RefreshRotate(c)
  PROVE  UNCHANGED <<refresh, access>>
BY DEF Next, Confirm, vars, tokens, Tick, RegisterProbe, RegisterInsert, LoginVerify,
   LoginRehash, RefreshVerify, Logout, ResetClear, ResetIssue, ConfirmRead, ConfirmSpend,
   ConfirmStamp, ConfirmSave, RevokeList, RevokeOne, ConfirmEnd, ProfileRead, ProfileSave,
   BreakOff

(* And no step takes one away.                                             *)
LEMMA TokensStay ==
  ASSUME Typed, [Next]_vars
  PROVE  DOMAIN refresh \subseteq DOMAIN refresh'
<1>1. CASE \E c \in Requests : IssueTokens(c) \/ RefreshRotate(c)
  <2>1. \E t : refresh' = Append(refresh, t)
    BY <1>1 DEF IssueTokens, RefreshRotate
  <2>2. QED
    BY <2>1 DEF Typed
<1>2. QED
  BY <1>1, OthersMakeNoTokens

(* What a request has read is of the past, and it writes once.             *)
LEMMA ReadsStep ==
  ASSUME Typed, SavesAreCounted, ReadsArePast, [Next]_vars
  PROVE  ReadsArePast'
<1>1. /\ epoch \in Nat /\ stamped \in 0..epoch
      /\ \A d \in Requests : req[d].seen \in Nat /\ req[d].stamped \in Nat
  BY DEF Typed, Request
<1>2. DOMAIN refresh \subseteq DOMAIN refresh'
  BY TokensStay
<1>3. CASE UNCHANGED <<user, req>>
  BY <1>2, <1>3 DEF user, ReadsArePast
<1>4. ASSUME NEW c \in Requests, FreshStart(c) PROVE ReadsArePast'
  BY <1>1, <1>4 DEF FreshStart, ReadsArePast, user
<1>5. ASSUME NEW c \in Requests, Moving(c) PROVE ReadsArePast'
  BY <1>2, <1>5 DEF Moving, ReadsArePast
<1>6. ASSUME NEW c \in Requests, ConfirmSave(c) PROVE ReadsArePast'
  <2>1. epoch' = epoch + 1
    BY <1>6 DEF ConfirmSave
  <2>2. QED
    BY <1>1, <1>2, <1>6, <2>1, SaveMovesOne DEF ReadsArePast
<1>7. ASSUME NEW c \in Requests, LoginRehash(c) \/ ProfileSave(c) PROVE ReadsArePast'
  <2>1. epoch' = epoch
    BY <1>7 DEF LoginRehash, ProfileSave
  <2>2. QED
    BY <1>1, <1>2, <1>7, <2>1, RehashMovesOne, ProfileMovesOne DEF ReadsArePast
<1>8. QED
  BY <1>3, <1>4, <1>5, <1>6, <1>7, KindsOfStep

(* What a request has taken back it has taken back for good.               *)
LEMMA TakenBackStays ==
  ASSUME Typed, SavesAreCounted, ReadsArePast, NEW c \in Requests,
         req'[c].saved = req[c].saved, req[c].saved > 0,
         \A d \in Requests :
           \/ req'[d].seen = req[d].seen /\ req'[d].wrote = req[d].wrote
           \/ req[d].wrote = 0,
         PasswordTakenBack(c)
  PROVE  PasswordTakenBack(c)'
<1>1. PICK d \in Requests : req[d].seen < req[c].saved /\ req[c].saved <= req[d].wrote
  BY DEF PasswordTakenBack
<1>2. req[d].wrote # 0
  BY <1>1 DEF Typed, Request
<1>3. QED
  BY <1>1, <1>2 DEF PasswordTakenBack

(* A saved password stays unless what was read before it is written back.  *)
LEMMA NewPasswordStaysStep ==
  ASSUME Typed, SavesAreCounted, ReadsArePast, NewPasswordStays, [Next]_vars
  PROVE  NewPasswordStays'
<1>1. /\ epoch \in Nat /\ password \in Nat
      /\ \A d \in Requests : /\ {req[d].seen, req[d].saved, req[d].wrote} \subseteq Nat
                             /\ req[d].saved <= epoch
  BY DEF Typed, Request, SavesAreCounted
<1>2. CASE UNCHANGED <<user, req>>
  BY <1>2 DEF user, NewPasswordStays, Confirmers, PasswordTakenBack
<1>3. ASSUME NEW c \in Requests, FreshStart(c) \/ Moving(c) PROVE NewPasswordStays'
  <2>1. password' = password
    BY <1>3 DEF FreshStart, Moving, user
  <2>2. \A d \in Requests : \/ req'[d].seen = req[d].seen /\ req'[d].wrote = req[d].wrote
                            \/ req[d].wrote = 0
    BY <1>3 DEF FreshStart, Moving, ReadsArePast
  <2>3. \A d \in Requests : req'[d].saved = req[d].saved
    BY <1>3 DEF FreshStart, Moving, SavesAreCounted
  <2>4. ASSUME NEW d \in Confirmers' PROVE password' >= req'[d].saved \/ PasswordTakenBack(d)'
    <3>1. d \in Confirmers
      BY <2>3, <2>4 DEF Confirmers
    <3>2. QED
      BY <2>1, <2>2, <2>3, <3>1, TakenBackStays DEF NewPasswordStays, Confirmers
  <2>5. QED
    BY <2>4 DEF NewPasswordStays
<1>4. ASSUME NEW c \in Requests, ConfirmSave(c) PROVE NewPasswordStays'
  <2>1. password' = epoch + 1
    BY <1>4 DEF ConfirmSave
  <2>2. \A d \in Requests : req'[d].saved = epoch + 1 \/ req'[d].saved = req[d].saved
    BY <1>4, SaveMovesOne
  <2>3. \A d \in Requests : req'[d].saved <= epoch + 1
    BY <1>1, <2>2
  <2>4. QED
    BY <1>1, <2>1, <2>2, <2>3 DEF NewPasswordStays, Confirmers
<1>5. ASSUME NEW c \in Requests, LoginRehash(c) \/ ProfileSave(c) PROVE NewPasswordStays'
  <2>1. /\ password' = req[c].seen /\ req'[c].seen = req[c].seen /\ req'[c].wrote = epoch
        /\ \A d \in Requests : req'[d].saved = req[d].saved
    BY <1>5, RehashMovesOne, ProfileMovesOne DEF LoginRehash, ProfileSave
  <2>2. ASSUME NEW d \in Confirmers', ~(password' >= req'[d].saved)
        PROVE  PasswordTakenBack(d)'
    <3>1. d \in Requests /\ req'[c].seen < req'[d].saved /\ req'[d].saved <= req'[c].wrote
      BY <1>1, <2>1, <2>2 DEF Confirmers
    <3>2. QED
      BY <3>1 DEF PasswordTakenBack
  <2>3. QED
    BY <2>2 DEF NewPasswordStays
<1>6. QED
  BY <1>2, <1>3, <1>4, <1>5, KindsOfStep

(* The sessions stay ended as long as tokens are only added, those of      *)
(* today, and no confirmation starts or ends its revoking.                 *)
LEMMA SessionsFrame ==
  ASSUME Typed, SavesAreCounted, RevocationIsComplete, SessionsEndWithTheReset,
         \A r \in DOMAIN refresh : r \in DOMAIN refresh' /\ refresh'[r] = refresh[r],
         \A r \in DOMAIN refresh' \ DOMAIN refresh : refresh'[r].minted = epoch,
         blacklisted \subseteq blacklisted',
         \A d \in Requests : req'[d].pc \in {"revoking", "confirmed"} =>
           /\ req'[d].pc = req[d].pc /\ req'[d].saved = req[d].saved
           /\ req'[d].list = req[d].list
  PROVE  RevocationIsComplete' /\ SessionsEndWithTheReset'
<1>1. ASSUME NEW d \in Requests, NEW r \in DOMAIN refresh',
             req'[d].pc \in {"revoking", "confirmed"}, refresh'[r].minted < req'[d].saved
      PROVE  r \in DOMAIN refresh /\ refresh[r].minted < req[d].saved
  BY <1>1 DEF SavesAreCounted, Typed, Request
<1>2. RevocationIsComplete'
  BY <1>1 DEF RevocationIsComplete
<1>3. SessionsEndWithTheReset'
  BY <1>1 DEF SessionsEndWithTheReset, Confirmers
<1>4. QED
  BY <1>2, <1>3

(* A confirmation ends every session older than its password.              *)
LEMMA SessionsStep ==
  ASSUME Typed, SavesAreCounted, RevocationIsComplete, SessionsEndWithTheReset, [Next]_vars
  PROVE  RevocationIsComplete' /\ SessionsEndWithTheReset'
<1>1. CASE Tick
  BY <1>1 DEF Tick, Typed, Request, user, tokens, RevocationIsComplete, SavesAreCounted,
    Confirmers, SessionsEndWithTheReset
<1>2. ASSUME NEW c \in Requests, RegisterProbe(c)
      PROVE  RevocationIsComplete' /\ SessionsEndWithTheReset'
  <2>1. Starting(c)
    BY <1>2 DEF Starting
  <2>2. QED
    BY <2>1, StartsAreFresh, SessionsFrame DEF FreshStart, user
<1>3. ASSUME NEW c \in Requests, RegisterInsert(c)
      PROVE  RevocationIsComplete' /\ SessionsEndWithTheReset'
  <2>1. refresh' = refresh /\ blacklisted' = blacklisted
    BY <1>3 DEF RegisterInsert, tokens
  <2>2. QED
    BY <1>3, <2>1, InsertMovesOne, SessionsFrame
<1>4. ASSUME NEW c \in Requests, LoginVerify(c)
      PROVE  RevocationIsComplete' /\ SessionsEndWithTheReset'
  <2>1. Starting(c)
    BY <1>4 DEF Starting
  <2>2. QED
    BY <2>1, StartsAreFresh, SessionsFrame DEF FreshStart, user
<1>4a. ASSUME NEW c \in Requests, LoginRehash(c)
      PROVE  RevocationIsComplete' /\ SessionsEndWithTheReset'
  <2>1. refresh' = refresh /\ blacklisted' = blacklisted
    BY <1>4a DEF LoginRehash, tokens
  <2>2. \A d \in Requests : req'[d].pc \in {"revoking", "confirmed"} => req'[d] = req[d]
    BY <1>4a DEF LoginRehash, Typed, Request
  <2>3. QED
    BY <2>1, <2>2, SessionsFrame
<1>5. ASSUME NEW c \in Requests, IssueTokens(c)
      PROVE  RevocationIsComplete' /\ SessionsEndWithTheReset'
  <2>1. /\ refresh' = Append(refresh, refresh'[Len(refresh) + 1])
        /\ refresh'[Len(refresh) + 1].minted = epoch
    BY <1>5 DEF IssueTokens, Token, Typed
  <2>2. /\ \A r \in DOMAIN refresh : r \in DOMAIN refresh' /\ refresh'[r] = refresh[r]
        /\ \A r \in DOMAIN refresh' \ DOMAIN refresh : r = Len(refresh) + 1
    <3>1. refresh \in Seq(Minted)
      BY DEF Typed
    <3>2. QED
      BY <2>1, <3>1
  <2>3. blacklisted \subseteq blacklisted'
    BY <1>5 DEF IssueTokens
  <2>4. \A d \in Requests : req'[d].pc \in {"revoking", "confirmed"} => req'[d] = req[d]
    BY <1>5 DEF IssueTokens, Goto, Typed
  <2>5. QED
    BY <2>1, <2>2, <2>3, <2>4, SessionsFrame
<1>6. ASSUME NEW c \in Requests, NEW r \in DOMAIN refresh, RefreshVerify(c, r)
      PROVE  RevocationIsComplete' /\ SessionsEndWithTheReset'
  <2>1. Starting(c)
    BY <1>6 DEF Starting
  <2>2. QED
    BY <2>1, StartsAreFresh, SessionsFrame DEF FreshStart, user
<1>7. ASSUME NEW c \in Requests, RefreshRotate(c)
      PROVE  RevocationIsComplete' /\ SessionsEndWithTheReset'
  <2>1. /\ refresh' = Append(refresh, refresh'[Len(refresh) + 1])
        /\ refresh'[Len(refresh) + 1].minted = epoch
    BY <1>7 DEF RefreshRotate, Token, Typed
  <2>2. /\ \A r \in DOMAIN refresh : r \in DOMAIN refresh' /\ refresh'[r] = refresh[r]
        /\ \A r \in DOMAIN refresh' \ DOMAIN refresh : r = Len(refresh) + 1
    <3>1. refresh \in Seq(Minted)
      BY DEF Typed
    <3>2. QED
      BY <2>1, <3>1
  <2>3. blacklisted \subseteq blacklisted'
    BY <1>7 DEF RefreshRotate
  <2>4. \A d \in Requests : req'[d].pc \in {"revoking", "confirmed"} => req'[d] = req[d]
    BY <1>7 DEF RefreshRotate, Goto, Typed
  <2>5. QED
    BY <2>1, <2>2, <2>3, <2>4, SessionsFrame
<1>8. ASSUME NEW c \in Requests, NEW r \in DOMAIN refresh, Logout(c, r)
      PROVE  RevocationIsComplete' /\ SessionsEndWithTheReset'
  <2>1. Starting(c)
    BY <1>8 DEF Starting
  <2>2. QED
    BY <2>1, StartsAreFresh, SessionsFrame DEF FreshStart, user
<1>9. ASSUME NEW c \in Requests, ResetClear(c)
      PROVE  RevocationIsComplete' /\ SessionsEndWithTheReset'
  <2>1. Starting(c)
    BY <1>9 DEF Starting
  <2>2. QED
    BY <2>1, StartsAreFresh, SessionsFrame DEF FreshStart, user
<1>10. ASSUME NEW c \in Requests, ResetIssue(c)
      PROVE  RevocationIsComplete' /\ SessionsEndWithTheReset'
  <2>1. refresh' = refresh /\ blacklisted' = blacklisted
    BY <1>10 DEF ResetIssue, tokens
  <2>2. \A d \in Requests : req'[d].pc \in {"revoking", "confirmed"} => req'[d] = req[d]
    BY <1>10 DEF ResetIssue, Goto, Typed
  <2>3. QED
    BY <2>1, <2>2, SessionsFrame
<1>11. ASSUME NEW c \in Requests, NEW k \in DOMAIN links, ConfirmRead(c, k)
      PROVE  RevocationIsComplete' /\ SessionsEndWithTheReset'
  <2>1. Starting(c)
    BY <1>11 DEF Starting
  <2>2. QED
    BY <2>1, StartsAreFresh, SessionsFrame DEF FreshStart, user
<1>12. ASSUME NEW c \in Requests, ConfirmSpend(c)
      PROVE  RevocationIsComplete' /\ SessionsEndWithTheReset'
  <2>1. refresh' = refresh /\ blacklisted' = blacklisted
    BY <1>12 DEF ConfirmSpend, tokens
  <2>2. \A d \in Requests : req'[d].pc \in {"revoking", "confirmed"} => req'[d] = req[d]
    BY <1>12 DEF ConfirmSpend, Goto, Typed
  <2>3. QED
    BY <2>1, <2>2, SessionsFrame
<1>13. ASSUME NEW c \in Requests, ConfirmStamp(c)
      PROVE  RevocationIsComplete' /\ SessionsEndWithTheReset'
  <2>1. refresh' = refresh /\ blacklisted' = blacklisted
    BY <1>13 DEF ConfirmStamp, tokens
  <2>2. \A d \in Requests : req'[d].pc \in {"revoking", "confirmed"} => req'[d] = req[d]
    BY <1>13 DEF ConfirmStamp, Typed
  <2>3. QED
    BY <2>1, <2>2, SessionsFrame
<1>14. ASSUME NEW c \in Requests, ConfirmSave(c)
      PROVE  RevocationIsComplete' /\ SessionsEndWithTheReset'
  <2>1. refresh' = refresh /\ blacklisted' = blacklisted
    BY <1>14 DEF ConfirmSave, tokens
  <2>2. \A d \in Requests : req'[d].pc \in {"revoking", "confirmed"} => req'[d] = req[d]
    BY <1>14 DEF ConfirmSave, Typed
  <2>3. QED
    BY <2>1, <2>2, SessionsFrame
<1>15. ASSUME NEW c \in Requests, RevokeList(c)
      PROVE  RevocationIsComplete' /\ SessionsEndWithTheReset'
  <2>1. /\ req'[c].pc = "revoking" /\ req'[c].list = DOMAIN refresh
        /\ \A d \in Requests \ {c} : req'[d] = req[d]
    BY <1>15 DEF RevokeList, Typed, Request
  <2>2. refresh' = refresh /\ blacklisted' = blacklisted
    BY <1>15 DEF RevokeList, tokens
  <2>3. QED
    BY <2>1, <2>2 DEF RevocationIsComplete, SessionsEndWithTheReset, Confirmers
<1>16. ASSUME NEW c \in Requests, RevokeOne(c)
      PROVE  RevocationIsComplete' /\ SessionsEndWithTheReset'
  <2>1. PICK r \in req[c].list : /\ blacklisted' = blacklisted \union {r}
                               /\ req' = [req EXCEPT ![c].list = @ \ {r}]
    BY <1>16 DEF RevokeOne
  <2>2. /\ req'[c].pc = req[c].pc /\ req'[c].saved = req[c].saved
        /\ req'[c].list = req[c].list \ {r}
        /\ \A d \in Requests \ {c} : req'[d] = req[d]
    BY <2>1 DEF Typed, Request
  <2>3. refresh' = refresh
    BY <1>16 DEF RevokeOne
  <2>4. RevocationIsComplete'
    BY <2>1, <2>2, <2>3 DEF RevocationIsComplete
  <2>5. SessionsEndWithTheReset'
    BY <1>16, <2>1, <2>2, <2>3 DEF RevokeOne, SessionsEndWithTheReset, Confirmers
  <2>6. QED
    BY <2>4, <2>5
<1>17. ASSUME NEW c \in Requests, ConfirmEnd(c)
      PROVE  RevocationIsComplete' /\ SessionsEndWithTheReset'
  BY <1>17 DEF ConfirmEnd, Typed, Goto, Request, user, tokens, RevocationIsComplete,
    SavesAreCounted, Confirmers, SessionsEndWithTheReset
<1>17a. ASSUME NEW c \in Requests, ProfileRead(c)
      PROVE  RevocationIsComplete' /\ SessionsEndWithTheReset'
  <2>1. Starting(c)
    BY <1>17a DEF Starting
  <2>2. QED
    BY <2>1, StartsAreFresh, SessionsFrame DEF FreshStart, user
<1>17b. ASSUME NEW c \in Requests, ProfileSave(c)
      PROVE  RevocationIsComplete' /\ SessionsEndWithTheReset'
  <2>1. refresh' = refresh /\ blacklisted' = blacklisted
    BY <1>17b DEF ProfileSave, tokens
  <2>2. \A d \in Requests : req'[d].pc \in {"revoking", "confirmed"} => req'[d] = req[d]
    BY <1>17b DEF ProfileSave, Typed, Request
  <2>3. QED
    BY <2>1, <2>2, SessionsFrame
<1>18. ASSUME NEW c \in Requests, BreakOff(c)
      PROVE  RevocationIsComplete' /\ SessionsEndWithTheReset'
  <2>1. refresh' = refresh /\ blacklisted' = blacklisted
    BY <1>18 DEF BreakOff, tokens
  <2>2. \A d \in Requests : req'[d].pc \in {"revoking", "confirmed"} => req'[d] = req[d]
    BY <1>18 DEF BreakOff, Goto, Typed
  <2>3. QED
    BY <2>1, <2>2, SessionsFrame
<1>19. CASE UNCHANGED vars
  BY <1>19 DEF vars, Typed, user, tokens, RevocationIsComplete, SavesAreCounted, Confirmers,
    SessionsEndWithTheReset
<1>20. QED
  BY <1>1, <1>2, <1>3, <1>4, <1>4a, <1>5, <1>6, <1>7, <1>8, <1>9, <1>10, <1>11, <1>12, <1>13,
     <1>14, <1>15, <1>16, <1>17, <1>17a, <1>17b, <1>18, <1>19 DEF Next, Confirm

(* Once a stamp has been overtaken or taken back, it stays so.             *)
LEMMA OvertakenStays ==
  ASSUME NEW c \in Confirmers, Overtaken(c), c \in Requests,
         \A d \in Requests :
           req[d].saved > 0 => req'[d].saved = req[d].saved /\ req'[d].stamp = req[d].stamp,
         \A d \in Requests : req[d].pc = "profiled" => req'[d] = req[d]
  PROVE  Overtaken(c)'
<1>1. req[c].saved > 0
  BY DEF Confirmers
<1>2. ASSUME NEW d \in Confirmers, req[d].saved > req[c].saved, req[d].stamp < req[c].stamp
      PROVE  Overtaken(c)'
  <2>1. d \in Requests /\ req[d].saved > 0
    BY DEF Confirmers
  <2>2. d \in Confirmers' /\ req'[d].saved > req'[c].saved /\ req'[d].stamp < req'[c].stamp
    BY <1>1, <1>2, <2>1 DEF Confirmers
  <2>3. QED
    BY <2>2 DEF Overtaken
<1>3. ASSUME StampTakenBack(c) PROVE Overtaken(c)'
  BY <1>1, <1>3 DEF StampTakenBack, Overtaken
<1>4. QED
  BY <1>2, <1>3 DEF Overtaken

(* The stamps keep following while none is written and none is read but    *)
(* the one in the row.                                                     *)
LEMMA StampsFrame ==
  ASSUME StampsAreFollowed, changedAt' = changedAt,
         \A d \in Requests :
           /\ req'[d].saved = req[d].saved
           /\ req[d].saved > 0 => req'[d].stamp = req[d].stamp
           /\ req[d].pc = "profiled" => req'[d] = req[d]
           /\ req'[d].pc = "profiling" => req'[d] = req[d] \/ req'[d].stamp = changedAt
  PROVE  StampsAreFollowed'
<1>1. ASSUME NEW c \in Confirmers'
      PROVE  /\ req'[c].stamp <= changedAt' \/ Overtaken(c)'
             /\ \A d \in Requests : req'[d].pc = "profiling" =>
                  \/ req'[d].stamped < req'[c].saved \/ req'[c].stamp <= req'[d].stamp
                  \/ Overtaken(c)'
  <2>1. c \in Confirmers /\ c \in Requests /\ req[c].saved > 0
    BY <1>1 DEF Confirmers
  <2>2. Overtaken(c) => Overtaken(c)'
    BY <2>1, OvertakenStays
  <2>3. req'[c].saved = req[c].saved /\ req'[c].stamp = req[c].stamp
    BY <2>1
  <2>4. req'[c].stamp <= changedAt' \/ Overtaken(c)'
    BY <2>1, <2>2, <2>3 DEF StampsAreFollowed
  <2>5. ASSUME NEW d \in Requests, req'[d].pc = "profiling"
        PROVE  \/ req'[d].stamped < req'[c].saved \/ req'[c].stamp <= req'[d].stamp
               \/ Overtaken(c)'
    <3>1. CASE req'[d] = req[d]
      BY <2>1, <2>2, <2>3, <2>5, <3>1 DEF StampsAreFollowed
    <3>2. CASE req'[d].stamp = changedAt
      BY <2>4, <3>2
    <3>3. QED
      BY <2>5, <3>1, <3>2
  <2>6. QED
    BY <2>4, <2>5
<1>2. QED
  BY <1>1 DEF StampsAreFollowed

(* The stamp in force follows the passwords saved.                         *)
LEMMA StampsFollowedStep ==
  ASSUME Typed, SavesAreCounted, ReadsArePast, StampsAreTaken, StampsAreFollowed, [Next]_vars
  PROVE  StampsAreFollowed'
<1>1. /\ epoch \in Nat
      /\ \A d \in Requests : /\ {req[d].saved, req[d].stamp, req[d].stamped} \subseteq Nat
                             /\ req[d].saved <= epoch /\ req[d].stamped <= epoch
                             /\ req[d].stamp <= now
  BY DEF SavesAreCounted, ReadsArePast, StampsAreTaken, Typed, Request
<1>2. CASE UNCHANGED <<user, req>>
  BY <1>2, StampsFrame DEF user
<1>3. ASSUME NEW c \in Requests, FreshStart(c) PROVE StampsAreFollowed'
  <2>1. changedAt' = changedAt
    BY <1>3 DEF FreshStart, user
  <2>2. req[c].saved = 0
    BY <1>3 DEF FreshStart, SavesAreCounted
  <2>3. QED
    BY <1>3, <2>1, <2>2, StampsFrame DEF FreshStart
<1>4. ASSUME NEW c \in Requests, Moving(c) PROVE StampsAreFollowed'
  <2>1. \A d \in Requests :
          /\ req'[d].saved = req[d].saved
          /\ req[d].saved > 0 => req'[d].stamp = req[d].stamp
          /\ req[d].pc = "profiled" => req'[d] = req[d]
          /\ req'[d].pc = "profiling" => req'[d] = req[d]
    BY <1>1, <1>4 DEF Moving
  <2>2. CASE changedAt' = changedAt
    BY <2>1, <2>2, StampsFrame
  <2>3. CASE changedAt' = now
    <3>1. ASSUME NEW d \in Confirmers', NEW e \in Requests, req'[e].pc = "profiling"
          PROVE  \/ req'[e].stamped < req'[d].saved \/ req'[d].stamp <= req'[e].stamp
                 \/ Overtaken(d)'
      <4>1. d \in Confirmers /\ d \in Requests /\ req[d].saved > 0
        BY <2>1, <3>1 DEF Confirmers
      <4>2. Overtaken(d) => Overtaken(d)'
        BY <2>1, <4>1, OvertakenStays
      <4>3. QED
        BY <2>1, <3>1, <4>1, <4>2 DEF StampsAreFollowed
    <3>2. \A d \in Confirmers' : req'[d].stamp <= changedAt'
      BY <1>1, <2>1, <2>3 DEF Confirmers
    <3>3. QED
      BY <3>1, <3>2 DEF StampsAreFollowed
  <2>4. QED
    BY <1>4, <2>2, <2>3 DEF Moving
<1>5. ASSUME NEW c \in Requests, ConfirmSave(c) PROVE StampsAreFollowed'
  <2>1. /\ changedAt' = req[c].stamp /\ req[c].saved = 0
        /\ req'[c].saved = epoch + 1 /\ req'[c].stamp = req[c].stamp
        /\ req[c].pc # "profiled" /\ req'[c].pc # "profiling"
        /\ \A d \in Requests \ {c} : req'[d] = req[d]
    BY <1>5, SaveMovesOne DEF ConfirmSave, SavesAreCounted
  <2>2. c \in Confirmers'
    BY <1>1, <2>1 DEF Confirmers
  <2>3. ASSUME NEW d \in Confirmers', ~(req'[d].stamp <= changedAt') PROVE Overtaken(d)'
    <3>1. d \in Requests /\ d # c
      BY <1>1, <2>1, <2>3 DEF Confirmers
    <3>2. req'[c].saved > req'[d].saved /\ req'[c].stamp < req'[d].stamp
      BY <1>1, <2>1, <2>3, <3>1
    <3>3. QED
      BY <2>2, <3>2 DEF Overtaken
  <2>4. ASSUME NEW d \in Confirmers', NEW e \in Requests, req'[e].pc = "profiling"
        PROVE  \/ req'[e].stamped < req'[d].saved \/ req'[d].stamp <= req'[e].stamp
               \/ Overtaken(d)'
    <3>1. e # c /\ req'[e] = req[e]
      BY <2>1, <2>4
    <3>2. CASE d = c
      BY <1>1, <2>1, <3>1, <3>2
    <3>3. CASE d # c
      <4>1. d \in Requests /\ d \in Confirmers /\ req'[d] = req[d]
        BY <2>1, <2>4, <3>3 DEF Confirmers
      <4>2. Overtaken(d) => Overtaken(d)'
        BY <1>1, <2>1, <4>1, OvertakenStays
      <4>3. QED
        BY <2>4, <3>1, <4>1, <4>2 DEF StampsAreFollowed
    <3>4. QED
      BY <3>2, <3>3
  <2>5. QED
    BY <2>3, <2>4 DEF StampsAreFollowed
<1>6. ASSUME NEW c \in Requests, LoginRehash(c) PROVE StampsAreFollowed'
  <2>1. changedAt' = changedAt
    BY <1>6 DEF LoginRehash
  <2>2. QED
    BY <1>6, <2>1, RehashMovesOne, StampsFrame
<1>7. ASSUME NEW c \in Requests, ProfileSave(c) PROVE StampsAreFollowed'
  <2>1. /\ changedAt' = req[c].stamp /\ req[c].pc = "profiling" /\ req'[c].pc = "profiled"
        /\ req'[c].wrote = epoch /\ req'[c].stamped = req[c].stamped
        /\ \A d \in Requests : req'[d].saved = req[d].saved /\ req'[d].stamp = req[d].stamp
        /\ \A d \in Requests \ {c} : req'[d] = req[d]
    <3>1. changedAt' = req[c].stamp
      BY <1>7 DEF ProfileSave
    <3>2. QED
      BY <1>7, <3>1, ProfileMovesOne
  <2>2. ASSUME NEW d \in Confirmers'
        PROVE  /\ req'[d].stamp <= changedAt' \/ Overtaken(d)'
               /\ \A e \in Requests : req'[e].pc = "profiling" =>
                    \/ req'[e].stamped < req'[d].saved \/ req'[d].stamp <= req'[e].stamp
                    \/ Overtaken(d)'
    <3>1. d \in Requests /\ d \in Confirmers /\ req[d].saved <= epoch
      BY <1>1, <2>1, <2>2 DEF Confirmers
    <3>2. Overtaken(d) => Overtaken(d)'
      BY <2>1, <3>1, OvertakenStays
    <3>3. CASE req[c].stamped < req[d].saved
      <4>1. StampTakenBack(d)'
        BY <2>1, <3>1, <3>3 DEF StampTakenBack
      <4>2. QED
        BY <4>1 DEF Overtaken
    <3>4. CASE req[d].stamp <= req[c].stamp \/ Overtaken(d)
      <4>1. req'[d].stamp <= changedAt' \/ Overtaken(d)'
        BY <2>1, <3>1, <3>2, <3>4
      <4>2. \A e \in Requests : req'[e].pc = "profiling" =>
              \/ req'[e].stamped < req'[d].saved \/ req'[d].stamp <= req'[e].stamp
              \/ Overtaken(d)'
        BY <2>1, <3>1, <3>2 DEF StampsAreFollowed
      <4>3. QED
        BY <4>1, <4>2
    <3>5. QED
      BY <2>1, <3>1, <3>3, <3>4 DEF StampsAreFollowed
  <2>3. QED
    BY <2>2 DEF StampsAreFollowed
<1>8. QED
  BY <1>2, <1>3, <1>4, <1>5, <1>6, <1>7, KindsOfStep

(* Nothing depends on an account that does not exist.                      *)
LEMMA NobodyStep ==
  ASSUME Typed, NobodyYet, [Next]_vars
  PROVE  NobodyYet'
<1>1. CASE Tick
  BY <1>1 DEF Tick, Typed, Request, Refused, user, tokens, NobodyYet
<1>2. ASSUME NEW c \in Requests, RegisterProbe(c) PROVE NobodyYet'
  BY <1>2 DEF RegisterProbe, Typed, Start, Idle, Request, Refused, user, tokens, NobodyYet
<1>3. ASSUME NEW c \in Requests, RegisterInsert(c) PROVE NobodyYet'
  BY <1>3 DEF RegisterInsert, Typed, Goto, Request, Refused, user, tokens, NobodyYet
<1>4. ASSUME NEW c \in Requests, LoginVerify(c) PROVE NobodyYet'
  BY <1>4 DEF LoginVerify, Typed, Start, Idle, Request, Refused, user, tokens, NobodyYet
<1>4a. ASSUME NEW c \in Requests, LoginRehash(c) PROVE NobodyYet'
  BY <1>4a DEF LoginRehash, Typed, Request, tokens, NobodyYet
<1>5. ASSUME NEW c \in Requests, IssueTokens(c) PROVE NobodyYet'
  BY <1>5 DEF IssueTokens, Typed, Goto, Request, Refused, user, NobodyYet
<1>6. ASSUME NEW c \in Requests, NEW r \in DOMAIN refresh, RefreshVerify(c, r) PROVE NobodyYet'
  BY <1>6 DEF RefreshVerify, Typed, Start, Idle, Request, Refused, user, tokens, NobodyYet
<1>7. ASSUME NEW c \in Requests, RefreshRotate(c) PROVE NobodyYet'
  BY <1>7 DEF RefreshRotate, Typed, Goto, Request, Refused, user, NobodyYet
<1>8. ASSUME NEW c \in Requests, NEW r \in DOMAIN refresh, Logout(c, r) PROVE NobodyYet'
  BY <1>8 DEF Logout, Typed, Start, Idle, Request, Refused, user, NobodyYet
<1>9. ASSUME NEW c \in Requests, ResetClear(c) PROVE NobodyYet'
  BY <1>9 DEF ResetClear, Typed, Start, Idle, Request, Refused, user, tokens, NobodyYet
<1>10. ASSUME NEW c \in Requests, ResetIssue(c) PROVE NobodyYet'
  BY <1>10 DEF ResetIssue, Typed, Goto, Request, Refused, user, tokens, NobodyYet
<1>11. ASSUME NEW c \in Requests, NEW k \in DOMAIN links, ConfirmRead(c, k) PROVE NobodyYet'
  BY <1>11 DEF ConfirmRead, Typed, Start, Idle, Request, Refused, user, tokens, NobodyYet
<1>12. ASSUME NEW c \in Requests, ConfirmSpend(c) PROVE NobodyYet'
  BY <1>12 DEF ConfirmSpend, Typed, Goto, Request, Refused, user, tokens, NobodyYet
<1>13. ASSUME NEW c \in Requests, ConfirmStamp(c) PROVE NobodyYet'
  BY <1>13 DEF ConfirmStamp, Typed, Request, Refused, user, tokens, NobodyYet
<1>14. ASSUME NEW c \in Requests, ConfirmSave(c) PROVE NobodyYet'
  BY <1>14 DEF ConfirmSave, Typed, Request, Refused, tokens, NobodyYet
<1>15. ASSUME NEW c \in Requests, RevokeList(c) PROVE NobodyYet'
  BY <1>15 DEF RevokeList, Typed, Request, Refused, user, tokens, NobodyYet
<1>16. ASSUME NEW c \in Requests, RevokeOne(c) PROVE NobodyYet'
  BY <1>16 DEF RevokeOne, Typed, Request, Refused, user, NobodyYet
<1>17. ASSUME NEW c \in Requests, ConfirmEnd(c) PROVE NobodyYet'
  BY <1>17 DEF ConfirmEnd, Typed, Goto, Request, Refused, user, tokens, NobodyYet
<1>17a. ASSUME NEW c \in Requests, ProfileRead(c) PROVE NobodyYet'
  BY <1>17a DEF ProfileRead, user, NobodyYet
<1>17b. ASSUME NEW c \in Requests, ProfileSave(c) PROVE NobodyYet'
  BY <1>17b DEF ProfileSave, Typed, Request, tokens, NobodyYet
<1>18. ASSUME NEW c \in Requests, BreakOff(c) PROVE NobodyYet'
  BY <1>18 DEF BreakOff, Typed, Goto, Request, Refused, user, tokens, NobodyYet
<1>19. CASE UNCHANGED vars
  BY <1>19 DEF vars, Typed, Refused, user, tokens, NobodyYet
<1>20. QED
  BY <1>1, <1>2, <1>3, <1>4, <1>4a, <1>5, <1>6, <1>7, <1>8, <1>9, <1>10, <1>11, <1>12, <1>13,
     <1>14, <1>15, <1>16, <1>17, <1>17a, <1>17b, <1>18, <1>19 DEF Next, Confirm

(* Tokens made now for a password there has been are fresh.                *)
LEMMA NewTokensAreFresh ==
  ASSUME Typed, StampsAreTaken, NEW n \in Nat, n <= epoch
  PROVE  Fresh(Token(Iat, n))
<1>1. Iat \in Nat /\ Iat >= now - Leeway /\ {now, changedAt, Leeway, epoch} \subseteq Nat
  BY IatIsRecent, AccountsAssumption DEF Typed
<1>2. changedAt <= now /\ \A d \in Requests : req[d].stamp <= now /\ req[d].stamp \in Nat
  BY DEF Typed, StampsAreTaken, Request
<1>3. QED
  BY <1>1, <1>2 DEF Fresh, Token

(* Adding fresh tokens keeps them all fresh, as long as the row is left    *)
(* alone and no profile edit starts.                                       *)
LEMMA FreshFrame ==
  ASSUME TokensAreFresh, user' = user, NEW t, NEW u, Fresh(t), Fresh(u), Typed,
         refresh' = Append(refresh, t), access' = access \union {u},
         \A d \in Requests : req'[d].pc = "profiling" => req'[d] = req[d]
  PROVE  TokensAreFresh'
<1>1. \A r \in DOMAIN refresh' : \/ r \in DOMAIN refresh /\ refresh'[r] = refresh[r]
                                 \/ refresh'[r] = t
  BY DEF Typed
<1>2. \A r \in DOMAIN refresh' : Fresh(refresh'[r])
  BY <1>1 DEF TokensAreFresh
<1>3. \A a \in access' : Fresh(a)
  BY DEF TokensAreFresh
<1>4. ASSUME NEW x, Fresh(x)
      PROVE  /\ x.authority <= epoch' /\ x.minted <= epoch'
             /\ x.authority = stamped' => x.iat >= changedAt' - Leeway
             /\ \A c \in Requests : req'[c].pc = "profiling" /\ x.authority = req'[c].stamped =>
                  x.iat >= req'[c].stamp - Leeway
  BY <1>4 DEF Fresh, user
<1>5. QED
  BY <1>2, <1>3, <1>4 DEF TokensAreFresh, Fresh

(* Whatever happens to an account, the fresh tokens there are stay fresh.  *)
LEMMA KeptTokensAreFresh ==
  ASSUME Typed, SavesAreCounted, registered,
         [Next]_vars, NEW t \in Minted, Fresh(t)
  PROVE  Fresh(t)'
<1>1. epoch \in Nat /\ t.authority \in Nat /\ t.minted \in Nat
  BY DEF Typed, Minted
<1>2. CASE UNCHANGED <<user, req>>
  BY <1>2 DEF user, Fresh
<1>3. ASSUME NEW c \in Requests, FreshStart(c) PROVE Fresh(t)'
  BY <1>3 DEF FreshStart, user, Fresh
<1>4. ASSUME NEW c \in Requests, Moving(c) PROVE Fresh(t)'
  BY <1>4 DEF Moving, Fresh
<1>5. ASSUME NEW c \in Requests, ConfirmSave(c) PROVE Fresh(t)'
  <2>1. epoch' = epoch + 1 /\ stamped' = epoch + 1
    BY <1>5 DEF ConfirmSave
  <2>2. QED
    BY <1>1, <1>5, <2>1, SaveMovesOne DEF Fresh
<1>6. ASSUME NEW c \in Requests, LoginRehash(c) PROVE Fresh(t)'
  <2>1. <<epoch, stamped, changedAt>>' = <<epoch, stamped, changedAt>>
    BY <1>6 DEF LoginRehash
  <2>2. QED
    BY <1>6, <2>1, RehashMovesOne DEF Fresh
<1>7. ASSUME NEW c \in Requests, ProfileSave(c) PROVE Fresh(t)'
  <2>1. epoch' = epoch /\ stamped' = req[c].stamped /\ changedAt' = req[c].stamp
    BY <1>7 DEF ProfileSave
  <2>2. QED
    BY <1>7, <2>1, ProfileMovesOne DEF Fresh
<1>8. QED
  BY <1>2, <1>3, <1>4, <1>5, <1>6, <1>7, KindsOfStep

(* A token that goes back to the password of a stamp is new enough for it. *)
LEMMA FreshStep ==
  ASSUME Typed, NobodyYet, SavesAreCounted, ReadsArePast, StampsAreTaken, TokensAreFresh,
         [Next]_vars
  PROVE  TokensAreFresh'
<1>1. ASSUME NEW c \in Requests, IssueTokens(c) PROVE TokensAreFresh'
  <2>1. Fresh(Token(Iat, req[c].seen))
    BY <1>1, NewTokensAreFresh DEF IssueTokens, ReadsArePast, Typed, Request
  <2>2. \A d \in Requests : req'[d].pc = "profiling" => req'[d] = req[d]
    BY <1>1 DEF IssueTokens, Goto, Typed
  <2>3. QED
    BY <1>1, <2>1, <2>2, FreshFrame DEF IssueTokens
<1>2. ASSUME NEW c \in Requests, RefreshRotate(c) PROVE TokensAreFresh'
  <2> DEFINE old == refresh[req[c].token]
  <2>1. old \in Minted /\ Fresh(old)
    BY <1>2 DEF TokensAreFresh, ReadsArePast, RefreshRotate, Typed
  <2>2. Fresh(Token(Iat, old.authority))
    BY <2>1, NewTokensAreFresh DEF Fresh, Minted
  <2>3. Fresh(Token(old.iat, old.authority))
    BY <2>1 DEF Fresh, Token, Typed
  <2>4. \A d \in Requests : req'[d].pc = "profiling" => req'[d] = req[d]
    BY <1>2 DEF RefreshRotate, Goto, Typed
  <2>5. QED
    BY <1>2, <2>2, <2>3, <2>4, FreshFrame DEF RefreshRotate
<1>3. CASE ~ \E c \in Requests : IssueTokens(c) \/ RefreshRotate(c)
  <2>1. UNCHANGED <<refresh, access>>
    BY <1>3, OthersMakeNoTokens
  <2>2. CASE registered
    <3>1. \A t \in Minted : Fresh(t) => Fresh(t)'
      BY <2>2, KeptTokensAreFresh
    <3>2. (\A r \in DOMAIN refresh : refresh[r] \in Minted) /\ access \subseteq Minted
      BY DEF Typed
    <3>3. QED
      BY <2>1, <3>1, <3>2 DEF TokensAreFresh
  <2>3. CASE ~registered
    <3>1. refresh' = <<>> /\ access' = {}
      BY <2>1, <2>3 DEF NobodyYet
    <3>2. QED
      BY <3>1 DEF TokensAreFresh
  <2>4. QED
    BY <2>2, <2>3 DEF Typed
<1>4. QED
  BY <1>1, <1>2, <1>3

----------------------------------------------------------------------------
(* The first state has the invariant.                                      *)
LEMMA InitAccountsInv == Init => AccountsInv
<1> SUFFICES ASSUME Init PROVE AccountsInv
  OBVIOUS
<1>1. \A c \in Requests : req[c] = Idle
  BY DEF Init
<1>2. Idle \in Request
  BY DEF Idle, Request, Steps
<1>3. LinkLife \in Nat /\ Leeway \in Nat
  BY AccountsAssumption
<1>4. Typed
  <2>1. \A S : \A x \in S : <<x>> \in Seq(S) /\ <<>> \in Seq(S)
    OBVIOUS
  <2>2. [iat |-> 0, authority |-> 0, minted |-> 0] \in Minted
    BY DEF Minted
  <2>3. [used |-> FALSE, expires |-> LinkLife, after |-> 0] \in Link
    BY <1>3 DEF Link
  <2>4. refresh \in Seq(Minted) /\ access \subseteq Minted
    BY <2>1, <2>2 DEF Init
  <2>5. links \in Seq(Link)
    BY <2>1, <2>3 DEF Init
  <2>6. req \in [Requests -> Request]
    BY <1>2 DEF Init
  <2>7. registered \in BOOLEAN
    BY Zenon DEF Init
  <2>8. /\ now \in Nat /\ changedAt \in 0..now /\ blacklisted \subseteq Nat
        /\ epoch \in Nat /\ password \in 0..epoch /\ stamped \in 0..epoch
    BY DEF Init
  <2>9. QED
    BY <2>4, <2>5, <2>6, <2>7, <2>8 DEF Typed
<1>5. NobodyYet
  BY <1>1 DEF Init, NobodyYet, Idle
<1>6. ClearedLinksStaySpent /\ OneLiveLink
  BY <1>1, <1>3 DEF Init, ClearedLinksStaySpent, OneLiveLink, Idle
<1>7. SavesAreCounted /\ RevocationIsComplete /\ SessionsEndWithTheReset
  BY <1>1 DEF Init, SavesAreCounted, RevocationIsComplete, SessionsEndWithTheReset, Confirmers,
              Idle
<1>8. TokensAreFresh /\ ReadsArePast
  BY <1>1, <1>3 DEF Init, TokensAreFresh, Fresh, ReadsArePast, Idle
<1>9. StampsAreTaken /\ StampsAreFollowed /\ NewPasswordStays
  BY <1>1 DEF Init, StampsAreTaken, StampsAreFollowed, NewPasswordStays, Confirmers, Idle
<1>10. QED
  BY <1>4, <1>5, <1>6, <1>7, <1>8, <1>9 DEF AccountsInv

(* Every step of every request keeps it.                                   *)
LEMMA NextAccountsInv == AccountsInv /\ [Next]_vars => AccountsInv'
BY TypedStep, NobodyStep, ClearedStep, OneLiveLinkStep, SavesStep, SessionsStep, ReadsStep,
   NewPasswordStaysStep, FreshStep, StampsTakenStep, StampsFollowedStep DEF AccountsInv

(* So it holds throughout, whichever statements of requests interleave.    *)
THEOREM AccountsInvariant == Spec => []AccountsInv
BY InitAccountsInv, NextAccountsInv, PTL DEF Spec

(* create_reset_token leaves one link that works: of two live ones, the    *)
(* later was asked for before the earlier had been stored.                 *)
THEOREM LinksAreSpent == Spec => []OneLiveLink
<1>1. AccountsInv => OneLiveLink
  BY DEF AccountsInv
<1>2. QED
  BY <1>1, AccountsInvariant, PTL

(* revoke_all_refresh_tokens ends every session older than the password.   *)
THEOREM ResetEndsSessions == Spec => []SessionsEndWithTheReset
<1>1. AccountsInv => SessionsEndWithTheReset
  BY DEF AccountsInv
<1>2. QED
  BY <1>1, AccountsInvariant, PTL

(* The password and its stamp say together which tokens hold: a saved      *)
(* password stays and a stamp refuses the access tokens older than it by   *)
(* more than the leeway, until a request that had read the row before      *)
(* writes it back, and no stamp refuses a token made from its own.         *)
THEOREM StampSeparatesTokens == Spec => []AccessFollowsThePassword
<1>1. AccountsInv => AccessEndsWithTheReset
  <2> SUFFICES ASSUME AccountsInv, NEW c \in Confirmers, NEW a \in access,
                      a.iat < req[c].stamp - Leeway
               PROVE  Refused(a) \/ Overtaken(c)
    BY DEF AccessEndsWithTheReset, Overtaken
  <2>1. /\ a.iat \in Nat /\ req[c].stamp \in Nat /\ changedAt \in Nat /\ Leeway \in Nat
    BY AccountsAssumption DEF AccountsInv, Typed, Minted, Confirmers, Request
  <2>2. CASE req[c].stamp <= changedAt
    BY <2>1, <2>2 DEF Refused
  <2>3. QED
    BY <2>2 DEF AccountsInv, StampsAreFollowed
<1>2. AccountsInv => FreshTokensAreAccepted
  <2> SUFFICES ASSUME AccountsInv, NEW a \in access, a.authority = stamped PROVE ~Refused(a)
    BY DEF FreshTokensAreAccepted
  <2>1. a.iat \in Nat /\ changedAt \in Nat /\ Leeway \in Nat
    BY AccountsAssumption DEF AccountsInv, Typed, Minted
  <2>2. a.iat >= changedAt - Leeway
    BY DEF AccountsInv, TokensAreFresh, Fresh
  <2>3. QED
    BY <2>1, <2>2 DEF Refused
<1>3. AccountsInv => AccessFollowsThePassword
  BY <1>1, <1>2 DEF AccountsInv, AccessFollowsThePassword
<1>4. QED
  BY <1>3, AccountsInvariant, PTL
----------------------------------------------------------------------------
(* The tallies.  Only ConfirmSave saves a password; every other step leaves *)
(* the count, and what each request has saved, as they were.               *)
LEMMA OnlySavesAreSaved ==
  ASSUME Typed, SavesAreCounted, [Next]_vars, ~ \E c \in Requests : ConfirmSave(c)
  PROVE  epoch' = epoch /\ \A d \in Requests : req'[d].saved = req[d].saved
<1> DEFINE Kept == epoch' = epoch /\ \A d \in Requests : req'[d].saved = req[d].saved
<1>1. CASE UNCHANGED <<user, req>>
  BY <1>1 DEF user
<1>2. ASSUME NEW c \in Requests, FreshStart(c) \/ Moving(c) PROVE Kept
  BY <1>2 DEF FreshStart, Moving, user, SavesAreCounted
<1>3. ASSUME NEW c \in Requests, LoginRehash(c) \/ ProfileSave(c) PROVE Kept
  BY <1>3, RehashMovesOne, ProfileMovesOne DEF LoginRehash, ProfileSave
<1>4. QED
  BY <1>1, <1>2, <1>3, KindsOfStep

(* A confirmation that saves is one more that has.                         *)
LEMMA EpochStep ==
  ASSUME IsFiniteSet(Requests), Typed, SavesAreCounted, EpochCountsSaves, [Next]_vars
  PROVE  EpochCountsSaves'
<1>1. IsFiniteSet(Confirmers)
  BY FS_Subset DEF Confirmers
<1>2. CASE \E c \in Requests : ConfirmSave(c)
  <2>1. PICK c \in Requests : ConfirmSave(c)
    BY <1>2
  <2>2. /\ epoch' = epoch + 1 /\ epoch \in Nat
        /\ req'[c].saved = epoch + 1 /\ \A d \in Requests \ {c} : req'[d] = req[d]
    BY <2>1 DEF ConfirmSave, Typed, Request
  <2>3. c \notin Confirmers
    BY <2>1 DEF ConfirmSave, SavesAreCounted, Confirmers
  <2>4. Confirmers' = Confirmers \union {c}
    BY <2>2 DEF Confirmers
  <2>5. Cardinality(Confirmers \union {c}) = Cardinality(Confirmers) + 1
    BY <1>1, <2>3, FS_AddElement
  <2>6. QED
    BY <2>2, <2>4, <2>5 DEF EpochCountsSaves
<1>3. CASE ~ \E c \in Requests : ConfirmSave(c)
  <2>1. epoch' = epoch /\ \A d \in Requests : req'[d].saved = req[d].saved
    BY <1>3, OnlySavesAreSaved
  <2>2. Confirmers' = Confirmers
    BY <2>1 DEF Confirmers
  <2>3. QED
    BY <2>1, <2>2 DEF EpochCountsSaves
<1>4. QED
  BY <1>2, <1>3

(* Time goes on and passwords are added.                                   *)
LEMMA NothingGoesBack ==
  ASSUME Typed, SavesAreCounted, now <= MaxTime, [Next]_vars
  PROVE  now' <= MaxTime /\ now <= now' /\ epoch <= epoch' /\ now' \in Nat /\ epoch' \in Nat
<1>1. now \in Nat /\ epoch \in Nat /\ MaxTime \in Nat
  BY AccountsAssumption DEF Typed
<1>2. CASE Tick
  BY <1>1, <1>2 DEF Tick, user
<1>3. ASSUME NEW c \in Requests, ConfirmSave(c) PROVE now' = now /\ epoch' = epoch + 1
  BY <1>3 DEF ConfirmSave
<1>4. CASE ~Tick
  <2>1. now' = now
    BY <1>4 DEF Next, Confirm, vars, RegisterProbe, RegisterInsert, LoginVerify, LoginRehash,
       IssueTokens, RefreshVerify, RefreshRotate, Logout, ResetClear, ResetIssue, ConfirmRead,
       ConfirmSpend, ConfirmStamp, ConfirmSave, RevokeList, RevokeOne, ConfirmEnd, ProfileRead,
       ProfileSave, BreakOff
  <2>2. QED
    BY <1>1, <1>3, <2>1, OnlySavesAreSaved
<1>5. QED
  BY <1>2, <1>4

(* Tokens that are kept, or made now, are dated.                           *)
LEMMA DatedFrame ==
  ASSUME Typed, TokensAreDated, NEW t, NEW u, Dated(t), Dated(u), <<now, epoch>>' = <<now, epoch>>,
         refresh' = Append(refresh, t), access' = access \union {u}
  PROVE  TokensAreDated'
<1>1. \A r \in DOMAIN refresh' : \/ r \in DOMAIN refresh /\ refresh'[r] = refresh[r]
                                 \/ refresh'[r] = t
  BY DEF Typed
<1>2. \A r \in DOMAIN refresh' : Dated(refresh'[r])
  BY <1>1 DEF TokensAreDated
<1>3. \A a \in access' : Dated(a)
  BY DEF TokensAreDated
<1>4. \A x : Dated(x) => Dated(x)'
  BY DEF Dated
<1>5. QED
  BY <1>2, <1>3 DEF TokensAreDated, Dated

(* No step dates a token wrongly.                                          *)
LEMMA DatedStep ==
  ASSUME Typed, SavesAreCounted, now <= MaxTime, ReadsArePast, TokensAreFresh,
         TokensAreDated, [Next]_vars
  PROVE  TokensAreDated'
<1>1. ASSUME NEW c \in Requests, IssueTokens(c) PROVE TokensAreDated'
  <2>1. req[c].seen \in Nat /\ req[c].seen <= epoch /\ epoch \in Nat
    BY <1>1 DEF IssueTokens, ReadsArePast, Typed, Request
  <2>2. Dated(Token(Iat, req[c].seen))
    BY <2>1, IatIsRecent DEF Dated, Token, Typed
  <2>3. QED
    BY <1>1, <2>2, DatedFrame DEF IssueTokens, user
<1>2. ASSUME NEW c \in Requests, RefreshRotate(c) PROVE TokensAreDated'
  <2> DEFINE old == refresh[req[c].token]
  <2>1. old \in Minted /\ Fresh(old) /\ Dated(old) /\ epoch \in Nat
    BY <1>2 DEF ReadsArePast, TokensAreFresh, TokensAreDated, RefreshRotate, Typed
  <2>2. Dated(Token(Iat, old.authority)) /\ Dated(Token(old.iat, old.authority))
    BY <2>1, IatIsRecent DEF Dated, Fresh, Token, Typed
  <2>3. QED
    BY <1>2, <2>2, DatedFrame DEF RefreshRotate, user
<1>3. CASE ~ \E c \in Requests : IssueTokens(c) \/ RefreshRotate(c)
  <2>1. UNCHANGED <<refresh, access>>
    BY <1>3, OthersMakeNoTokens
  <2>2. now <= now' /\ epoch <= epoch' /\ {now, epoch, now', epoch'} \subseteq Nat
    BY NothingGoesBack DEF Typed
  <2>3. \A t \in Minted : Dated(t) => Dated(t)'
    BY <2>2 DEF Dated, Minted
  <2>4. QED
    BY <2>1, <2>3 DEF TokensAreDated, Typed
<1>4. QED
  BY <1>1, <1>2, <1>3

(* Whatever is retired is a token there is.                                *)
LEMMA RevokedStep ==
  ASSUME Typed, ReadsArePast, RevokedTokensExist, [Next]_vars
  PROVE  RevokedTokensExist'
<1> DEFINE Known == /\ blacklisted' \subseteq DOMAIN refresh
                    /\ \A d \in Requests : req'[d].list \subseteq DOMAIN refresh
<1>1. DOMAIN refresh \subseteq DOMAIN refresh'
  <2>1. CASE \E c \in Requests : IssueTokens(c) \/ RefreshRotate(c)
    <3>1. \E t : refresh' = Append(refresh, t)
      BY <2>1 DEF IssueTokens, RefreshRotate
    <3>2. QED
      BY <3>1 DEF Typed
  <2>2. QED
    BY <2>1, OthersMakeNoTokens
<1>2. ASSUME \A d \in Requests : req'[d].list \subseteq req[d].list, blacklisted' = blacklisted
      PROVE  Known
  BY <1>2 DEF RevokedTokensExist
<1>3. ASSUME Tick \/ UNCHANGED vars
      PROVE  Known
  <2>1. req' = req /\ blacklisted' = blacklisted
    BY <1>3 DEF Tick, vars, tokens
  <2>2. QED
    BY <2>1 DEF RevokedTokensExist
<1>4. ASSUME NEW c \in Requests, Starting(c)
      PROVE  Known
  <2>1. req'[c].list = {} /\ \A d \in Requests \ {c} : req'[d] = req[d]
    <3>1. ASSUME NEW state, Start(c, state), state.list = {}
          PROVE  req'[c].list = {} /\ \A d \in Requests \ {c} : req'[d] = req[d]
      BY <3>1 DEF Start, Typed
    <3>2. \A s, m, n, p :
            /\ [Idle EXCEPT !.pc = s].list = {}
            /\ [Idle EXCEPT !.pc = s, !.seen = n].list = {}
            /\ [Idle EXCEPT !.pc = s, !.token = n].list = {}
            /\ [Idle EXCEPT !.pc = s, !.token = m, !.seen = n].list = {}
            /\ [Idle EXCEPT !.pc = s, !.seen = m, !.stamp = n, !.stamped = p].list = {}
      BY DEF Idle
    <3>3. CASE RegisterProbe(c) \/ LoginVerify(c) \/ ResetClear(c) \/ ProfileRead(c)
      BY <3>1, <3>2, <3>3 DEF RegisterProbe, LoginVerify, ResetClear, ProfileRead
    <3>4. ASSUME NEW r \in DOMAIN refresh, RefreshVerify(c, r) \/ Logout(c, r)
          PROVE  req'[c].list = {} /\ \A d \in Requests \ {c} : req'[d] = req[d]
      BY <3>1, <3>2, <3>4 DEF RefreshVerify, Logout
    <3>5. ASSUME NEW k \in DOMAIN links, ConfirmRead(c, k)
          PROVE  req'[c].list = {} /\ \A d \in Requests \ {c} : req'[d] = req[d]
      BY <3>1, <3>2, <3>5 DEF ConfirmRead
    <3>6. QED
      BY <1>4, <3>3, <3>4, <3>5 DEF Starting
  <2>2. blacklisted' \subseteq DOMAIN refresh
    BY <1>4 DEF Starting, RegisterProbe, LoginVerify, ResetClear, RefreshVerify, Logout,
       ConfirmRead, ProfileRead, tokens, RevokedTokensExist
  <2>3. QED
    BY <2>1, <2>2 DEF RevokedTokensExist
<1>5. ASSUME NEW c \in Requests, RegisterInsert(c) PROVE Known
  <2>1. \A d \in Requests : req'[d].list = req[d].list
    <3>1. PICK s \in {"refused", "verified"} : req' = [req EXCEPT ![c].pc = s]
      BY <1>5 DEF RegisterInsert, Goto
    <3>2. QED
      BY <3>1 DEF Typed, Request
  <2>2. QED
    BY <1>2, <1>5, <2>1 DEF RegisterInsert, tokens
<1>6. ASSUME NEW c \in Requests, NEW s \in Steps, Goto(c, s)
      PROVE  \A d \in Requests : req'[d].list = req[d].list
  BY <1>6, GotoMovesOne
<1>7. ASSUME NEW c \in Requests, IssueTokens(c) \/ ResetIssue(c) PROVE Known
  <2>1. Goto(c, "over") /\ blacklisted' = blacklisted
    BY <1>7 DEF IssueTokens, ResetIssue, tokens
  <2>2. QED
    BY <1>2, <1>6, <2>1 DEF Steps
<1>8. ASSUME NEW c \in Requests, RefreshRotate(c) PROVE Known
  <2>1. \A d \in Requests : req'[d].list = req[d].list
    BY <1>6, <1>8 DEF RefreshRotate, Steps
  <2>2. blacklisted' \subseteq DOMAIN refresh
    BY <1>8 DEF RefreshRotate, ReadsArePast, RevokedTokensExist
  <2>3. QED
    BY <2>1, <2>2 DEF RevokedTokensExist
<1>9. ASSUME NEW c \in Requests, ConfirmSpend(c) \/ ConfirmEnd(c) \/ BreakOff(c) PROVE Known
  <2>1. blacklisted' = blacklisted
    BY <1>9 DEF ConfirmSpend, ConfirmEnd, BreakOff, tokens
  <2>2. \E s \in Steps : Goto(c, s)
    BY <1>9 DEF ConfirmSpend, ConfirmEnd, BreakOff, Steps
  <2>3. QED
    BY <1>2, <1>6, <2>1, <2>2
<1>10. ASSUME NEW c \in Requests, ConfirmStamp(c) PROVE Known
  BY <1>2, <1>10 DEF ConfirmStamp, tokens, Typed, Request
<1>11. ASSUME NEW c \in Requests, ConfirmSave(c) PROVE Known
  BY <1>2, <1>11 DEF ConfirmSave, tokens, Typed, Request
<1>11a. ASSUME NEW c \in Requests, LoginRehash(c) \/ ProfileSave(c) PROVE Known
  <2>1. \A d \in Requests : req'[d].list = req[d].list
    BY <1>11a, RehashMovesOne, ProfileMovesOne
  <2>2. blacklisted' = blacklisted
    BY <1>11a DEF LoginRehash, ProfileSave, tokens
  <2>3. QED
    BY <1>2, <2>1, <2>2
<1>12. ASSUME NEW c \in Requests, RevokeList(c) PROVE Known
  <2>1. req'[c].list = DOMAIN refresh /\ \A d \in Requests \ {c} : req'[d] = req[d]
    BY <1>12 DEF RevokeList, Typed, Request
  <2>2. QED
    BY <1>12, <2>1 DEF RevokeList, tokens, RevokedTokensExist
<1>13. ASSUME NEW c \in Requests, RevokeOne(c) PROVE Known
  <2>1. PICK r \in req[c].list : /\ blacklisted' = blacklisted \union {r}
                                 /\ req' = [req EXCEPT ![c].list = @ \ {r}]
    BY <1>13 DEF RevokeOne
  <2>2. \A d \in Requests : req'[d].list \subseteq req[d].list
    BY <2>1 DEF Typed, Request
  <2>3. QED
    BY <2>1, <2>2 DEF RevokedTokensExist
<1>14. Known
  <2>1. CASE \E c \in Requests : Starting(c)
    BY <1>4, <2>1
  <2>2. ASSUME NEW c \in Requests, ~Starting(c),
               \/ RegisterProbe(c) \/ RegisterInsert(c)
               \/ LoginVerify(c) \/ LoginRehash(c) \/ IssueTokens(c)
               \/ RefreshRotate(c)
               \/ \E r \in DOMAIN refresh : RefreshVerify(c, r) \/ Logout(c, r)
               \/ ResetClear(c) \/ ResetIssue(c)
               \/ \E k \in DOMAIN links : ConfirmRead(c, k)
               \/ Confirm(c)
               \/ ProfileRead(c) \/ ProfileSave(c)
               \/ BreakOff(c)
        PROVE  Known
    <3>1. \/ RegisterInsert(c) \/ IssueTokens(c) \/ RefreshRotate(c) \/ ResetIssue(c)
          \/ Confirm(c) \/ LoginRehash(c) \/ ProfileSave(c) \/ BreakOff(c)
      BY <2>2 DEF Starting
    <3> HIDE DEF Known
    <3>2. QED
      BY <1>5, <1>7, <1>8, <1>9, <1>10, <1>11, <1>11a, <1>12, <1>13, <3>1,
         Zenon DEF Confirm
  <2> HIDE DEF Known
  <2>3. QED
    BY <1>3, <2>1, <2>2 DEF Next
<1>15. QED
  BY <1>1, <1>14 DEF RevokedTokensExist

(* A link follows the links that had been stored when it was asked for.    *)
LEMMA LinksStep ==
  ASSUME Typed, ClearedLinksStaySpent, LinksFollow, [Next]_vars
  PROVE  LinksFollow'
<1>1. DOMAIN links = 1..Len(links) /\ Len(links) \in Nat /\ \A k \in DOMAIN links : links[k] \in Link
  BY DEF Typed
<1>2. ASSUME DOMAIN links' = DOMAIN links, \A k \in DOMAIN links : links'[k].after = links[k].after
      PROVE  LinksFollow'
  BY <1>2 DEF LinksFollow
<1>3. ASSUME NEW c \in Requests, ResetIssue(c) PROVE LinksFollow'
  <2>1. req[c].seen \in Nat /\ req[c].seen <= Len(links)
    BY <1>3 DEF ResetIssue, ClearedLinksStaySpent, Typed, Request
  <2>2. \A k \in DOMAIN links' :
          links'[k].after = IF k \in DOMAIN links THEN links[k].after ELSE req[c].seen
    BY <1>1, <1>3 DEF ResetIssue
  <2>3. \A k \in DOMAIN links' : k \in DOMAIN links \/ k = Len(links) + 1
    BY <1>1, <1>3 DEF ResetIssue
  <2>4. QED
    BY <1>1, <2>1, <2>2, <2>3 DEF LinksFollow
<1>4. ASSUME NEW c \in Requests, ResetClear(c) PROVE LinksFollow'
  BY <1>1, <1>2, <1>4 DEF ResetClear, Link
<1>5. ASSUME NEW c \in Requests, ConfirmSpend(c) PROVE LinksFollow'
  BY <1>1, <1>2, <1>5 DEF ConfirmSpend, Link
<1>6. CASE ~ \E c \in Requests : ResetIssue(c) \/ ResetClear(c) \/ ConfirmSpend(c)
  <2>1. links' = links
    BY <1>6, OthersKeepLinks
  <2>2. QED
    BY <1>2, <2>1
<1>7. QED
  BY <1>3, <1>4, <1>5, <1>6

(* A password is saved at most once by a request, tokens and links point   *)
(* at what there is, and the state stays within its type.                  *)
THEOREM AccountsTypes ==
  ASSUME IsFiniteSet(Requests)
  PROVE  Spec => []TypeOK
<1>1. Init => TalliesInv
  <2> SUFFICES ASSUME Init PROVE TalliesInv
    OBVIOUS
  <2>1. \A c \in Requests : req[c] = Idle
    BY DEF Init
  <2>2. Confirmers = {}
    BY <2>1 DEF Confirmers, Idle
  <2>3. EpochCountsSaves
    BY <2>2, FS_EmptySet DEF EpochCountsSaves, Init
  <2>4. TokensAreDated
    BY DEF Init, TokensAreDated, Dated
  <2>5. RevokedTokensExist /\ LinksFollow
    BY <2>1 DEF Init, RevokedTokensExist, LinksFollow, Idle
  <2>6. now <= MaxTime
    BY AccountsAssumption DEF Init
  <2>7. QED
    BY <2>3, <2>4, <2>5, <2>6 DEF TalliesInv
<1>2. AccountsInv /\ TalliesInv /\ [Next]_vars => TalliesInv'
  BY NothingGoesBack, EpochStep, DatedStep, RevokedStep, LinksStep DEF AccountsInv, TalliesInv
<1>3. AccountsInv /\ TalliesInv => TypeOK
  <2> SUFFICES ASSUME AccountsInv, TalliesInv PROVE TypeOK
    OBVIOUS
  <2> USE DEF AccountsInv, TalliesInv
  <2>1. now \in 0..MaxTime /\ changedAt \in 0..now
    BY AccountsAssumption DEF Typed
  <2>2. registered \in BOOLEAN
    BY Zenon DEF Typed
  <2>3. epoch \in 0..Cardinality(Requests) /\ {password, stamped} \subseteq 0..epoch
    <3>1. Confirmers \subseteq Requests
      BY DEF Confirmers
    <3>2. /\ Cardinality(Confirmers) <= Cardinality(Requests)
          /\ Cardinality(Requests) \in Nat
      BY <3>1, FS_Subset, FS_CardinalityType
    <3>3. QED
      BY <3>2 DEF EpochCountsSaves, Typed
  <2>4. /\ \A r \in DOMAIN refresh : refresh[r].authority <= refresh[r].minted
        /\ \A a \in access : a.authority <= a.minted /\ a.minted <= epoch /\ a.iat <= now
    BY DEF TokensAreDated, Dated
  <2>5. \A k \in DOMAIN links : links[k].used \in BOOLEAN /\ links[k].after < k
    <3>1. \A k \in DOMAIN links : links[k] \in Link
      BY DEF Typed
    <3>2. QED
      BY <3>1, Zenon DEF LinksFollow, Link
  <2>6. \A c \in Requests : req[c].list \subseteq DOMAIN refresh /\ req[c].saved <= epoch
    BY DEF RevokedTokensExist, SavesAreCounted
  <2>7. blacklisted \subseteq DOMAIN refresh
    BY DEF RevokedTokensExist
  <2> HIDE DEF AccountsInv, TalliesInv
  <2>8. QED
    BY <2>1, <2>2, <2>3, <2>4, <2>5, <2>6, <2>7, Zenon DEF TypeOK
<1>4. QED
  BY <1>1, <1>2, <1>3, AccountsInvariant, PTL DEF Spec
=============================================================================
